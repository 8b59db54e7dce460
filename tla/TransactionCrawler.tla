-------------------------- MODULE TransactionCrawler --------------------------
(***************************************************************************)
(* The RPC transaction crawler, a datasource that polls the history of the *)
(* program instead of subscribing to it (RpcTransactionCrawler::consume).  *)
(*                                                                         *)
(* Three tasks joined by two bounded channels.  The lister                 *)
(* (signature_fetcher) pages through the history, newest first, in sweeps: *)
(* a sweep goes down from the newest signature to the newest one of the    *)
(* sweep before it.  The fetcher (transaction_fetcher) downloads up to     *)
(* MaxConcurrent transactions at once and keeps no order between them.     *)
(* The worker (task_processor) filters them and sends them to the          *)
(* pipeline.  `consume` returns at once and only the cancellation token    *)
(* ends a task; a pipeline that stops without it leaves the tasks running. *)
(*                                                                         *)
(* Signatures are numbered in the order of confirmation, so a page, which  *)
(* the node returns newest first, is an interval; 0 stands for None.       *)
(***************************************************************************)
EXTENDS Naturals, Sequences, FiniteSets

CONSTANTS
  MaxSig,         \* signatures the chain confirms (bound)
  BatchLimit,     \* batch_limit: size of a page
  MaxConcurrent,  \* max_concurrent_requests
  MaxRetries,     \* retry_config.max_retries
  SigCapacity,    \* max_signature_channel_size
  TxCapacity,     \* max_transaction_channel_size
  OutCapacity,    \* channel_buffer_size of the pipeline's channel
  StartBefore,    \* values filters.before_signature may have
  Unusable        \* transactions the worker skips

ASSUME BoundsAssumption   == MaxSig \in Nat /\ MaxRetries \in Nat
ASSUME BatchAssumption    == BatchLimit \in Nat \ {0}
ASSUME CapacityAssumption ==
  {MaxConcurrent, SigCapacity, TxCapacity, OutCapacity} \subseteq Nat \ {0}
ASSUME FilterAssumption   == StartBefore \subseteq 0..MaxSig
ASSUME UnusableAssumption == Unusable \subseteq 1..MaxSig

VARIABLES
  tip,       \* the newest confirmed signature
  cancel,    \* the cancellation token
  rxOpen,    \* the pipeline holds the receiving half of its channel
  waiting,   \* number of updates in the pipeline's channel
  blocking,  \* connection_config.blocking_send
  floor,     \* filters.until_signature
  lister,    \* control point of signature_fetcher; "new" before consume
  before,    \* last_fetched_signature
  until,     \* until_signature
  recent,    \* most_recent_signature
  next,      \* the signature of the page in hand that is sent next
  low,       \* the last signature of the page in hand
  tries,     \* failed attempts of the request in progress
  sigs,      \* the signature channel
  fetcher,   \* control point of transaction_fetcher
  fetching,  \* requests in flight: signature -> failed attempts
  hold,      \* the fetched transaction for_each is sending
  txs,       \* the transaction channel
  worker,    \* control point of task_processor
  work,      \* the transaction the worker is sending
  listed,    \* history: how often each signature was put into the channel
  given,     \* history: the updates put into the pipeline's channel
  gone       \* history: transactions skipped, not fetched or not sent

listVars  == <<lister, before, until, recent, next, low, tries>>
fetchVars == <<fetcher, fetching, hold>>
workVars  == <<worker, work>>
envVars   == <<tip, cancel, rxOpen, waiting, blocking, floor>>
histVars  == <<listed, given, gone>>
vars == <<envVars, listVars, sigs, fetchVars, txs, workVars, histVars>>

Sigs == 1..MaxSig

Init ==
  /\ tip \in 0..MaxSig
  /\ cancel = FALSE /\ rxOpen = TRUE /\ waiting = 0
  /\ blocking \in BOOLEAN /\ floor = 0
  /\ lister = "new" /\ before = 0
  /\ until = 0 /\ recent = 0 /\ next = 0 /\ low = 0 /\ tries = 0
  /\ sigs = <<>>
  /\ fetcher = "run" /\ fetching = <<>> /\ hold = 0
  /\ txs = <<>>
  /\ worker = "recv" /\ work = 0
  /\ listed = [s \in Sigs |-> 0] /\ given = <<>> /\ gone = {}

\* consume spawns the three tasks with the filters it was given and returns.
Consume(u, b) ==
  /\ lister = "new"
  /\ b = 0 \/ (u < b /\ b <= tip)
  /\ floor' = u /\ until' = u /\ before' = b
  /\ lister' = "ask"
  /\ UNCHANGED <<tip, cancel, rxOpen, waiting, blocking, recent, next, low, tries, sigs,
                 fetchVars, txs, workVars, histVars>>

-----------------------------------------------------------------------------
(* signature_fetcher *)

\* The page the node returns: PageTop down to PageLow, empty when PageTop is
\* not above `until`.
PageTop == IF before = 0 THEN tip ELSE before - 1
PageLow == IF PageTop > until + BatchLimit THEN PageTop - BatchLimit + 1 ELSE until + 1
PageIsEmpty == PageTop <= until

\* A page with signatures: the first page of a sweep fixes its newest one.
ListPage ==
  /\ lister = "ask" /\ ~PageIsEmpty
  /\ recent' = IF recent = 0 THEN PageTop ELSE recent
  /\ next' = PageTop /\ low' = PageLow /\ tries' = 0
  /\ lister' = "send"
  /\ UNCHANGED <<before, until, envVars, sigs, fetchVars, txs, workVars, histVars>>

\* Faulty variants: the next sweep goes down to where this one went; it does
\* not start at the newest signature.
EndSweepKeepsUntil ==
  /\ lister = "ask" /\ PageIsEmpty
  /\ before' = 0 /\ tries' = 0 /\ recent' = 0
  /\ UNCHANGED <<until, lister, next, low, envVars, sigs, fetchVars, txs, workVars, histVars>>
EndSweepKeepsBefore ==
  /\ lister = "ask" /\ PageIsEmpty
  /\ tries' = 0 /\ recent' = 0
  /\ until' = IF recent # 0 THEN recent ELSE until
  /\ UNCHANGED <<before, lister, next, low, envVars, sigs, fetchVars, txs, workVars, histVars>>

\* An empty page ends the sweep; the next one starts at the newest signature
\* and goes down to where this one started.
EndSweep ==
  /\ lister = "ask" /\ PageIsEmpty
  /\ before' = 0 /\ tries' = 0
  /\ until' = IF recent # 0 THEN recent ELSE until
  /\ recent' = 0
  /\ UNCHANGED <<lister, next, low, envVars, sigs, fetchVars, txs, workVars, histVars>>

\* A failed request: tried again, and after MaxRetries the outer loop asks the
\* same page anew.
ListFails ==
  /\ lister = "ask"
  /\ tries' = IF tries < MaxRetries THEN tries + 1 ELSE 0
  /\ UNCHANGED <<lister, before, until, recent, next, low, envVars, sigs, fetchVars, txs, workVars, histVars>>

\* One signature of the page into the channel, waiting for room.
SendSignature ==
  /\ lister = "send" /\ next >= low
  /\ fetcher = "run" /\ Len(sigs) < SigCapacity
  /\ sigs' = Append(sigs, next)
  /\ listed' = [listed EXCEPT ![next] = @ + 1]
  /\ next' = next - 1
  /\ UNCHANGED <<lister, before, until, recent, low, tries, envVars, fetchVars, txs, workVars, given, gone>>

\* The channel is closed: the rest of the page is passed over.
SendSignatureFails ==
  /\ lister = "send" /\ next >= low
  /\ fetcher = "ended"
  /\ before' = low /\ lister' = "ask"
  /\ UNCHANGED <<until, recent, next, low, tries, envVars, sigs, fetchVars, txs, workVars, histVars>>

\* The page is through: go on below it.
EndPage ==
  /\ lister = "send" /\ next < low
  /\ before' = low /\ lister' = "ask"
  /\ UNCHANGED <<until, recent, next, low, tries, envVars, sigs, fetchVars, txs, workVars, histVars>>

ListerCancelled ==
  /\ cancel /\ lister \in {"ask", "send"}
  /\ lister' = "ended"
  /\ UNCHANGED <<before, until, recent, next, low, tries, envVars, sigs, fetchVars, txs, workVars, histVars>>

-----------------------------------------------------------------------------
(* transaction_fetcher *)

\* buffer_unordered starts requests while there is room, unless for_each is
\* waiting to send, when nothing polls the stream.
StartFetch ==
  /\ fetcher = "run" /\ hold = 0
  /\ sigs # <<>> /\ Cardinality(DOMAIN fetching) < MaxConcurrent
  /\ fetching' = [s \in DOMAIN fetching \union {Head(sigs)} |->
                    IF s = Head(sigs) THEN 0 ELSE fetching[s]]
  /\ sigs' = Tail(sigs)
  /\ UNCHANGED <<fetcher, hold, envVars, listVars, txs, workVars, histVars>>

Without(s) == [r \in DOMAIN fetching \ {s} |-> fetching[r]]

Fetched(s) ==
  /\ fetcher = "run" /\ hold = 0
  /\ fetching' = Without(s) /\ hold' = s
  /\ UNCHANGED <<fetcher, envVars, listVars, sigs, txs, workVars, histVars>>

\* A failed request is tried again; after MaxRetries the transaction is lost.
FetchFails(s) ==
  /\ fetcher = "run" /\ hold = 0
  /\ \/ /\ fetching[s] < MaxRetries
        /\ fetching' = [fetching EXCEPT ![s] = @ + 1]
        /\ UNCHANGED gone
     \/ /\ fetching[s] >= MaxRetries
        /\ fetching' = Without(s)
        /\ gone' = gone \union {s}
  /\ UNCHANGED <<fetcher, hold, envVars, listVars, sigs, txs, workVars, listed, given>>

\* Faulty variant: a transaction stays in hand after it was sent.
SendTransactionKeeps ==
  /\ fetcher = "run" /\ hold # 0
  /\ worker # "ended" /\ Len(txs) < TxCapacity
  /\ txs' = Append(txs, hold)
  /\ UNCHANGED <<fetcher, fetching, hold, envVars, listVars, sigs, workVars, histVars>>

\* for_each sends one transaction at a time, waiting for room.
SendTransaction ==
  /\ fetcher = "run" /\ hold # 0
  /\ \/ /\ worker # "ended" /\ Len(txs) < TxCapacity
        /\ txs' = Append(txs, hold) /\ UNCHANGED gone
     \/ /\ worker = "ended"
        /\ gone' = gone \union {hold} /\ UNCHANGED txs
  /\ hold' = 0
  /\ UNCHANGED <<fetcher, fetching, envVars, listVars, sigs, workVars, listed, given>>

\* The stream with its requests and both channel ends are dropped.
FetcherCancelled ==
  /\ cancel /\ fetcher = "run"
  /\ fetcher' = "ended" /\ fetching' = <<>> /\ hold' = 0 /\ sigs' = <<>>
  /\ UNCHANGED <<envVars, listVars, txs, workVars, histVars>>

-----------------------------------------------------------------------------
(* task_processor *)

TakeTransaction ==
  /\ worker = "recv" /\ txs # <<>>
  /\ txs' = Tail(txs)
  /\ IF Head(txs) \in Unusable
       THEN gone' = gone \union {Head(txs)} /\ UNCHANGED workVars
       ELSE worker' = "send" /\ work' = Head(txs) /\ UNCHANGED gone
  /\ UNCHANGED <<envVars, listVars, sigs, fetchVars, listed, given>>

SendUpdate ==
  /\ worker = "send" /\ rxOpen /\ waiting < OutCapacity
  /\ waiting' = waiting + 1
  /\ given' = Append(given, work)
  /\ worker' = "recv" /\ work' = 0
  /\ UNCHANGED <<tip, cancel, rxOpen, blocking, floor, listVars, sigs, fetchVars, txs, listed, gone>>

\* Faulty variant: a blocking send that is never woken by a dropped receiver.
SendUpdateNeverFails ==
  /\ worker = "send" /\ ~blocking
  /\ ~rxOpen \/ waiting = OutCapacity
  /\ gone' = gone \union {work}
  /\ worker' = "recv" /\ work' = 0
  /\ UNCHANGED <<envVars, listVars, sigs, fetchVars, txs, listed, given>>

\* A blocking send fails only when the receiver is gone, try_send also when
\* the channel is full; the update is logged and lost.
SendUpdateFails ==
  /\ worker = "send"
  /\ ~rxOpen \/ (~blocking /\ waiting = OutCapacity)
  /\ gone' = gone \union {work}
  /\ worker' = "recv" /\ work' = 0
  /\ UNCHANGED <<envVars, listVars, sigs, fetchVars, txs, listed, given>>

\* The token is looked at between two transactions, not during a send.
WorkerCancelled ==
  /\ cancel /\ worker = "recv"
  /\ worker' = "ended" /\ txs' = <<>>
  /\ UNCHANGED <<work, envVars, listVars, sigs, fetchVars, histVars>>

-----------------------------------------------------------------------------
(* The chain, and the pipeline at the other end of the channel. *)

Confirm ==
  /\ tip < MaxSig
  /\ tip' = tip + 1
  /\ UNCHANGED <<cancel, rxOpen, waiting, blocking, floor, listVars, sigs, fetchVars, txs, workVars, histVars>>

Receive ==
  /\ rxOpen /\ waiting > 0
  /\ waiting' = waiting - 1
  /\ UNCHANGED <<tip, cancel, rxOpen, blocking, floor, listVars, sigs, fetchVars, txs, workVars, histVars>>

\* The run returns and drops its receiver, with or without the token.
DropReceiver ==
  /\ rxOpen /\ lister # "new"
  /\ rxOpen' = FALSE /\ waiting' = 0
  /\ UNCHANGED <<tip, cancel, blocking, floor, listVars, sigs, fetchVars, txs, workVars, histVars>>

Cancel ==
  /\ ~cancel /\ lister # "new"
  /\ cancel' = TRUE
  /\ UNCHANGED <<tip, rxOpen, waiting, blocking, floor, listVars, sigs, fetchVars, txs, workVars, histVars>>

-----------------------------------------------------------------------------
ListerStep ==
  \/ ListPage \/ EndSweep \/ ListFails
  \/ SendSignature \/ SendSignatureFails \/ EndPage
  \/ ListerCancelled

FetcherStep ==
  \/ StartFetch \/ SendTransaction \/ FetcherCancelled
  \/ \E s \in DOMAIN fetching : Fetched(s) \/ FetchFails(s)

WorkerStep == TakeTransaction \/ SendUpdate \/ SendUpdateFails \/ WorkerCancelled

Environment == Confirm \/ Receive \/ DropReceiver \/ Cancel

Next ==
  \/ \E u \in 0..tip, b \in StartBefore : Consume(u, b)
  \/ ListerStep \/ FetcherStep \/ WorkerStep \/ Environment

Spec == Init /\ [][Next]_vars

\* A node that is asked again and again answers in the end; a fetch ends, one
\* way or the other; a task that can take a step takes one; the pipeline reads
\* its channel while it holds it, and ends when it is cancelled.
Fairness ==
  /\ WF_vars(ListPage) /\ WF_vars(EndSweep)
  /\ WF_vars(SendSignature \/ SendSignatureFails \/ EndPage)
  /\ WF_vars(StartFetch) /\ WF_vars(SendTransaction)
  /\ SF_vars(\E s \in DOMAIN fetching : Fetched(s) \/ FetchFails(s))
  /\ WF_vars(TakeTransaction \/ SendUpdate \/ SendUpdateFails)
  /\ WF_vars(Receive) /\ WF_vars(cancel /\ DropReceiver)
  /\ WF_vars(ListerCancelled) /\ WF_vars(FetcherCancelled) /\ SF_vars(WorkerCancelled)

-----------------------------------------------------------------------------
(* Properties *)

EnvOK ==
  /\ tip \in 0..MaxSig /\ waiting \in 0..OutCapacity
  /\ cancel \in BOOLEAN /\ rxOpen \in BOOLEAN /\ blocking \in BOOLEAN /\ floor \in 0..MaxSig

ListerOK ==
  /\ lister \in {"new", "ask", "send", "ended"}
  /\ before \in 0..MaxSig /\ until \in 0..MaxSig /\ recent \in 0..MaxSig
  /\ next \in 0..MaxSig /\ low \in 0..MaxSig /\ tries \in 0..MaxRetries
  /\ lister = "send" => low \in Sigs

SigsOK == sigs \in Seq(Sigs) /\ Len(sigs) <= SigCapacity

FetcherOK ==
  /\ fetcher \in {"run", "ended"} /\ hold \in 0..MaxSig
  /\ DOMAIN fetching \subseteq Sigs
  /\ \A s \in DOMAIN fetching : fetching[s] \in 0..MaxRetries

TxsOK == txs \in Seq(Sigs) /\ Len(txs) <= TxCapacity

WorkerOK ==
  /\ worker \in {"recv", "send", "ended"} /\ work \in 0..MaxSig
  /\ worker = "send" => work \in Sigs

HistoryOK == listed \in [Sigs -> Nat] /\ given \in Seq(Sigs) /\ gone \subseteq Sigs

TypeOK ==
  /\ EnvOK /\ ListerOK /\ SigsOK /\ FetcherOK /\ TxsOK /\ WorkerOK /\ HistoryOK

\* The cursor lists every signature exactly once ("this will prevent us from
\* reindexing already seen transactions", lib.rs:300), although signatures are
\* confirmed between two pages of a sweep and a failed page is asked again:
\* never twice, and what a finished sweep stands for (up to `until`) and this
\* sweep has passed (from `before` to `recent`) has no hole, as long as there is
\* a fetcher to take it.
ListedExactlyOnce ==
  \A s \in Sigs :
    /\ listed[s] <= 1
    /\ fetcher = "run" /\ s > floor =>
         (s <= until \/ (before # 0 /\ before <= s /\ s <= recent) => listed[s] = 1)

\* Every confirmed transaction above the floor is given to the pipeline or
\* given up, unless the run is cancelled.
EveryoneDecided ==
  \A s \in Sigs :
    (lister # "new" /\ floor < s /\ s <= tip) ~> (s \in gone \/ (\E i \in DOMAIN given : given[i] = s) \/ cancel)

\* The token ends the three tasks, whatever they are waiting for.
CancelEndsTasks ==
  cancel ~> (lister = "ended" /\ fetcher = "ended" /\ worker = "ended")

\* To the pipeline the crawler is a once-only delivery of what was confirmed.
Delivery == INSTANCE OnceOnlyDelivery WITH confirmed <- tip, given <- given, gone <- gone
RefinesDelivery == Delivery!Spec
=============================================================================
