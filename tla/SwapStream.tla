----------------------------- MODULE SwapStream -----------------------------
(***************************************************************************)
(* How a swap reaches the clients of the gRPC stream.                      *)
(*                                                                         *)
(* The indexer inserts a row.  A trigger notifies channel swap_updates of  *)
(* every insert and update of a row, in commit order, to every session     *)
(* that listens at that moment.  The volume enricher answers an INSERT by  *)
(* computing a USD volume (asynchronously: several at once) and updating   *)
(* `WHERE tx_sig = ...`.  The gRPC server's listener holds an INSERT in a  *)
(* buffer keyed by tx_sig until the UPDATE comes or a timeout expires.     *)
(*                                                                         *)
(* Swaps of one transaction are rows of their own with the same tx_sig.  A *)
(* volume is named by the swap whose amounts it was computed from.         *)
(***************************************************************************)
EXTENDS Naturals, Sequences, FiniteSets

CONSTANTS
  Swaps,    \* rows the indexer inserts
  TxOf,     \* TxOf[s]: the tx_sig of row s
  Earlier   \* Earlier[s]: the swaps that precede s in its transaction

ASSUME TxOfAssumption == DOMAIN TxOf = Swaps
ASSUME EarlierAssumption == Earlier \in [Swaps -> SUBSET Swaps]

\* A behaviour has finitely many swaps, and no swap is taken for one of the
\* values a volume has besides.
ASSUME SwapsAssumption ==
  IsFiniteSet(Swaps) /\ Swaps \cap {"absent", "null", "zero"} = {}

VARIABLES
  volume,     \* volume[s]: "absent" (no row), "null", "zero" or a swap
  jobs,       \* swaps the enricher was notified of and has not updated yet
  link,       \* the listener's session: "connecting", "up", "lost", "dead"
  toGrpc,     \* notifications queued for it
  buffer,     \* dedup buffer, oldest entry first: rows waiting for an UPDATE
  emitted,    \* history: emitted[s], the volumes row s was broadcast with
  missed,     \* history: the listener missed a notification or lost its buffer
  restarted   \* history: the gRPC server was restarted

grpcVars == <<link, toGrpc, buffer, emitted, missed, restarted>>
vars     == <<volume, jobs, grpcVars>>

Volumes       == Swaps \cup {"null", "zero"}
Notifications == [op : {"INSERT", "UPDATE"}, row : Swaps, volume : Volumes]
Siblings(s)   == {r \in Swaps : TxOf[r] = TxOf[s]}

TypeOK ==
  /\ DOMAIN volume = Swaps
  /\ \A s \in Swaps : volume[s] \in {"absent", "null", "zero"} \cup Siblings(s)
  /\ jobs \subseteq Swaps
  /\ link \in {"connecting", "up", "lost", "dead"}
  /\ toGrpc \in Seq(Notifications)
  /\ link # "up" => toGrpc = <<>>
  /\ buffer \in Seq(Swaps)
  /\ \A i, j \in 1..Len(buffer) : TxOf[buffer[i]] = TxOf[buffer[j]] => i = j
  /\ emitted \in [Swaps -> Seq(Volumes)]
  /\ missed \in BOOLEAN
  /\ restarted \in BOOLEAN

Init ==
  /\ volume = [s \in Swaps |-> "absent"]
  /\ jobs = {}
  /\ link = "connecting"
  /\ toGrpc = <<>>
  /\ buffer = <<>>
  /\ emitted = [s \in Swaps |-> <<>>]
  /\ missed = FALSE
  /\ restarted = FALSE

-----------------------------------------------------------------------------
(* The trigger.                                                            *)

\* Faulty variant: only the first value of a volume is notified.
NotifyOnce(ns) ==
  LET fresh == SelectSeq(ns, LAMBDA n : volume[n.row] \in {"absent", "null"}) IN
  /\ toGrpc' = IF link = "up" THEN toGrpc \o fresh ELSE toGrpc
  /\ missed' = (missed \/ link # "up")

\* A commit sends the notifications ns to the listener's session.  (What the
\* enricher's session does with them is in the actions themselves: an INSERT
\* starts a job, an UPDATE is ignored.)
Notify(ns) ==
  /\ toGrpc' = IF link = "up" THEN toGrpc \o ns ELSE toGrpc
  /\ missed' = (missed \/ link # "up")

\* The indexer inserts a swap.  Those of a transaction come in its order, as one
\* that fails ends the handling of the transaction.
Insert(s) ==
  /\ volume[s] = "absent"
  /\ \A r \in Earlier[s] : volume[r] # "absent"
  /\ volume' = [volume EXCEPT ![s] = "null"]
  /\ Notify(<<[op |-> "INSERT", row |-> s, volume |-> "null"]>>)
  /\ jobs' = jobs \cup {s}
  /\ UNCHANGED <<link, buffer, emitted, restarted>>

-----------------------------------------------------------------------------
(* The volume enricher (handleSwapNotification).                           *)

\* computeVolumeUsd: the price of either token gives a volume; no pool, no
\* price or no answer in time gives 0.
ComputedVolumes(s) == {s, "zero"}

\* The rows a statement touches are notified of in some order.
UpdateNotices(rows, v) ==
  {ns \in [1..Cardinality(rows) -> [op : {"UPDATE"}, row : rows, volume : {v}]] :
     \A r \in rows : \E i \in DOMAIN ns : ns[i].row = r}

\* UPDATE swaps SET volume_usd = ... WHERE tx_sig = ...: every row of the
\* transaction that exists.
Enrich(s) ==
  /\ s \in jobs
  /\ jobs' = jobs \ {s}
  /\ LET rows == {r \in Siblings(s) : volume[r] # "absent"} IN
       \E v \in ComputedVolumes(s) : \E ns \in UpdateNotices(rows, v) :
         /\ volume' = [r \in Swaps |-> IF r \in rows THEN v ELSE volume[r]]
         /\ Notify(ns)
  /\ UNCHANGED <<link, buffer, emitted, restarted>>

\* The query fails: logged, and the swap is never enriched again.
EnrichFails(s) ==
  /\ s \in jobs
  /\ jobs' = jobs \ {s}
  /\ UNCHANGED <<volume, grpcVars>>

\* Its LISTEN connection fails or it is stopped: the process exits and starts
\* again; what was queued or in flight is gone.
EnricherRestarts ==
  /\ jobs' = {}
  /\ UNCHANGED <<volume, grpcVars>>

-----------------------------------------------------------------------------
(* The gRPC server's listener (start_db_listener).                         *)

\* The buffer without the entry of the tx_sig of s (TypeOK: it has one at most).
Others(s) ==
  LET places == {i \in 1..Len(buffer) : TxOf[buffer[i]] = TxOf[s]}
      here   == CHOOSE i \in places : TRUE IN
  IF places = {} THEN buffer
  ELSE SubSeq(buffer, 1, here - 1) \o SubSeq(buffer, here + 1, Len(buffer))

Emit(s, v) == emitted' = [emitted EXCEPT ![s] = Append(@, v)]

ListenerConnects ==
  /\ link \in {"connecting", "lost"}
  /\ link' = "up"
  /\ UNCHANGED <<volume, jobs, toGrpc, buffer, emitted, missed, restarted>>

\* The first connect or LISTEN fails: the task returns Err, which main only
\* logs.  (After a first success the loop tries again.)
ListenerDies ==
  /\ link = "connecting"
  /\ link' = "dead"
  /\ UNCHANGED <<volume, jobs, toGrpc, buffer, emitted, missed, restarted>>

\* The session is lost with what was queued for it.
ListenerLosesLink ==
  /\ link = "up"
  /\ link' = "lost"
  /\ missed' = (missed \/ toGrpc # <<>>)
  /\ toGrpc' = <<>>
  /\ UNCHANGED <<volume, jobs, buffer, emitted, restarted>>

\* INSERT: into the buffer, in the place of any entry of the same tx_sig.
ListenerInsert ==
  /\ toGrpc # <<>>
  /\ Head(toGrpc).op = "INSERT"
  /\ toGrpc' = Tail(toGrpc)
  /\ buffer' = Append(Others(Head(toGrpc).row), Head(toGrpc).row)
  /\ UNCHANGED <<volume, jobs, link, emitted, missed, restarted>>

\* Faulty variants: the entry stays in the buffer; a volume of 0 is not news.
ListenerUpdateKeeps ==
  /\ toGrpc # <<>>
  /\ Head(toGrpc).op = "UPDATE"
  /\ toGrpc' = Tail(toGrpc)
  /\ Emit(Head(toGrpc).row, Head(toGrpc).volume)
  /\ UNCHANGED <<volume, jobs, link, buffer, missed, restarted>>
ListenerUpdateSkipsZero ==
  /\ toGrpc # <<>>
  /\ Head(toGrpc).op = "UPDATE"
  /\ toGrpc' = Tail(toGrpc)
  /\ buffer' = Others(Head(toGrpc).row)
  /\ IF Head(toGrpc).volume = "zero" THEN UNCHANGED emitted
     ELSE Emit(Head(toGrpc).row, Head(toGrpc).volume)
  /\ UNCHANGED <<volume, jobs, link, missed, restarted>>

\* UPDATE: drop any entry of the tx_sig, broadcast the enriched row.
ListenerUpdate ==
  /\ toGrpc # <<>>
  /\ Head(toGrpc).op = "UPDATE"
  /\ toGrpc' = Tail(toGrpc)
  /\ buffer' = Others(Head(toGrpc).row)
  /\ Emit(Head(toGrpc).row, Head(toGrpc).volume)
  /\ UNCHANGED <<volume, jobs, link, missed, restarted>>

\* Faulty variant: the entries are dropped, not broadcast.
TickDrops ==
  /\ link \in {"up", "lost"}
  /\ \E n \in 1..Len(buffer) : buffer' = SubSeq(buffer, n + 1, Len(buffer))
  /\ UNCHANGED <<volume, jobs, link, toGrpc, emitted, missed, restarted>>

\* The tick broadcasts the entries that are older than the timeout as they are.
Tick ==
  /\ link \in {"up", "lost"}
  /\ \E n \in 1..Len(buffer) :
       /\ buffer' = SubSeq(buffer, n + 1, Len(buffer))
       /\ emitted' = [s \in Swaps |->
            IF \E i \in 1..n : buffer[i] = s THEN Append(emitted[s], "null") ELSE emitted[s]]
  /\ UNCHANGED <<volume, jobs, link, toGrpc, missed, restarted>>

\* The server process is restarted: session and buffer are gone.
GrpcRestarts ==
  /\ ~restarted
  /\ restarted' = TRUE
  /\ missed' = (missed \/ toGrpc # <<>> \/ buffer # <<>>)
  /\ link' = "connecting"
  /\ toGrpc' = <<>>
  /\ buffer' = <<>>
  /\ UNCHANGED <<volume, jobs, emitted>>

Next ==
  \/ \E s \in Swaps : Insert(s) \/ Enrich(s) \/ EnrichFails(s)
  \/ EnricherRestarts
  \/ ListenerConnects \/ ListenerDies \/ ListenerLosesLink
  \/ ListenerInsert \/ ListenerUpdate \/ Tick \/ GrpcRestarts

(***************************************************************************)
(* Fairness: the timer of the listener's select! loop keeps ticking, so an *)
(* entry that stays in the buffer times out.                               *)
(***************************************************************************)
Spec     == Init /\ [][Next]_vars
FairSpec == Spec /\ WF_vars(Tick)

-----------------------------------------------------------------------------
(* Properties.                                                             *)

Inserted == {s \in Swaps : volume[s] # "absent"}

\* A client sees a swap without its volume at most once, and never after it
\* has seen it with one, although two entries of one tx_sig share a place in the
\* buffer.
PlainComesFirst ==
  /\ TypeOK
  /\ \A s \in Swaps : \A i \in 2..Len(emitted[s]) : emitted[s][i] # "null"

\* When the listener has worked off its queue and missed nothing, the clients
\* were last told what the database holds of every enriched swap.
StreamAgreesWithTable ==
  ~missed /\ toGrpc = <<>> =>
    \A s \in Inserted : volume[s] # "null" =>
      emitted[s] # <<>> /\ emitted[s][Len(emitted[s])] = volume[s]

\* A swap that is alone in its transaction is waiting or was broadcast, once
\* the listener has worked off its queue and has missed nothing.
NoSwapVanishes ==
  ~missed /\ toGrpc = <<>> =>
    \A s \in Inserted : Siblings(s) = {s} =>
      emitted[s] # <<>> \/ \E i \in 1..Len(buffer) : buffer[i] = s

\* A transaction in the buffer has one of its swaps broadcast, whatever becomes
\* of the enricher and of the session, unless the server is restarted.
BufferIsFlushed ==
  \A t \in {TxOf[s] : s \in Swaps} :
    (\E i \in 1..Len(buffer) : TxOf[buffer[i]] = t) ~>
      (restarted \/ \E s \in Swaps : TxOf[s] = t /\ emitted[s] # <<>>)
=============================================================================
