----------------------------- MODULE EventStore -----------------------------
(***************************************************************************)
(* What the instruction processor writes to the database (processors.rs,   *)
(* database.rs, the tables of migration 001) while carbon walks through    *)
(* the instructions of one transaction after the other.                    *)
(*                                                                         *)
(* A transaction is a sequence of Omnipair events.  Every event runs its   *)
(* statements one by one, each in a database transaction of its own.  The  *)
(* first one that fails ends the walk (`?`): the rest of the transaction   *)
(* is skipped and never retried.  The run may be dropped at any await.     *)
(*                                                                         *)
(* Overlapping or reconnected websocket iterations (AtlasDatasource) may   *)
(* deliver a transaction twice, late or never, so a delivery here is of    *)
(* any transaction.  An event is <<t, i>>, the i-th of transaction t;      *)
(* transactions are numbered in the order the chain confirmed them.        *)
(***************************************************************************)
EXTENDS Naturals, Sequences

CONSTANTS
  Chain,          \* Chain[t] is the sequence of events of transaction t
  Keys,           \* (pair, signer) pairs
  MaxDeliveries   \* number of deliveries (bound)

Kinds == {"swap", "mint", "burn", "collateral", "debt", "position", "liquidated", "pair", "lp", "log"}

ASSUME ChainAssumption == Chain \in Seq(Seq([kind : Kinds, key : Keys]))
ASSUME MaxDeliveriesAssumption == MaxDeliveries \in Nat

VARIABLES
  at,           \* the next statement: transaction (0: none), event, step
  rows,         \* rows[e]: rows of event e in the tables that only grow
  bySig,        \* bySig[b][t]: the event of t (0: none) whose row table b holds
  latest,       \* latest[b][k]: the event (or None) table b shows for key k
  pools,        \* keys with a row in pools
  announced,    \* keys whose pool the webhook was told about
  deliveries,   \* history: number of deliveries
  last,         \* history: the transaction delivered last
  ordered,      \* history: no delivery was of a transaction older than the one before
  clean,        \* history: no delivery was cut short
  stored,       \* history: <<t, i, s>>, the database statements that succeeded
  settled       \* history: transactions whose last delivery was processed to the end

tables  == <<rows, bySig, latest, pools, announced>>
history == <<deliveries, last, ordered, clean, stored, settled>>
vars    == <<at, tables, history>>

Txs    == DOMAIN Chain
Events == UNION {{t} \X DOMAIN Chain[t] : t \in Txs}
None   == <<0, 0>>
Idle   == [tx |-> 0, event |-> 0, step |-> 0]

SignatureTables == {"adjust_collateral_events", "adjust_debt_events",
                    "user_position_updated_events", "user_position_liquidated_events"}
LatestTables    == {"user_borrow_positions", "user_liquidity_positions"}

-----------------------------------------------------------------------------
(* The statements of one event, by the function that runs them.            *)

Insert        == [op |-> "insert", table |-> "none"]
BySignature(b) == [op |-> "signature", table |-> b]
Latest(b)     == [op |-> "latest", table |-> b]
Pool          == [op |-> "pool", table |-> "none"]
Webhook       == [op |-> "webhook", table |-> "none"]

\* ON CONFLICT (tx_sig, timestamp) with timestamp = now(): no statement ever
\* conflicts with an earlier one, so each of these adds a row.
UpsertSwapEvent == <<Insert>>
UpsertMintEvent == <<Insert>>
UpsertBurnEvent == <<Insert>>

\* ON CONFLICT (transaction_signature): one row per transaction.
UpsertAdjustCollateralEvent       == <<BySignature("adjust_collateral_events")>>
UpsertAdjustDebtEvent             == <<BySignature("adjust_debt_events")>>
UpsertUserPositionLiquidatedEvent == <<BySignature("user_position_liquidated_events")>>

UpsertUserPositionUpdatedEvent ==
  <<BySignature("user_position_updated_events"), Latest("user_borrow_positions")>>
UpsertUserLiquidityPositionUpdatedEvent ==
  <<Insert, Latest("user_liquidity_positions")>>

\* The pool row (ON CONFLICT (pair_address)), then the webhook.
ProcessPairCreatedEvent == <<Pool, Webhook>>

\* Events that are only logged: AdjustLiquidity, UpdatePair, UserPositionCreated
\* and unhandled instructions.
LogOnly == <<>>

\* The processor's match.
Statements(kind) ==
  CASE kind = "swap"       -> UpsertSwapEvent
    [] kind = "mint"       -> UpsertMintEvent
    [] kind = "burn"       -> UpsertBurnEvent
    [] kind = "collateral" -> UpsertAdjustCollateralEvent
    [] kind = "debt"       -> UpsertAdjustDebtEvent
    [] kind = "liquidated" -> UpsertUserPositionLiquidatedEvent
    [] kind = "position"   -> UpsertUserPositionUpdatedEvent
    [] kind = "lp"         -> UpsertUserLiquidityPositionUpdatedEvent
    [] kind = "pair"       -> ProcessPairCreatedEvent
    [] kind = "log"        -> LogOnly

Program(e) == Statements(Chain[e[1]][e[2]].kind)
KeyOf(e)   == Chain[e[1]][e[2]].key

-----------------------------------------------------------------------------
TypeOK ==
  /\ at \in {Idle} \cup [tx : Txs, event : Nat \ {0}, step : Nat \ {0}]
  /\ at.tx # 0 => /\ at.event <= Len(Chain[at.tx]) + 1
                  /\ at.event <= Len(Chain[at.tx]) =>
                       at.step <= Len(Program(<<at.tx, at.event>>)) + 1
                  /\ at.event > Len(Chain[at.tx]) => at.step = 1
  /\ rows \in [Events -> 0..MaxDeliveries]
  /\ bySig \in [SignatureTables -> [Txs -> Nat]]
  /\ latest \in [LatestTables -> [Keys -> Events \cup {None}]]
  /\ pools \subseteq Keys
  /\ announced \subseteq Keys
  /\ deliveries \in 0..MaxDeliveries
  /\ last \in Txs \cup {0}
  /\ ordered \in BOOLEAN
  /\ clean \in BOOLEAN
  /\ stored \subseteq {<<e[1], e[2], s>> : e \in Events, s \in 1..2}
  /\ settled \subseteq Txs

Init ==
  /\ at = Idle
  /\ rows = [e \in Events |-> 0]
  /\ bySig = [b \in SignatureTables |-> [t \in Txs |-> 0]]
  /\ latest = [b \in LatestTables |-> [k \in Keys |-> None]]
  /\ pools = {}
  /\ announced = {}
  /\ deliveries = 0
  /\ last = 0
  /\ ordered = TRUE
  /\ clean = TRUE
  /\ stored = {}
  /\ settled = {}

\* The event at work, and its next statement.
Event     == <<at.tx, at.event>>
InEvent   == at.tx # 0 /\ at.event <= Len(Chain[at.tx])
Running(op) ==
  /\ InEvent
  /\ at.step <= Len(Program(Event))
  /\ Program(Event)[at.step].op = op
Table     == Program(Event)[at.step].table
StepDone  == at' = [at EXCEPT !.step = @ + 1]
Succeeded == stored' = stored \cup {<<at.tx, at.event, at.step>>}

-----------------------------------------------------------------------------
\* The pipeline takes a transaction from its channel.
Deliver(t) ==
  /\ at = Idle
  /\ deliveries < MaxDeliveries
  /\ at' = [tx |-> t, event |-> 1, step |-> 1]
  /\ deliveries' = deliveries + 1
  /\ last' = t
  /\ ordered' = (ordered /\ last <= t)
  /\ settled' = settled \ {t}
  /\ UNCHANGED <<tables, clean, stored>>

\* A row in swaps, adjust_liquidity or user_lp_position_updated_events.
InsertRow ==
  /\ Running("insert")
  /\ rows' = [rows EXCEPT ![Event] = @ + 1]
  /\ StepDone /\ Succeeded
  /\ UNCHANGED <<bySig, latest, pools, announced, deliveries, last, ordered, clean, settled>>

\* Faulty variant: ON CONFLICT DO NOTHING.
KeepBySignature ==
  /\ Running("signature")
  /\ bySig' = [bySig EXCEPT ![Table][at.tx] = IF @ = 0 THEN at.event ELSE @]
  /\ StepDone /\ Succeeded
  /\ UNCHANGED <<rows, latest, pools, announced, deliveries, last, ordered, clean, settled>>

\* The row of this transaction, whatever event wrote it before.
UpsertBySignature ==
  /\ Running("signature")
  /\ bySig' = [bySig EXCEPT ![Table][at.tx] = at.event]
  /\ StepDone /\ Succeeded
  /\ UNCHANGED <<rows, latest, pools, announced, deliveries, last, ordered, clean, settled>>

\* Faulty variant: ON CONFLICT DO NOTHING.
KeepLatest ==
  /\ Running("latest")
  /\ latest' = [latest EXCEPT ![Table][KeyOf(Event)] = IF @ = None THEN Event ELSE @]
  /\ StepDone /\ Succeeded
  /\ UNCHANGED <<rows, bySig, pools, announced, deliveries, last, ordered, clean, settled>>

\* ON CONFLICT (pair, signer) DO UPDATE, without a look at the slot.
UpsertLatest ==
  /\ Running("latest")
  /\ latest' = [latest EXCEPT ![Table][KeyOf(Event)] = Event]
  /\ StepDone /\ Succeeded
  /\ UNCHANGED <<rows, bySig, pools, announced, deliveries, last, ordered, clean, settled>>

UpsertPool ==
  /\ Running("pool")
  /\ pools' = pools \cup {KeyOf(Event)}
  /\ StepDone /\ Succeeded
  /\ UNCHANGED <<rows, bySig, latest, announced, deliveries, last, ordered, clean, settled>>

\* The webhook's failure is logged and otherwise ignored.
PostWebhook ==
  /\ Running("webhook")
  /\ announced' \in {announced, announced \cup {KeyOf(Event)}}
  /\ StepDone
  /\ UNCHANGED <<rows, bySig, latest, pools, history>>

\* process returned Ok: the walk goes on with the next instruction.
NextEvent ==
  /\ InEvent
  /\ at.step > Len(Program(Event))
  /\ at' = [at EXCEPT !.event = @ + 1, !.step = 1]
  /\ UNCHANGED <<tables, history>>

\* Every instruction of the transaction was processed.
Complete ==
  /\ at.tx # 0
  /\ at.event > Len(Chain[at.tx])
  /\ at' = Idle
  /\ settled' = settled \cup {at.tx}
  /\ UNCHANGED <<tables, deliveries, last, ordered, clean, stored>>

\* The delivery ends before the transaction does.
CutShort ==
  /\ at' = Idle
  /\ clean' = FALSE
  /\ UNCHANGED <<tables, deliveries, last, ordered, stored, settled>>

\* Faulty variant: an error skips the event and no more.
FailureSkipsEvent ==
  /\ \E op \in {"insert", "signature", "latest", "pool"} : Running(op)
  /\ at' = [at EXCEPT !.event = @ + 1, !.step = 1]
  /\ clean' = FALSE
  /\ UNCHANGED <<tables, deliveries, last, ordered, stored, settled>>

\* A database statement returns an error, which reaches Pipeline::run.
StatementFails ==
  /\ \E op \in {"insert", "signature", "latest", "pool"} : Running(op)
  /\ CutShort

\* The run is dropped while the delivery is at work.
Dropped == at.tx # 0 /\ CutShort

Next ==
  \/ \E t \in Txs : Deliver(t)
  \/ InsertRow \/ UpsertBySignature \/ UpsertLatest \/ UpsertPool \/ PostWebhook
  \/ NextEvent \/ Complete
  \/ StatementFails \/ Dropped

Spec == Init /\ [][Next]_vars

-----------------------------------------------------------------------------
(* Properties.                                                             *)

Writes(e) == {s \in DOMAIN Program(e) : Program(e)[s].op # "webhook"}

\* The database statements of transaction t before (i, s) have succeeded.
WalkedTo(t, i, s) ==
  \A j \in 1..i : \A r \in Writes(<<t, j>>) : (j < i \/ r < s) => <<t, j, r>> \in stored

\* A position shown as the latest has an event of its transaction behind it.
PositionsHaveEvents ==
  \A k \in Keys :
    LET borrow == latest["user_borrow_positions"][k]
        lp     == latest["user_liquidity_positions"][k]
    IN /\ borrow # None => bySig["user_position_updated_events"][borrow[1]] # 0
       /\ lp # None => rows[lp] > 0

\* What the database holds of a transaction is what a prefix of its statements
\* wrote, however often it was delivered and cut short: no error leaves a hole.
\* So nothing refers to a row that is missing: a position has its event, and
\* whoever the webhook tells of a pool finds the pool.
PrefixPersisted ==
  /\ TypeOK
  /\ \A x \in stored : WalkedTo(x[1], x[2], x[3])
  /\ PositionsHaveEvents
  /\ announced \subseteq pools

\* What statement (i, s) of transaction t wrote is in its table: a row of the
\* event, the row of the transaction (of this event or a later one of the kind),
\* a position for the key, the pool.
Present(t, i, s) ==
  LET st == Program(<<t, i>>)[s] IN
    /\ st.op = "insert" => rows[<<t, i>>] > 0
    /\ st.op = "signature" =>
         LET holder == Program(<<t, bySig[st.table][t]>>)
         IN bySig[st.table][t] >= i /\ \E r \in DOMAIN holder : holder[r] = st
    /\ st.op = "latest" => latest[st.table][KeyOf(<<t, i>>)] # None
    /\ st.op = "pool" => KeyOf(<<t, i>>) \in pools

\* A transaction whose last delivery came to its end is all there: a row for
\* every event of the growing tables, the last event of each kind in the tables
\* keyed by signature, a position for every key it touched, its pools.
SettledIsComplete ==
  \A t \in settled : \A i \in DOMAIN Chain[t] : \A s \in Writes(<<t, i>>) : Present(t, i, s)

Newer(d, e) == d[1] < e[1] \/ (d[1] = e[1] /\ d[2] < e[2])
EventsOf(b, k) ==
  {e \in Events : /\ KeyOf(e) = k
                  /\ \E s \in DOMAIN Program(e) : Program(e)[s] = Latest(b)
                  /\ <<e[1], e[2], 1>> \in stored}

\* As long as transactions are delivered in the order of the chain (repeated or
\* lost ones included) and none is cut short, the latest position of a key is
\* that of the newest event stored for it.
LatestIsNewest ==
  clean /\ ordered /\ at = Idle =>
    \A b \in LatestTables, k \in Keys :
      /\ \A e \in EventsOf(b, k) : ~Newer(latest[b][k], e)
      /\ EventsOf(b, k) # {} => latest[b][k] \in EventsOf(b, k)

\* What upsert_swap_event says of itself ("handles duplicate tx_sig"): a swap
\* that is delivered twice is one row.
OneRowPerSwap ==
  \A e \in Events : Chain[e[1]][e[2]].kind = "swap" => rows[e] <= 1
=============================================================================
