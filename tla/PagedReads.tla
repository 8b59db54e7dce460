------------------------------ MODULE PagedReads ------------------------------
(***************************************************************************)
(* Reading a listing of the REST API page by page while the indexer writes *)
(* the table behind it (DataController: getSwaps, getPools, getUserHistory,*)
(* getAllPositions, getAllLiquidityPositions, getUserLendingHistory).      *)
(*                                                                         *)
(* Every listing is answered by the same steps: the limit is clamped, the  *)
(* rows are counted, one page is selected with ORDER BY / LIMIT / OFFSET,  *)
(* each row is completed from the chain, or from what the row itself holds *)
(* when that fails, and the page is answered.  The two statements see      *)
(* different states of the table, and so do two pages.  A client goes on   *)
(* while `hasNext`.                                                        *)
(*                                                                         *)
(* Rows are numbered by id.  A listing sorts them by id, by the time of    *)
(* their last write, or by an amount; latest-state tables and tables keyed *)
(* by transaction are upserted, which gives a row a new time.              *)
(***************************************************************************)
EXTENDS Integers, FiniteSets

CONSTANTS
  Listings,      \* the listings read
  MaxRows,       \* rows the indexer inserts (bound)
  MaxWrites,     \* upserts of rows that exist (bound)
  Holdings,      \* sides (token 0, token 1) a position may hold collateral on
  Amounts,       \* values of a row's amount
  AskedLimits,   \* values of the `limit` parameter, 0 among them
  DefaultLimit,  \* 100 in the code
  MaxLimit       \* 1000 in the code

ASSUME BoundsAssumption == {MaxRows, MaxWrites} \subseteq Nat /\ Amounts \subseteq Int
ASSUME HoldingsAssumption == Holdings \subseteq SUBSET {0, 1} /\ Holdings # {}
ASSUME LimitAssumption ==
  AskedLimits \subseteq Nat /\ {DefaultLimit, MaxLimit} \subseteq Nat \ {0}

VARIABLES
  listing,   \* the listing this client reads
  rows,      \* number of rows; their ids are 1..rows
  key,       \* key[r]: what row r is sorted by
  holding,   \* holding[r]: the sides position r holds collateral on
  writes,    \* upserts so far, and the clock they are stamped with
  pc,        \* where the request is: "count", "select", "answer"; "done" after the last page
  limit,     \* page size of the walk
  offset,    \* offset of the page asked for
  total,     \* result of the COUNT statement
  page,      \* rows of the SELECT statement
  seen,      \* rows the client was given so far
  start,     \* history: rows there were when the walk began
  moved,     \* history: rows upserted since
  late       \* history: rows inserted between the last COUNT and its SELECT

tableVars == <<rows, key, holding, writes>>
readVars == <<listing, tableVars, pc, limit, offset, total, page, seen, start, moved, late>>

-----------------------------------------------------------------------------
(* The listings: their order, and whether a write may move a row in it. *)

Swaps == [by |-> "id", desc |-> TRUE, moves |-> FALSE, entries |-> "row"]
Pools == [by |-> "id", desc |-> FALSE, moves |-> FALSE, entries |-> "pool"]
UserHistory ==
  {[by |-> k, desc |-> d, moves |-> FALSE, entries |-> "row"] : k \in {"id", "time", "amount"}, d \in BOOLEAN}
\* Faulty variant: the oldest position first.
PositionsOldestFirst == [by |-> "time", desc |-> FALSE, moves |-> TRUE, entries |-> "position"]
Positions == [by |-> "time", desc |-> TRUE, moves |-> TRUE, entries |-> "position"]
LiquidityPositions == [by |-> "time", desc |-> TRUE, moves |-> TRUE, entries |-> "liquidity"]
LendingHistory == [by |-> "time", desc |-> TRUE, moves |-> TRUE, entries |-> "event"]

AllListings == {Swaps, Pools, Positions, LiquidityPositions, LendingHistory} \union UserHistory
ASSUME ListingsAssumption == Listings \subseteq AllListings

\* `parseInt(limit) || 100`, at most 1000.
ClampLimit(l) ==
  LET n == IF l = 0 THEN DefaultLimit ELSE l IN IF n > MaxLimit THEN MaxLimit ELSE n

-----------------------------------------------------------------------------
(* What a row of the page becomes in the answer.  `ok`: every read of the   *)
(* chain for it succeeded; the rows are completed independently.            *)

\* A pool whose state, APR, fees or volume cannot be had gets defaults for all.
PoolEntry(r, ok) == {[row |-> r, side |-> "pool", from |-> IF ok THEN "chain" ELSE "defaults"]}

\* A position becomes one entry per side it holds collateral on, whatever its
\* debt; a failed simulation leaves its figure empty, a failed read of the pair
\* leaves all of them empty.
PositionEntries(r, ok) ==
  {[row |-> r, side |-> c, from |-> IF ok THEN "chain" ELSE "row"] : c \in holding[r]}

\* A liquidity position takes its token addresses from the pair or the row.
LiquidityEntry(r, ok) == {[row |-> r, side |-> "lp", from |-> IF ok THEN "chain" ELSE "row"]}

\* A lending event keeps the fields of its type.
LendingEntry(r) == {[row |-> r, side |-> "event", from |-> "row"]}

Entries(r, ok) ==
  CASE listing.entries = "pool"      -> PoolEntry(r, ok)
    [] listing.entries = "position"  -> PositionEntries(r, ok)
    [] listing.entries = "liquidity" -> LiquidityEntry(r, ok)
    [] listing.entries = "event"     -> LendingEntry(r)
    [] listing.entries = "row"       -> {[row |-> r, side |-> "row", from |-> "row"]}

-----------------------------------------------------------------------------
Rows == 1..rows

Before(q, r) == IF listing.desc THEN key[q] > key[r] ELSE key[q] < key[r]

\* The orders the database may return the rows in: rows with equal keys come
\* in any order, and in another one for the next statement.
Orders ==
  {pos \in [Rows -> 0..(rows - 1)] :
     \A q, r \in Rows : q # r => pos[q] # pos[r] /\ (Before(q, r) => pos[q] < pos[r])}

\* A written row is stamped with the time of the write (a microsecond clock).
Now == rows + writes

NewKeys(r) ==
  CASE listing.by = "id" -> {r}
    [] listing.by = "time" -> {Now + 1}
    [] listing.by = "amount" -> Amounts

NewHoldings == IF listing.entries = "position" THEN Holdings ELSE {{}}

ReadInit ==
  /\ listing \in Listings
  /\ rows \in 0..MaxRows /\ writes = 0
  /\ key \in [1..rows -> IF listing.by = "amount" THEN Amounts ELSE 1..rows]
  /\ listing.by # "amount" => \A r \in 1..rows : key[r] = r
  /\ holding \in [1..rows -> NewHoldings]
  /\ limit \in {ClampLimit(l) : l \in AskedLimits}
  /\ pc = "count" /\ offset = 0 /\ total = 0 /\ page = {} /\ seen = {}
  /\ start = 1..rows /\ moved = {} /\ late = 0

(* The indexer. *)

Insert ==
  /\ rows < MaxRows
  /\ rows' = rows + 1
  /\ \E k \in NewKeys(rows + 1) : key' = [r \in 1..(rows + 1) |-> IF r = rows + 1 THEN k ELSE key[r]]
  /\ \E h \in NewHoldings : holding' = [r \in 1..(rows + 1) |-> IF r = rows + 1 THEN h ELSE holding[r]]
  /\ late' = IF pc = "select" THEN late + 1 ELSE late
  /\ UNCHANGED <<listing, writes, pc, limit, offset, total, page, seen, start, moved>>

Upsert(r) ==
  /\ listing.moves /\ writes < MaxWrites
  /\ writes' = writes + 1
  /\ key' = [key EXCEPT ![r] = Now + 1]
  /\ \E h \in NewHoldings : holding' = [holding EXCEPT ![r] = h]
  /\ moved' = moved \union {r}
  /\ UNCHANGED <<listing, rows, pc, limit, offset, total, page, seen, start, late>>

(* The handler. *)

Count ==
  /\ pc = "count"
  /\ total' = rows
  /\ pc' = "select" /\ late' = 0
  /\ UNCHANGED <<listing, tableVars, limit, offset, page, seen, start, moved>>

Select ==
  /\ pc = "select"
  /\ \E pos \in Orders :
       page' = {r \in Rows : offset <= pos[r] /\ pos[r] < offset + limit}
  /\ pc' = "answer"
  /\ UNCHANGED <<listing, tableVars, limit, offset, total, seen, start, moved, late>>

\* Either statement, or setting up the chain client, fails: 500, asked again.
ReadFails ==
  /\ pc \in {"select", "answer"}
  /\ pc' = "count" /\ page' = {}
  /\ UNCHANGED <<listing, tableVars, limit, offset, total, seen, start, moved, late>>

\* Faulty variant: the last page is the one before.
HasNextTooStrict == offset + 2 * limit <= total
HasNext == offset + limit < total

\* The page with its rows completed, and whether to go on.
Answer ==
  /\ pc = "answer"
  /\ \E ok \in [page -> BOOLEAN] :
       seen' = seen \union {e.row : e \in UNION {Entries(r, ok[r]) : r \in page}}
  /\ page' = {}
  /\ offset' = offset + limit
  /\ pc' = IF HasNext THEN "count" ELSE "done"
  /\ UNCHANGED <<listing, tableVars, limit, total, start, moved, late>>

ReadNext ==
  \/ Insert \/ \E r \in Rows : Upsert(r)
  \/ Count \/ Select \/ ReadFails \/ Answer

ReadSpec == ReadInit /\ [][ReadNext]_readVars


-----------------------------------------------------------------------------
(* Properties *)

ReadTypeOK ==
  /\ listing \in Listings /\ rows \in 0..MaxRows /\ writes \in 0..MaxWrites
  /\ key \in [Rows -> Int] /\ holding \in [Rows -> SUBSET {0, 1}]
  /\ pc \in {"count", "select", "answer", "done"}
  /\ limit \in Nat \ {0} /\ offset \in Nat /\ total \in 0..MaxRows
  /\ page \subseteq Rows /\ seen \subseteq Rows /\ start \subseteq Rows /\ moved \subseteq Rows
  /\ late \in 0..MaxRows

\* A row that stays where it is: there when the walk began, not written since,
\* alone with its key, and with something to show.
Still ==
  {r \in start \ moved :
     /\ \A q \in Rows \ {r} : key[q] # key[r]
     /\ listing.entries = "position" => holding[r] # {}}

\* Rows that come and rows that move push the others back, never forward, and
\* no failed read of the chain hides a row: the walk never passes over a row
\* that stays.  (With the types of the state.)
NothingSlipsPast ==
  /\ ReadTypeOK
  /\ \A r \in Still \ seen :
       r \in page \/ Cardinality({q \in Rows : Before(q, r)}) >= offset

\* When hasNext ends the walk, the client has every row that stayed, or misses
\* at most as many as were inserted between the last COUNT and its SELECT.
MissedAreLate ==
  pc = "done" => Cardinality(Still \ seen) <= late
=============================================================================
