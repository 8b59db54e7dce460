----------------------------- MODULE EmaBackfill -----------------------------
(***************************************************************************)
(* The stream, and the backfill of volumes, with a writer that does not    *)
(* touch volumes: fillEmaPrices.ts, run by hand beside everything else.    *)
(* It lists the pairs, takes them in groups, selects the rows of each pair *)
(* of a group, and writes ema_price by id, a batch to a transaction.  Its  *)
(* updates fire the notify trigger like any other, with the volume the row *)
(* has, which may be none yet.                                             *)
(*                                                                         *)
(* A transaction keeps the rows it has updated locked until its commit, so *)
(* it is one step.  The prices themselves are left out: a row has one or   *)
(* not.  No row is deleted, so a listed pair has rows.                     *)
(*                                                                         *)
(* Two bounds keep the state space small: MaxScripted swaps, and Alone.    *)
(***************************************************************************)
EXTENDS VolumeBackfill

CONSTANTS
  PairOf,     \* PairOf[s]: the pair of row s
  PairBatch,  \* PAIR_BATCH_SIZE: pairs worked on at once
  RowBatch,   \* BATCH_SIZE: rows to a transaction
  Alone       \* the script runs with one listener session and without the other
              \* script (bound)

ASSUME PairOfAssumption == DOMAIN PairOf = Swaps
ASSUME AloneAssumption == Alone \in BOOLEAN
ASSUME SizesAssumption == {PairBatch, RowBatch} \subseteq Nat \ {0}

VARIABLES
  ema,      \* the script: "off", "running", "done", "failed"
  at,       \* at[p]: "none", "left", "reading", "writing", "written", "failed"
  chosen,   \* rows in the script's memory, not written yet
  priced,   \* rows that have an ema_price
  selected  \* history: rows the script has read

emaVars  == <<ema, at, chosen, priced, selected>>
fourVars == <<allVars, emaVars>>

Pairs      == {PairOf[s] : s \in Swaps}
RowsOf(p)  == {s \in Inserted : PairOf[s] = p}
Chosen(p)  == {s \in chosen : PairOf[s] = p}
At(places) == {p \in Pairs : at[p] \in places}

EmaTypeOK ==
  /\ ema \in {"off", "running", "done", "failed"}
  /\ at \in [Pairs -> {"none", "left", "reading", "writing", "written", "failed"}]
  /\ chosen \subseteq Swaps /\ priced \subseteq Swaps /\ selected \subseteq Swaps

EmaInit ==
  /\ BackfillInit
  /\ ema = "off"
  /\ at = [p \in Pairs |-> "none"]
  /\ chosen = {}
  /\ priced = {}
  /\ selected = {}

-----------------------------------------------------------------------------

\* SELECT DISTINCT pair.
ListPairs ==
  /\ ema = "off"
  /\ ema' = "running"
  /\ at' = [p \in Pairs |-> IF RowsOf(p) # {} THEN "left" ELSE "none"]
  /\ UNCHANGED <<allVars, chosen, priced, selected>>

\* The parts a list is cut into: size elements, the last part what is left.
Parts(set, size) ==
  {part \in SUBSET set : Cardinality(part) = IF Cardinality(set) < size THEN Cardinality(set) ELSE size}

\* The next group, when all of the last one has settled (Promise.all).
StartGroup ==
  /\ ema = "running" /\ At({"reading", "writing"}) = {} /\ At({"left"}) # {}
  /\ \E group \in Parts(At({"left"}), PairBatch) :
       at' = [p \in Pairs |-> IF p \in group THEN "reading" ELSE at[p]]
  /\ UNCHANGED <<allVars, ema, chosen, priced, selected>>

\* getSwapsForPair
SelectRows(p) ==
  /\ at[p] = "reading"
  /\ at' = [at EXCEPT ![p] = "writing"]
  /\ chosen' = chosen \cup RowsOf(p)
  /\ selected' = selected \cup RowsOf(p)
  /\ UNCHANGED <<allVars, ema, priced>>

\* What the trigger says of rows whose volume was not touched, in some order.
PriceNotices(batch) ==
  {ns \in [1..Cardinality(batch) ->
             {[op |-> "UPDATE", row |-> r, volume |-> volume[r]] : r \in batch}] :
     \A r \in batch : \E i \in DOMAIN ns : ns[i].row = r}

\* Faulty variant: the rows after the first batch are forgotten.
WriteBatchOnce(p) ==
  /\ at[p] = "writing"
  /\ \E batch \in Parts(Chosen(p), RowBatch) :
       /\ priced' = priced \cup batch
       /\ \E ns \in PriceNotices(batch) : Notify(ns)
  /\ chosen' = chosen \ Chosen(p)
  /\ at' = [at EXCEPT ![p] = "written"]
  /\ UNCHANGED <<volume, jobs, link, buffer, emitted, restarted, scriptVars, ema, selected>>

\* updateEmaBatch: BEGIN, UPDATE swaps SET ema_price = ... WHERE id = ... for
\* each row of the batch, COMMIT.
WriteBatch(p) ==
  /\ at[p] = "writing"
  /\ \E batch \in Parts(Chosen(p), RowBatch) :
       /\ priced' = priced \cup batch
       /\ \E ns \in PriceNotices(batch) : Notify(ns)
       /\ chosen' = chosen \ batch
       /\ at' = [at EXCEPT ![p] = IF Chosen(p) = batch THEN "written" ELSE "writing"]
  /\ UNCHANGED <<volume, jobs, link, buffer, emitted, restarted, scriptVars, ema, selected>>

\* A query fails: ROLLBACK, and the pair's remaining rows are given up.  The
\* others of the group go on.
PairFails(p) ==
  /\ at[p] \in {"reading", "writing"}
  /\ at' = [at EXCEPT ![p] = "failed"]
  /\ chosen' = chosen \ Chosen(p)
  /\ UNCHANGED <<allVars, ema, priced, selected>>

AllTried ==
  /\ ema = "running" /\ At({"left", "reading", "writing"}) = {}
  /\ ema' = "done"
  /\ UNCHANGED <<allVars, at, chosen, priced, selected>>

\* The pairs cannot be listed, or the script is stopped.
EmaFails ==
  /\ ema \in {"off", "running"}
  /\ ema' = "failed"
  /\ at' = [p \in Pairs |-> "none"]
  /\ chosen' = {} /\ selected' = {}
  /\ UNCHANGED <<allVars, priced>>

Ema ==
  \/ ListPairs \/ StartGroup \/ AllTried \/ EmaFails
  \/ \E p \in Pairs : SelectRows(p) \/ WriteBatch(p) \/ PairFails(p)

Bounded ==
  /\ Cardinality(Inserted) <= MaxScripted
  /\ Alone => script = "off" /\ link = "up" /\ ~missed /\ ~restarted

EmaNext ==
  /\ \/ BackfillNext /\ UNCHANGED emaVars
     \/ Ema
  /\ ema' # "off" => Bounded'

\* Fairness: as without this script, which nobody waits for.
EmaSpec ==
  /\ EmaInit /\ [][EmaNext]_fourVars
  /\ WF_fourVars(Tick /\ UNCHANGED <<scriptVars, emaVars>>)
  /\ WF_fourVars(script # "off" /\ Script /\ UNCHANGED emaVars)

-----------------------------------------------------------------------------
(* Properties.                                                             *)

VolumesStayTold ==
  \A s \in Swaps : \A i, j \in 1..Len(emitted[s]) :
    i < j /\ emitted[s][i] # "null" => emitted[s][j] # "null"

\* Once a client has seen a swap with a volume it never sees it without one,
\* although this script's updates, which may come between the insert and the
\* enrichment or after both, are broadcast with whatever volume the row has.  As
\* long as it has written nothing, the plain row comes once at most.
NeverBackToPlain ==
  /\ TypeOK
  /\ VolumesStayTold
  /\ priced = {} => PlainComesFirst

\* A pair the script reports as processed has a price in every row read for it,
\* and the clients were told of each, the ones that share a tx_sig included,
\* once the listener has worked off its queue and has missed nothing.
PricedAndTold ==
  /\ EmaTypeOK
  /\ \A s \in selected : at[PairOf[s]] = "written" => s \in priced
  /\ ~missed /\ toGrpc = <<>> => \A s \in priced : emitted[s] # <<>>

\* What either script reports as done is done, whoever else writes the rows.
ReportsAreTrue == FillsWhatItCounts /\ PricedAndTold
=============================================================================
