---------------------------- MODULE VolumeBackfill ----------------------------
(***************************************************************************)
(* The stream with a third writer of volumes: backfillVolume.ts, run once  *)
(* by hand beside everything else.  It counts the rows without a volume,   *)
(* then reads batches of them and updates row by row, `WHERE tx_sig =`     *)
(* like the enricher, until it has processed as many as it counted.  A row *)
(* may have got its volume between the batch and its turn.                 *)
(*                                                                         *)
(* A batch is the newest rows first; the order of inserts is not part of   *)
(* the state, so a batch is any rows without a volume.                     *)
(*                                                                         *)
(* Two bounds keep the state space small: at most MaxScripted swaps are in *)
(* the table of a behaviour in which the script runs, and in it the server *)
(* keeps one listener session from the first swap on.                      *)
(***************************************************************************)
EXTENDS SwapStream

CONSTANTS
  Unknowns,    \* the sets of swaps whose pairs may be missing from pools
  Batch,       \* BACKFILL_BATCH_SIZE
  Limits,      \* the values of --limit (0: not given)
  MaxScripted  \* swaps in the table if the script runs at all (bound)

ASSUME UnknownsAssumption == Unknowns \subseteq SUBSET Swaps
ASSUME BatchAssumption == Batch \in Nat \ {0}
ASSUME LimitsAssumption == Limits \subseteq Nat

VARIABLES
  unknown,     \* swaps the script finds no pool for
  script,      \* "off", "fetching", "batch", "done", "failed"
  toProcess,
  processed,
  rows,        \* the rows of the batch still to process
  counted,     \* history: the rows that had no volume at the count
  late         \* history: a swap was inserted while the script ran

scriptVars == <<unknown, script, toProcess, processed, rows, counted, late>>
allVars    == <<vars, scriptVars>>

Null == {s \in Swaps : volume[s] = "null"}

BackfillInit ==
  /\ Init
  /\ unknown = {}
  /\ script = "off"
  /\ toProcess = 0
  /\ processed = 0
  /\ rows = {}
  /\ counted = {}
  /\ late = FALSE

-----------------------------------------------------------------------------

\* SELECT COUNT(*): nothing to do, or as many as the limit allows.
CountRows ==
  /\ script = "off"
  /\ Cardinality(Inserted) <= MaxScripted
  /\ link = "up" /\ ~missed /\ ~restarted
  /\ unknown' \in Unknowns
  /\ counted' = Null
  /\ \E limit \in Limits :
       toProcess' = IF limit # 0 /\ limit < Cardinality(Null) THEN limit ELSE Cardinality(Null)
  /\ script' = IF Null = {} THEN "done" ELSE "fetching"
  /\ UNCHANGED <<vars, processed, rows, late>>

Batches(size) == {batch \in SUBSET Null : Cardinality(batch) = size}
Least(a, b)   == IF a < b THEN a ELSE b

\* Faulty variant: pages through the rows with OFFSET processed.
FetchWithOffset ==
  /\ script = "fetching"
  /\ IF processed >= toProcess \/ Cardinality(Null) <= processed
     THEN script' = "done" /\ UNCHANGED rows
     ELSE script' = "batch" /\ rows' \in Batches(Least(Batch, Cardinality(Null) - processed))
  /\ UNCHANGED <<vars, unknown, toProcess, processed, counted, late>>

\* The next batch; none is left, or enough have been processed: done.
Fetch ==
  /\ script = "fetching"
  /\ IF processed >= toProcess \/ Null = {}
     THEN script' = "done" /\ UNCHANGED rows
     ELSE script' = "batch" /\ rows' \in Batches(Least(Batch, Cardinality(Null)))
  /\ UNCHANGED <<vars, unknown, toProcess, processed, counted, late>>

AfterRow(s) ==
  /\ rows' = rows \ {s}
  /\ script' = IF rows = {s} THEN "fetching" ELSE "batch"

\* Faulty variant: a row that is skipped is not counted.
SkipUncounted(s) ==
  /\ script = "batch" /\ s \in rows
  /\ s \in unknown
  /\ AfterRow(s)
  /\ UNCHANGED <<vars, unknown, toProcess, processed, counted, late>>

\* No pool: counted as processed, and the row keeps its NULL.
Skip(s) ==
  /\ script = "batch" /\ s \in rows
  /\ s \in unknown
  /\ AfterRow(s)
  /\ processed' = processed + 1
  /\ UNCHANGED <<vars, unknown, toProcess, counted, late>>

\* UPDATE swaps SET volume_usd = ... WHERE tx_sig = ...
Fill(s) ==
  /\ script = "batch" /\ s \in rows
  /\ s \notin unknown
  /\ AfterRow(s)
  /\ processed' = processed + 1
  /\ LET touched == {r \in Siblings(s) : volume[r] # "absent"} IN
       \E v \in ComputedVolumes(s) : \E ns \in UpdateNotices(touched, v) :
         /\ volume' = [r \in Swaps |-> IF r \in touched THEN v ELSE volume[r]]
         /\ Notify(ns)
  /\ UNCHANGED <<jobs, link, buffer, emitted, restarted, unknown, toProcess, counted, late>>

\* A query fails, or the script is stopped: main().catch, exit(1).
ScriptFails ==
  /\ script \in {"fetching", "batch"}
  /\ script' = "failed"
  /\ unknown' = {} /\ toProcess' = 0 /\ processed' = 0 /\ rows' = {}
  /\ counted' = {} /\ late' = FALSE
  /\ UNCHANGED vars

Script == CountRows \/ Fetch \/ \E s \in Swaps : Skip(s) \/ Fill(s)

\* Everything else goes on.
Inserting == \E s \in Swaps : volume[s] = "absent" /\ volume'[s] # "absent"
Stream ==
  /\ Next
  /\ script # "off" => link' = "up" /\ ~missed'
  /\ script # "off" /\ Inserting => Cardinality(Inserted) < MaxScripted
  /\ late' = (late \/ (script \in {"fetching", "batch"} /\ Inserting))
  /\ UNCHANGED <<unknown, script, toProcess, processed, rows, counted>>

BackfillNext == Stream \/ Script \/ ScriptFails

(***************************************************************************)
(* Fairness: as before, and the script goes on once it has started (each   *)
(* of its awaits has a time limit or fails).                               *)
(***************************************************************************)
BackfillSpec ==
  /\ BackfillInit /\ [][BackfillNext]_allVars
  /\ WF_allVars(Tick /\ UNCHANGED scriptVars)
  /\ WF_allVars(script # "off" /\ Script)

-----------------------------------------------------------------------------
(* Properties.                                                             *)

\* The script ends, whatever else is written meanwhile and however many rows of
\* unknown pairs it is given again and again.
BackfillEnds == (script # "off") ~> (script \in {"done", "failed"})

\* If no swap comes in while it runs, and no pair is unknown, a script without
\* a limit that runs to its end leaves none of the rows it counted without a
\* volume, although rows leave the set it pages through for three reasons.
FillsWhatItCounts ==
  (/\ script = "done" /\ ~late
   /\ toProcess = Cardinality(counted)
   /\ Inserted \cap unknown = {})
  => counted \cap Null = {}
=============================================================================
