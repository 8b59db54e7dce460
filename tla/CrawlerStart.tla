----------------------------- MODULE CrawlerStart -----------------------------
(***************************************************************************)
(* Where a crawl starts: create_transaction_crawler_datasource turns the   *)
(* configured start block into the signature below which the crawler does  *)
(* not go (filters.until_signature), before the pipeline is built.         *)
(*                                                                         *)
(* A block's number is taken for its slot, if the node has the block.      *)
(* find_signature_at_slot then reads the history page by page, newest      *)
(* first, for the first signature in this slot or an earlier one; the      *)
(* chain goes on confirming meanwhile.  Every failure, and a search that   *)
(* takes too many pages, gives None, with which the crawler reads the      *)
(* whole history.                                                          *)
(***************************************************************************)
EXTENDS TransactionCrawler

CONSTANTS
  SlotOf,      \* the slot of each signature
  Args, Envs,  \* start_block as argument and in the environment: <<>> or <<block>>
  PageLimit,   \* limit of the search's requests
  MaxPages     \* MAX_ATTEMPTS

ASSUME SlotAssumption ==
  /\ SlotOf \in [Sigs -> Nat \ {0}]
  /\ \A r, s \in Sigs : r <= s => SlotOf[r] <= SlotOf[s]
ASSUME StartAssumption ==
  \A o \in Args \union Envs : o = <<>> \/ (Len(o) = 1 /\ o[1] \in Nat)
ASSUME SearchAssumption == PageLimit \in Nat \ {0} /\ MaxPages \in Nat

VARIABLES
  start,     \* Config.start_block, then the slot searched for
  stage,     \* "block", "search", "ready"
  from,      \* before_signature of the search
  attempts,  \* requests of the search
  origin,    \* its result: until_signature, or 0 for None
  newest     \* history: the newest signature when the search began

startVars == <<start, stage, from, attempts, origin, newest>>
allVars   == <<vars, startVars>>

\* An argument goes before the environment; without either, or with something
\* there that is no number, the start block is 0.
StartBlock(arg, env) ==
  IF arg # <<>> THEN arg[1] ELSE IF env # <<>> THEN env[1] ELSE 0

StartInit ==
  /\ Init
  /\ \E arg \in Args, env \in Envs : start = StartBlock(arg, env)
  /\ stage = IF start = 0 THEN "ready" ELSE "block"
  /\ from = 0 /\ attempts = 0 /\ origin = 0 /\ newest = 0

-----------------------------------------------------------------------------
\* get_slot_for_block: the node has the block, or no answer comes.
BlockFound ==
  /\ stage = "block" /\ stage' = "search"
  /\ UNCHANGED <<vars, start, from, attempts, origin, newest>>
BlockMissing ==
  /\ stage = "block" /\ stage' = "ready"
  /\ UNCHANGED <<vars, start, from, attempts, origin, newest>>

\* The page the search asks for, and what it looks for in it.
SearchTop  == IF from = 0 THEN tip ELSE from - 1
SearchPage == {s \in Sigs : s <= SearchTop /\ SearchTop < s + PageLimit}
AtOrBefore == {s \in SearchPage : SlotOf[s] <= start}

\* A page is answered; the first one shows where the history ends now.
Answered ==
  /\ stage = "search" /\ attempts < MaxPages
  /\ newest' = IF from = 0 THEN tip ELSE newest

\* The first match from the newest on is the result.
FindSignature ==
  /\ Answered
  /\ origin' \in AtOrBefore /\ \A s \in AtOrBefore : s <= origin'
  /\ stage' = "ready" /\ from' = 0 /\ attempts' = 0
  /\ UNCHANGED <<vars, start>>

\* Faulty variant: the first signature below the page is passed over.
NextPageSkips ==
  /\ Answered
  /\ SearchPage # {} /\ AtOrBefore = {}
  /\ from' \in {s - 1 : s \in SearchPage} /\ \A s \in SearchPage : from' < s
  /\ attempts' = attempts + 1
  /\ UNCHANGED <<vars, start, stage, origin>>

\* No match in the page: go on below it.
NextPage ==
  /\ Answered
  /\ SearchPage # {} /\ AtOrBefore = {}
  /\ from' \in SearchPage /\ \A s \in SearchPage : from' <= s
  /\ attempts' = attempts + 1
  /\ UNCHANGED <<vars, start, stage, origin>>

\* The request fails, the history is at its end or the pages are used up: None.
SearchEnds ==
  /\ stage = "search" /\ stage' = "ready"
  /\ from' = 0 /\ attempts' = 0 /\ newest' = 0
  /\ UNCHANGED <<vars, start, origin>>

\* The datasource is built with the result, and the pipeline calls consume.
Launch ==
  /\ stage = "ready"
  /\ \E b \in StartBefore : Consume(origin, b)
  /\ UNCHANGED startVars

Search == BlockFound \/ BlockMissing \/ FindSignature \/ NextPage \/ SearchEnds

StartNext ==
  \/ Search
  \/ Launch
  \/ (ListerStep \/ FetcherStep \/ WorkerStep \/ Environment) /\ UNCHANGED startVars

StartSpec == StartInit /\ [][StartNext]_allVars

\* The search's requests come back, one way or the other, and the crawler runs
\* as TransactionCrawler says.
FairStartSpec == StartSpec /\ WF_allVars(Search) /\ WF_allVars(Launch) /\ Fairness

-----------------------------------------------------------------------------
(* Properties *)

StartOK ==
  /\ start \in Nat /\ stage \in {"block", "search", "ready"}
  /\ from \in 0..MaxSig /\ attempts \in 0..MaxPages
  /\ origin \in 0..MaxSig /\ newest \in 0..MaxSig

\* A crawl that starts at a signature starts within the start block, although the
\* history grows while the signature is searched page by page: it leaves out
\* nothing confirmed in a later slot, and crawls nothing of an earlier one that the
\* search could have seen.  What becomes of the start slot's own transactions is
\* left open.
StartsWithinBlock ==
  lister # "new" /\ floor # 0 =>
    /\ \A s \in Sigs : SlotOf[s] > start => s > floor
    /\ \A s \in Sigs : floor < s /\ s <= newest => SlotOf[s] >= start
=============================================================================
