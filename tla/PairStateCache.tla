---------------------------- MODULE PairStateCache ----------------------------
(***************************************************************************)
(* How the API answers for the state of one pair (fetchCachedPairState,    *)
(* PairStateService.fetchPairState, simulatePairGetter, SimpleCache).      *)
(*                                                                         *)
(* A request looks into the cache of pair states; on a miss it reads the   *)
(* pair account, then the metadata of its tokens, then calls one simulated *)
(* getter per figure.  A getter is answered from a cache of its own, by a  *)
(* simulation another request has in flight, or by a new one.  When all    *)
(* have answered, or one has failed and the spot prices stand in, the pair *)
(* state is cached and the request answered.  Nothing stops two requests   *)
(* from computing the same pair state at once.                             *)
(*                                                                         *)
(* Node runs one callback at a time, so what happens between two awaits is *)
(* one action.  Time is kept as ages: a tick makes everything one older,   *)
(* up to Old.  A value's age counts from when the chain was read for it.   *)
(***************************************************************************)
EXTENDS Integers, FiniteSets, FiniteSetsExt

CONSTANTS
  Requests,   \* handlers that may run at the same time
  Getters,    \* the getters of a pair state
  SimTtl,     \* SIMULATE_CACHE_DURATION
  PairTtl,    \* lifetime of a cached pair state
  MaxWait     \* an RPC answers or fails within this time (assumed)

ASSUME TtlAssumption == {SimTtl, PairTtl, MaxWait} \subseteq Nat \ {0}

VARIABLES
  handler,    \* handler[h]: [pc, age of its wait, ages of the account and of
              \*   the oldest figure it has, runs it awaits]
  run,        \* simulations in flight: <<getter, starter>> -> [age, data]
  inFlight,   \* inFlightRequests: getter -> the starter of its simulation
  simCache,   \* simulateCache: getter -> [age, data]
  pairCache,  \* the entry of the pair in SimpleCache: [age, oldest], or none
  thrown      \* history: getters whose closure threw before its first await

vars == <<handler, run, inFlight, simCache, pairCache, thrown>>

Unread == -1
NoPair == [age |-> -1, oldest |-> -1]
Idle   == [pc |-> "idle", age |-> 0, account |-> 0, oldest |-> 0, awaits |-> {}]

\* How old a value in an answer may be: the lifetimes of the two caches add up,
\* and so do the waits between them.
MaxAge == PairTtl + Max({3 * MaxWait, 2 * MaxWait + SimTtl - 1})
Old    == MaxAge + 1

Older(n) == IF n < 0 THEN n ELSE IF n < Old THEN n + 1 ELSE Old
Oldest(S) == Max(S \union {0})

Init ==
  /\ handler = [h \in Requests |-> Idle]
  /\ run = [r \in {} |-> 0] /\ inFlight = [g \in {} |-> 0] /\ simCache = [g \in {} |-> 0]
  /\ pairCache = NoPair /\ thrown = {}

-----------------------------------------------------------------------------
(* SimpleCache *)

PairIsFresh == pairCache # NoPair /\ pairCache.age <= PairTtl

\* The cleanup of every five minutes.
Cleanup ==
  /\ pairCache # NoPair /\ ~PairIsFresh
  /\ pairCache' = NoPair
  /\ UNCHANGED <<handler, run, inFlight, simCache, thrown>>

(* fetchPairState, up to the simulations *)

\* A miss: an expired entry is deleted and the pair account asked for.
Ask(h) ==
  /\ handler[h].pc = "idle" /\ ~PairIsFresh
  /\ pairCache' = NoPair
  /\ handler' = [handler EXCEPT ![h] = [Idle EXCEPT !.pc = "pair"]]
  /\ UNCHANGED <<run, inFlight, simCache, thrown>>

\* The chain is read for the account, and the answer comes back.
PairRead(h) ==
  /\ handler[h].pc = "pair"
  /\ \E lag \in 0..handler[h].age :
       handler' = [handler EXCEPT ![h] = [Idle EXCEPT !.pc = "meta", !.account = lag]]
  /\ UNCHANGED <<run, inFlight, simCache, pairCache, thrown>>

\* The read fails: the request is answered with defaults, which nobody caches.
PairFails(h) ==
  /\ handler[h].pc = "pair"
  /\ handler' = [handler EXCEPT ![h] = Idle]
  /\ UNCHANGED <<run, inFlight, simCache, pairCache, thrown>>

-----------------------------------------------------------------------------
(* simulatePairGetter *)

\* Faulty variant: an entry is never too old.
SimIsFreshAlways(g) == g \in DOMAIN simCache
SimIsFresh(g) == g \in DOMAIN simCache /\ simCache[g].age < SimTtl

\* Faulty variant: no look at the requests in flight.
IsInFlightNever(g) == FALSE
IsInFlight(g) == g \in DOMAIN inFlight

\* An entry that names no simulation in flight is a promise that was rejected.
Settled(g) == <<g, inFlight[g]>> \notin DOMAIN run

\* Metadata is there, or its fallbacks: all getters are called in one go.  The
\* closure of a getter runs up to its first await before its entry is set; if it
\* throws there (Promise.all rejects at once), `finally` comes before the entry,
\* which then stays.
CallGetters(h) ==
  \E broken \in SUBSET Getters :
    LET cached  == {g \in Getters : SimIsFresh(g)}
        joined  == {g \in Getters \ cached : IsInFlight(g)}
        started == Getters \ (cached \union joined)
        starts  == (started \ broken) \X {h}
        awaits  == {<<g, inFlight[g]>> : g \in joined} \union starts
        oldest  == Oldest({simCache[g].data : g \in cached})
        rejects == broken # {} \/ \E g \in joined : Settled(g)
    IN
    /\ handler[h].pc = "meta"
    /\ broken \subseteq started
    /\ run' = [r \in DOMAIN run \union starts |->
                 IF r \in starts THEN [age |-> 0, data |-> Unread] ELSE run[r]]
    /\ inFlight' = [g \in DOMAIN inFlight \union started |->
                      IF g \in started THEN h ELSE inFlight[g]]
    /\ thrown' = thrown \union broken
    /\ IF rejects \/ awaits = {}
         THEN /\ handler' = [handler EXCEPT ![h] = Idle]
              /\ pairCache' = [age |-> 0, oldest |->
                   IF rejects THEN handler[h].account ELSE Oldest({handler[h].account, oldest})]
         ELSE /\ handler' = [handler EXCEPT ![h] =
                   [@ EXCEPT !.pc = "sims", !.age = 0, !.oldest = oldest, !.awaits = awaits]]
              /\ UNCHANGED pairCache
    /\ UNCHANGED simCache

\* The node simulates the transaction, on the chain as it is then.
Simulate(r) ==
  /\ run[r].data = Unread
  /\ run' = [run EXCEPT ![r].data = 0]
  /\ UNCHANGED <<handler, inFlight, simCache, pairCache, thrown>>

\* `finally`: whatever entry the getter has is deleted.
Finally(r) ==
  /\ run' = [q \in DOMAIN run \ {r} |-> run[q]]
  /\ inFlight' = [g \in DOMAIN inFlight \ {r[1]} |-> inFlight[g]]

Awaiting(r) == {h \in Requests : r \in handler[h].awaits}

\* The figure is cached and handed to every request that awaits this run; one
\* that awaits nothing else caches its pair state and answers.
RunEnds(r) ==
  LET got(h) == [handler[h] EXCEPT !.awaits = @ \ {r}, !.oldest = Oldest({@, run[r].data})]
      done   == {h \in Awaiting(r) : handler[h].awaits = {r}}
  IN
  /\ run[r].data # Unread
  /\ simCache' = [g \in DOMAIN simCache \union {r[1]} |->
                    IF g = r[1] THEN [age |-> 0, data |-> run[r].data] ELSE simCache[g]]
  /\ Finally(r)
  /\ handler' = [h \in Requests |->
                   IF h \in done THEN Idle ELSE IF h \in Awaiting(r) THEN got(h) ELSE handler[h]]
  /\ IF done = {} THEN UNCHANGED pairCache
     ELSE \E h \in done :
            pairCache' = [age |-> 0, oldest |-> Oldest({got(h).account, got(h).oldest})]
  /\ UNCHANGED thrown

\* Faulty variants: the entry of a failed request stays; only the request that
\* started a simulation hears of its failure.
RunFailsKeeps(r) ==
  /\ run' = [q \in DOMAIN run \ {r} |-> run[q]]
  /\ handler' = [h \in Requests |-> IF h \in Awaiting(r) THEN Idle ELSE handler[h]]
  /\ IF Awaiting(r) = {} THEN UNCHANGED pairCache
     ELSE \E h \in Awaiting(r) : pairCache' = [age |-> 0, oldest |-> handler[h].account]
  /\ UNCHANGED <<simCache, inFlight, thrown>>

RunFailsTellsStarter(r) ==
  LET told == Awaiting(r) \intersect {r[2]} IN
  /\ Finally(r)
  /\ handler' = [h \in Requests |-> IF h \in told THEN Idle ELSE handler[h]]
  /\ IF told = {} THEN UNCHANGED pairCache
     ELSE \E h \in told : pairCache' = [age |-> 0, oldest |-> handler[h].account]
  /\ UNCHANGED <<simCache, thrown>>

\* No answer, no logs or no value in them.  Promise.all rejects at once: every
\* request that awaits this run falls back to the spot prices of its account,
\* and that is cached like any other pair state.
RunFails(r) ==
  /\ Finally(r)
  /\ handler' = [h \in Requests |-> IF h \in Awaiting(r) THEN Idle ELSE handler[h]]
  /\ IF Awaiting(r) = {} THEN UNCHANGED pairCache
     ELSE \E h \in Awaiting(r) : pairCache' = [age |-> 0, oldest |-> handler[h].account]
  /\ UNCHANGED <<simCache, thrown>>

-----------------------------------------------------------------------------
Patient ==
  /\ \A h \in Requests : handler[h].pc \in {"pair", "meta"} => handler[h].age < MaxWait
  /\ \A r \in DOMAIN run : run[r].age < MaxWait

Tick ==
  /\ Patient
  /\ handler' = [h \in Requests |->
       IF handler[h].pc = "idle" THEN handler[h]
       ELSE [handler[h] EXCEPT !.age = IF handler[h].pc = "sims" THEN 0 ELSE @ + 1,
                               !.account = IF handler[h].pc = "pair" THEN 0 ELSE Older(@),
                               !.oldest = IF handler[h].pc = "sims" THEN Older(@) ELSE 0]]
  /\ run' = [r \in DOMAIN run |-> [age |-> run[r].age + 1, data |-> Older(run[r].data)]]
  /\ simCache' = [g \in DOMAIN simCache |->
                    [age |-> Older(simCache[g].age), data |-> Older(simCache[g].data)]]
  /\ pairCache' = [age |-> Older(pairCache.age), oldest |-> Older(pairCache.oldest)]
  /\ UNCHANGED <<inFlight, thrown>>

Next ==
  \/ \E h \in Requests : Ask(h) \/ PairRead(h) \/ PairFails(h) \/ CallGetters(h)
  \/ \E r \in DOMAIN run : Simulate(r) \/ RunEnds(r) \/ RunFails(r)
  \/ Cleanup \/ Tick

Spec == Init /\ [][Next]_vars

\* Every read of the chain comes back, one way or the other.
FairSpec ==
  /\ Spec
  /\ \A h \in Requests : WF_vars(PairRead(h) \/ PairFails(h)) /\ WF_vars(CallGetters(h))
  /\ \A g \in Getters, h \in Requests :
       WF_vars(<<g, h>> \in DOMAIN run /\ (RunEnds(<<g, h>>) \/ RunFails(<<g, h>>)))

-----------------------------------------------------------------------------
(* Properties *)

TypeOK ==
  /\ \A h \in Requests :
       /\ handler[h].pc \in {"idle", "pair", "meta", "sims"}
       /\ handler[h].age \in 0..MaxWait
       /\ {handler[h].account, handler[h].oldest} \subseteq 0..Old
       /\ handler[h].awaits \subseteq Getters \X Requests
       /\ handler[h].pc = "sims" <=> handler[h].awaits # {}
  /\ DOMAIN run \subseteq Getters \X Requests
  /\ \A r \in DOMAIN run : run[r].age \in 0..MaxWait /\ run[r].data \in Unread..Old
  /\ DOMAIN inFlight \subseteq Getters /\ \A g \in DOMAIN inFlight : inFlight[g] \in Requests
  /\ DOMAIN simCache \subseteq Getters
  /\ \A g \in DOMAIN simCache : {simCache[g].age, simCache[g].data} \subseteq 0..Old
  /\ {pairCache.age, pairCache.oldest} \subseteq -1..Old
  /\ thrown \subseteq Getters

\* However many requests compute a pair state at once, a getter has at most one
\* simulation in flight, and it was started no earlier than SimTtl after the last
\* one that succeeded.  The simulations in flight are those inFlightRequests names:
\* nobody is answered with an old rejection, unless a closure threw before its
\* entry was set.
OneSimulationPerGetter ==
  /\ TypeOK
  /\ DOMAIN run = {<<g, inFlight[g]>> : g \in DOMAIN inFlight \ thrown}
  /\ \A r \in DOMAIN run :
       r[1] \in DOMAIN simCache =>
         simCache[r[1]].age >= SimTtl + run[r].age \/ simCache[r[1]].age = Old

\* What a request is answered from the cache was true of the chain at most
\* MaxAge ago: a figure may have waited in simulateCache, then for the other
\* figures, then in the pair's entry, and still each cache keeps its lifetime.
AnswersAreRecent == PairIsFresh => pairCache.oldest <= MaxAge

\* Every request is answered, also when the simulation it joined fails, or the
\* request that started it has long been answered.
RequestsAreAnswered ==
  \A h \in Requests : handler[h].pc # "idle" ~> handler[h].pc = "idle"
=============================================================================
