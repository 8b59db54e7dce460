---------------------------- MODULE RestApiProofs -----------------------------
(***************************************************************************)
(* Proofs about the two halves of the REST API that keep state: the pair   *)
(* states it simulates and caches (PairStateCache), and the listings it    *)
(* reads page by page while the indexer writes (PagedReads).               *)
(***************************************************************************)
EXTENDS PairStateCache, PagedReads, FiniteSetTheorems, FunctionTheorems, TLAPS

-----------------------------------------------------------------------------
(* Part 1: PairStateCache *)

HandlerType ==
  [pc : {"idle", "pair", "meta", "sims"}, age : 0..MaxWait, account : 0..Old,
   oldest : 0..Old, awaits : SUBSET (Getters \X Requests)]

\* TypeOK, with the shape of the records.
Typed ==
  /\ handler \in [Requests -> HandlerType]
  /\ DOMAIN run \subseteq Getters \X Requests
  /\ run \in [DOMAIN run -> [age : 0..MaxWait, data : Unread..Old]]
  /\ DOMAIN inFlight \subseteq Getters
  /\ inFlight \in [DOMAIN inFlight -> Requests]
  /\ DOMAIN simCache \subseteq Getters
  /\ simCache \in [DOMAIN simCache -> [age : 0..Old, data : 0..Old]]
  /\ pairCache \in [age : -1..Old, oldest : -1..Old]

\* The simulations in flight are the ones inFlightRequests names, but for the
\* entries that closures which threw at once have left there for good.
OneRun ==
  /\ thrown \subseteq DOMAIN inFlight
  /\ DOMAIN run = {<<g, inFlight[g]>> : g \in DOMAIN inFlight \ thrown}

\* A request awaits runs that are in flight, and in "sims" at least one.
AwaitsRuns ==
  \A h \in Requests :
    /\ handler[h].awaits \subseteq DOMAIN run
    /\ handler[h].pc = "sims" <=> handler[h].awaits # {}

\* A simulation started no earlier than SimTtl after the last that succeeded.
RunsFollowCache ==
  \A r \in DOMAIN run :
    r[1] \in DOMAIN simCache =>
      simCache[r[1]].age >= SimTtl + run[r].age \/ simCache[r[1]].age = Old

\* What the pair's entry may be too old by, whatever its own age.
Lead == Max({3 * MaxWait, 2 * MaxWait + SimTtl - 1})

\* A result is no older than its run; an entry of simulateCache exceeds its own
\* age by the wait of one run.
FiguresAge ==
  /\ \A r \in DOMAIN run : run[r].data <= run[r].age
  /\ \A g \in DOMAIN simCache : simCache[g].data <= simCache[g].age + MaxWait

\* The account a request read is as old as its waits; what it has of the figures
\* was in the cache when it called the getters, or came from a run since.
RequestAge(h) ==
  /\ handler[h].pc = "meta" => handler[h].account <= MaxWait + handler[h].age
  /\ \A r \in handler[h].awaits :
       /\ handler[h].account <= 2 * MaxWait + run[r].age
       /\ handler[h].oldest <= MaxWait + SimTtl - 1 + run[r].age

RequestsAge == \A h \in Requests : RequestAge(h)

PairAge ==
  /\ pairCache.oldest <= Lead + pairCache.age
  /\ pairCache.age = -1 => pairCache = NoPair

PairInv == Typed /\ OneRun /\ AwaitsRuns /\ RunsFollowCache /\ FiguresAge /\ RequestsAge /\ PairAge

-----------------------------------------------------------------------------
(* Ages and bounds *)

\* A set of naturals below Old, not empty, has a greatest element.
LEMMA GreatestAge ==
  ASSUME NEW N \in Nat, NEW S \in SUBSET (0..N), S # {}
  PROVE  /\ Max(S) \in S
         /\ \A x \in S : x <= Max(S)
<1> DEFINE T == {n \in Nat : \E x \in S : n = N - x}
<1>1. T \subseteq Nat /\ T # {}
  <2>1. PICK x \in S : TRUE OBVIOUS
  <2>2. N - x \in Nat OBVIOUS
  <2> QED BY <2>1, <2>2
<1>2. PICK n \in T : \A m \in T : ~ (<<m, n>> \in OpToRel(<, Nat))
  <2> HIDE DEF T
  <2> QED BY <1>1, NatLessThanWellFounded, WFMin
<1>3. PICK x \in S : n = N - x
  BY <1>2
<1>4. ASSUME NEW y \in S PROVE x >= y
  <2>1. N - y \in T OBVIOUS
  <2>2. <<N - y, n>> \notin OpToRel(<, Nat) BY <1>2, <2>1
  <2>3. ~ (N - y < n) BY <2>1, <2>2, <1>1, <1>2, Zenon DEF OpToRel
  <2> QED BY <2>3, <1>3
<1>5. Max(S) \in S /\ \A y \in S : Max(S) >= y
  BY <1>4, Zenon DEF Max
<1> QED BY <1>5

\* The bounds are naturals, and in the order their definition says.
LEMMA Bounds ==
  /\ MaxWait \in Nat \ {0} /\ SimTtl \in Nat \ {0} /\ PairTtl \in Nat \ {0}
  /\ Lead \in Nat /\ 3 * MaxWait <= Lead /\ 2 * MaxWait + SimTtl - 1 <= Lead
  /\ MaxAge = PairTtl + Lead /\ Old = MaxAge + 1 /\ Old \in Nat
<1>1. MaxWait \in Nat \ {0} /\ SimTtl \in Nat \ {0} /\ PairTtl \in Nat \ {0}
  BY TtlAssumption
<1> DEFINE a == 3 * MaxWait
           b == 2 * MaxWait + SimTtl - 1
<1>2. a \in Nat /\ b \in Nat BY <1>1
<1>3. Lead = Max({a, b}) BY DEF Lead
<1>4. MaxAge = PairTtl + Max({a, b}) BY DEF MaxAge
<1> HIDE DEF a, b
<1>5. a + b \in Nat /\ {a, b} \in SUBSET (0..(a + b)) /\ {a, b} # {} BY <1>2
<1>6. Max({a, b}) \in {a, b} /\ \A x \in {a, b} : x <= Max({a, b})
  BY <1>5, GreatestAge
<1>7. Lead \in Nat /\ a <= Lead /\ b <= Lead BY <1>2, <1>3, <1>6
<1> QED BY <1>1, <1>3, <1>4, <1>7 DEF a, b, Old

\* The oldest of a set of ages is an age, and no older than a bound on them all.
LEMMA OldestBound ==
  ASSUME NEW S \in SUBSET (0..Old)
  PROVE  /\ Oldest(S) \in 0..Old
         /\ \A n \in Nat : (\A x \in S : x <= n) => Oldest(S) <= n
<1>1. Old \in Nat BY Bounds
<1>2. S \union {0} \in SUBSET (0..Old) /\ S \union {0} # {} BY <1>1
<1>3. Max(S \union {0}) \in S \union {0} BY <1>1, <1>2, GreatestAge, Zenon
<1> DEFINE m == Max(S \union {0})
<1>4. m \in S \union {0} BY <1>3
<1>5. Oldest(S) = m BY DEF Oldest
<1> HIDE DEF m
<1> QED BY <1>1, <1>4, <1>5

\* A tick makes an age one older, up to Old, and leaves an absent one absent.
LEMMA OlderType ==
  ASSUME NEW n \in -1..Old
  PROVE  /\ Older(n) \in -1..Old
         /\ n = -1 => Older(n) = -1
         /\ n # -1 => Older(n) \in 0..Old
         /\ Older(n) = n + 1 \/ (Older(n) = n /\ n \in {-1, Old})
BY Bounds DEF Older

-----------------------------------------------------------------------------
(* Every step keeps PairInv *)

LEMMA PairInit == Init => PairInv
<1> SUFFICES ASSUME Init PROVE PairInv OBVIOUS
<1> USE Bounds
<1>1. Typed BY DEF Init, Typed, HandlerType, Idle, NoPair, Unread
<1>2. OneRun BY DEF Init, OneRun
<1>3. AwaitsRuns BY DEF Init, AwaitsRuns, Idle
<1>4. RunsFollowCache BY DEF Init, RunsFollowCache
<1>5. FiguresAge BY DEF Init, FiguresAge
<1>6. RequestsAge BY DEF Init, RequestsAge, RequestAge, Idle
<1>7. PairAge BY DEF Init, PairAge, NoPair
<1> QED BY <1>1, <1>2, <1>3, <1>4, <1>5, <1>6, <1>7 DEF PairInv

LEMMA AskPreserves ==
  ASSUME PairInv, NEW h \in Requests, Ask(h)
  PROVE  PairInv'
<1> USE Bounds DEF PairInv
<1>1. Typed' BY DEF Ask, Typed, HandlerType, Idle, NoPair
<1>2. OneRun' BY DEF Ask, OneRun
<1>3. AwaitsRuns' BY DEF Ask, AwaitsRuns, Typed, Idle
<1>4. RunsFollowCache' BY DEF Ask, RunsFollowCache
<1>5. FiguresAge' BY DEF Ask, FiguresAge
<1>6. RequestsAge' BY DEF Ask, RequestsAge, RequestAge, Typed, Idle
<1>7. PairAge' BY DEF Ask, PairAge, NoPair
<1> QED BY <1>1, <1>2, <1>3, <1>4, <1>5, <1>6, <1>7 DEF PairInv

LEMMA ReadHandler ==
  ASSUME NEW lag, NEW x, x = [Idle EXCEPT !.pc = "meta", !.account = lag]
  PROVE  x = [pc |-> "meta", age |-> 0, account |-> lag, oldest |-> 0, awaits |-> {}]
<1>1. PICK f : f = [Idle EXCEPT !.pc = "meta"] OBVIOUS
<1>2. f = [pc |-> "meta", age |-> 0, account |-> 0, oldest |-> 0, awaits |-> {}]
  BY <1>1 DEF Idle
<1>3. x = [f EXCEPT !.account = lag] BY <1>1
<1> QED BY <1>2, <1>3

LEMMA PairReadPreserves ==
  ASSUME PairInv, NEW h \in Requests, PairRead(h)
  PROVE  PairInv'
<1> USE Bounds DEF PairInv
<1>0. PICK lag \in 0..handler[h].age :
        handler' = [handler EXCEPT ![h] = [Idle EXCEPT !.pc = "meta", !.account = lag]]
  BY DEF PairRead
<1>a. handler[h].age \in 0..MaxWait BY DEF Typed, HandlerType
<1>b. lag \in 0..MaxWait /\ lag \in 0..Old
  <2>1. lag \in 0..MaxWait BY <1>0, <1>a
  <2> QED BY <2>1
<1>c. PICK x : x = [Idle EXCEPT !.pc = "meta", !.account = lag]
  OBVIOUS
<1>d. x = [pc |-> "meta", age |-> 0, account |-> lag, oldest |-> 0, awaits |-> {}]
  BY <1>c, ReadHandler
<1>e. handler' = [handler EXCEPT ![h] = x] BY <1>0, <1>c
<1>1. Typed' BY <1>b, <1>d, <1>e DEF PairRead, Typed, HandlerType
<1>2. OneRun' BY DEF PairRead, OneRun
<1>f. /\ x.pc = "meta" /\ x.age = 0 /\ x.account = lag /\ x.oldest = 0 /\ x.awaits = {}
      /\ handler'[h] = x
      /\ \A k \in Requests : k # h => handler'[k] = handler[k]
  BY <1>d, <1>e DEF Typed
<1>3. AwaitsRuns' BY <1>f DEF PairRead, AwaitsRuns
<1>4. RunsFollowCache' BY DEF PairRead, RunsFollowCache
<1>5. FiguresAge' BY DEF PairRead, FiguresAge
<1>6. RequestsAge'
  <2>1. run' = run BY DEF PairRead
  <2>2. RequestAge(h)' BY <1>b, <1>f DEF RequestAge
  <2>3. ASSUME NEW k \in Requests, k # h PROVE RequestAge(k)'
    BY <1>f, <2>1, <2>3 DEF RequestsAge, RequestAge
  <2> QED BY <2>2, <2>3 DEF RequestsAge
<1>7. PairAge' BY DEF PairRead, PairAge
<1> QED BY <1>1, <1>2, <1>3, <1>4, <1>5, <1>6, <1>7 DEF PairInv

LEMMA PairFailsPreserves ==
  ASSUME PairInv, NEW h \in Requests, PairFails(h)
  PROVE  PairInv'
<1> USE Bounds DEF PairInv
<1>1. Typed' BY DEF PairFails, Typed, HandlerType, Idle
<1>2. OneRun' BY DEF PairFails, OneRun
<1>3. AwaitsRuns' BY DEF PairFails, AwaitsRuns, Typed, Idle
<1>4. RunsFollowCache' BY DEF PairFails, RunsFollowCache
<1>5. FiguresAge' BY DEF PairFails, FiguresAge
<1>6. RequestsAge' BY DEF PairFails, RequestsAge, RequestAge, Typed, Idle
<1>7. PairAge' BY DEF PairFails, PairAge
<1> QED BY <1>1, <1>2, <1>3, <1>4, <1>5, <1>6, <1>7 DEF PairInv

LEMMA CleanupPreserves ==
  ASSUME PairInv, Cleanup
  PROVE  PairInv'
<1> USE Bounds DEF PairInv
<1>1. Typed' BY DEF Cleanup, Typed, NoPair
<1>2. OneRun' BY DEF Cleanup, OneRun
<1>3. AwaitsRuns' BY DEF Cleanup, AwaitsRuns
<1>4. RunsFollowCache' BY DEF Cleanup, RunsFollowCache
<1>5. FiguresAge' BY DEF Cleanup, FiguresAge
<1>6. RequestsAge' BY DEF Cleanup, RequestsAge, RequestAge
<1>7. PairAge' BY DEF Cleanup, PairAge, NoPair
<1> QED BY <1>1, <1>2, <1>3, <1>4, <1>5, <1>6, <1>7 DEF PairInv

LEMMA SimulatePreserves ==
  ASSUME PairInv, NEW r \in DOMAIN run, Simulate(r)
  PROVE  PairInv'
<1> USE Bounds DEF PairInv
<1>0. /\ DOMAIN run' = DOMAIN run
      /\ \A q \in DOMAIN run : run'[q].age = run[q].age /\ (q # r => run'[q] = run[q])
      /\ run'[r].data = 0
  BY DEF Simulate, Typed
<1>1. Typed' BY DEF Simulate, Typed, Unread
<1>2. OneRun' BY <1>0 DEF Simulate, OneRun
<1>3. AwaitsRuns' BY <1>0 DEF Simulate, AwaitsRuns
<1>4. RunsFollowCache' BY <1>0 DEF Simulate, RunsFollowCache
<1>5. FiguresAge'
  <2>1. run[r].age \in 0..MaxWait BY DEF Typed
  <2> QED BY <1>0, <2>1 DEF Simulate, FiguresAge
<1>6. RequestsAge' BY <1>0 DEF Simulate, RequestsAge, RequestAge, AwaitsRuns
<1>7. PairAge' BY DEF Simulate, PairAge
<1> QED BY <1>1, <1>2, <1>3, <1>4, <1>5, <1>6, <1>7 DEF PairInv

LEMMA CallGettersPreserves ==
  ASSUME PairInv, NEW h \in Requests, CallGetters(h)
  PROVE  PairInv'
<1>b. PICK broken \in SUBSET Getters :
    LET cached  == {g \in Getters : SimIsFresh(g)}
        joined  == {g \in Getters \ cached : IsInFlight(g)}
        started == Getters \ (cached \union joined)
        starts  == (started \ broken) \X {h}
        awaits  == {<<g, inFlight[g]>> : g \in joined} \union starts
        oldest  == Oldest({simCache[g].data : g \in cached})
        rejects == broken # {} \/ \E g \in joined : Settled(g)
    IN
    /\ handler[h].pc = "meta"
    /\ broken \subseteq started
    /\ run' = [r \in DOMAIN run \union starts |->
                 IF r \in starts THEN [age |-> 0, data |-> Unread] ELSE run[r]]
    /\ inFlight' = [g \in DOMAIN inFlight \union started |->
                      IF g \in started THEN h ELSE inFlight[g]]
    /\ thrown' = thrown \union broken
    /\ IF rejects \/ awaits = {}
         THEN /\ handler' = [handler EXCEPT ![h] = Idle]
              /\ pairCache' = [age |-> 0, oldest |->
                   IF rejects THEN handler[h].account ELSE Oldest({handler[h].account, oldest})]
         ELSE /\ handler' = [handler EXCEPT ![h] =
                   [@ EXCEPT !.pc = "sims", !.age = 0, !.oldest = oldest, !.awaits = awaits]]
              /\ UNCHANGED pairCache
    /\ UNCHANGED simCache
  BY DEF CallGetters
<1> DEFINE cached  == {g \in Getters : SimIsFresh(g)}
           joined  == {g \in Getters \ cached : IsInFlight(g)}
           started == Getters \ (cached \union joined)
           starts  == (started \ broken) \X {h}
           oldest  == Oldest({simCache[g].data : g \in cached})
           awaits  == {<<g, inFlight[g]>> : g \in joined} \union starts
           rejects == broken # {} \/ \E g \in joined : Settled(g)
           answer  == IF rejects THEN handler[h].account ELSE Oldest({handler[h].account, oldest})
<1>0. Typed /\ OneRun /\ AwaitsRuns /\ RunsFollowCache /\ FiguresAge /\ RequestsAge /\ PairAge
  BY DEF PairInv
<1>1. /\ handler[h].pc = "meta" /\ simCache' = simCache
      /\ broken \subseteq started /\ thrown' = thrown \union broken
      /\ run' = [r \in DOMAIN run \union starts |->
                   IF r \in starts THEN [age |-> 0, data |-> Unread] ELSE run[r]]
      /\ inFlight' = [g \in DOMAIN inFlight \union started |->
                        IF g \in started THEN h ELSE inFlight[g]]
  BY <1>b
<1>2. \/ /\ handler' = [handler EXCEPT ![h] = Idle]
         /\ pairCache' = [age |-> 0, oldest |-> answer]
      \/ /\ handler' = [handler EXCEPT ![h] =
              [handler[h] EXCEPT !.pc = "sims", !.age = 0, !.oldest = oldest, !.awaits = awaits]]
         /\ awaits # {} /\ ~rejects /\ pairCache' = pairCache
  BY <1>b
<1>3. started \subseteq Getters /\ started \intersect DOMAIN inFlight = {}
  BY DEF IsInFlight
<1>4. joined \subseteq DOMAIN inFlight BY DEF IsInFlight
<1>5. \A g \in started : g \in DOMAIN simCache => simCache[g].age >= SimTtl
  <2>1. ASSUME NEW g \in started, g \in DOMAIN simCache PROVE simCache[g].age >= SimTtl
    <3>1. ~(simCache[g].age < SimTtl) BY <2>1 DEF SimIsFresh
    <3>2. simCache[g].age \in 0..Old BY <2>1, <1>0 DEF Typed
    <3> QED BY <3>1, <3>2, Bounds
  <2> QED BY <2>1
<1>6. oldest \in 0..Old /\ oldest <= MaxWait + SimTtl - 1
  <2> DEFINE S == {simCache[g].data : g \in cached}
  <2>1. \A g \in cached : simCache[g].data \in 0..Old /\ simCache[g].age \in 0..Old
    BY <1>0 DEF Typed, SimIsFresh
  <2>2. S \in SUBSET (0..Old) BY <2>1
  <2>3. \A g \in cached : simCache[g].data <= MaxWait + SimTtl - 1
    <3>1. ASSUME NEW g \in cached PROVE simCache[g].data <= MaxWait + SimTtl - 1
      <4>1. simCache[g].age < SimTtl /\ simCache[g].data <= simCache[g].age + MaxWait
        BY <1>0 DEF SimIsFresh, FiguresAge
      <4> QED BY <4>1, <2>1, Bounds
    <3> QED BY <3>1
  <2>4. \A x \in S : x <= MaxWait + SimTtl - 1 BY <2>3
  <2>5. MaxWait + SimTtl - 1 \in Nat BY Bounds
  <2> QED BY <2>2, <2>4, <2>5, OldestBound
<1>7. /\ handler[h] \in HandlerType
      /\ handler[h].account \in 0..Old /\ handler[h].account <= 2 * MaxWait
  <2>1. handler[h] \in HandlerType BY <1>0 DEF Typed
  <2>2. handler[h].account \in 0..Old /\ handler[h].age \in 0..MaxWait
    BY <2>1 DEF HandlerType
  <2>3. handler[h].account <= MaxWait + handler[h].age
    BY <1>0, <1>1 DEF RequestsAge, RequestAge
  <2> QED BY <2>1, <2>2, <2>3, Bounds
<1>8. /\ DOMAIN run \subseteq Getters \X Requests
      /\ starts \subseteq Getters \X Requests
      /\ starts \intersect DOMAIN run = {}
      /\ ~rejects => {<<g, inFlight[g]>> : g \in joined} \subseteq DOMAIN run
  BY <1>0, <1>3, <1>4 DEF Typed, OneRun, Settled
<1>9. ~rejects => awaits \subseteq Getters \X Requests /\ awaits \subseteq DOMAIN run'
  BY <1>1, <1>3, <1>8
<1>started. \A r \in starts : r[1] \in started
  OBVIOUS
<1>opened. starts = {<<g, h>> : g \in started \ broken}
  OBVIOUS
<1> HIDE DEF cached, joined, started, starts, oldest, awaits, rejects
<1>10. /\ DOMAIN run' = DOMAIN run \union starts
       /\ \A r \in DOMAIN run : run'[r] = run[r]
       /\ \A r \in starts : run'[r] = [age |-> 0, data |-> Unread]
  BY <1>1, <1>8
<1>11. /\ handler' \in [Requests -> HandlerType]
       /\ \A k \in Requests : k # h => handler'[k] = handler[k]
       /\ \/ /\ handler'[h].pc = "idle" /\ handler'[h].awaits = {}
             /\ pairCache' = [age |-> 0, oldest |-> answer]
          \/ /\ handler'[h].pc = "sims" /\ handler'[h].awaits = awaits /\ awaits # {} /\ ~rejects
             /\ handler'[h].account = handler[h].account /\ handler'[h].oldest = oldest
             /\ pairCache' = pairCache
  <2>0. handler \in [Requests -> HandlerType] BY <1>0 DEF Typed
  <2>1. CASE /\ handler' = [handler EXCEPT ![h] = Idle]
             /\ pairCache' = [age |-> 0, oldest |-> answer]
    <3>1. Idle \in HandlerType /\ Idle.pc = "idle" /\ Idle.awaits = {}
      BY Bounds DEF Idle, HandlerType
    <3> QED BY <2>0, <2>1, <3>1
  <2>2. CASE /\ handler' = [handler EXCEPT ![h] =
                  [handler[h] EXCEPT !.pc = "sims", !.age = 0, !.oldest = oldest, !.awaits = awaits]]
             /\ awaits # {} /\ ~rejects /\ pairCache' = pairCache
    <3>1. PICK y \in HandlerType : y = handler[h] BY <1>7
    <3>2. PICK x : x = [y EXCEPT !.pc = "sims", !.age = 0, !.oldest = oldest, !.awaits = awaits]
      OBVIOUS
    <3>3. handler' = [handler EXCEPT ![h] = x] BY <2>2, <3>1, <3>2
    <3>4. PICK f : f = [y EXCEPT !.pc = "sims"] OBVIOUS
    <3>5. PICK g : g = [f EXCEPT !.age = 0] OBVIOUS
    <3>6. PICK k : k = [g EXCEPT !.oldest = oldest] OBVIOUS
    <3>7. x = [k EXCEPT !.awaits = awaits] BY <3>2, <3>4, <3>5, <3>6
    <3>8. f \in HandlerType /\ f.pc = "sims" /\ f.account = y.account
      BY <3>4 DEF HandlerType
    <3>9. g \in HandlerType /\ g.pc = "sims" /\ g.account = y.account
      BY <3>5, <3>8, Bounds DEF HandlerType
    <3>10. k \in HandlerType /\ k.pc = "sims" /\ k.account = y.account /\ k.oldest = oldest
      BY <1>6, <3>6, <3>9 DEF HandlerType
    <3>11. /\ x \in HandlerType
           /\ x.pc = "sims" /\ x.account = y.account /\ x.oldest = oldest /\ x.awaits = awaits
      BY <1>9, <2>2, <3>7, <3>10 DEF HandlerType
    <3> QED BY <2>0, <2>2, <3>1, <3>3, <3>11
  <2> QED BY <1>2, <2>1, <2>2
<1>12. {handler[h].account, oldest} \in SUBSET (0..Old) BY <1>6, <1>7
<1>13. answer \in 0..Old /\ answer <= Lead
  <2>1. \A x \in {handler[h].account, oldest} : x <= Lead
    <3>1. handler[h].account <= Lead BY <1>7, Bounds
    <3>2. oldest <= Lead BY <1>6, Bounds
    <3> QED BY <3>1, <3>2
  <2>2. /\ Oldest({handler[h].account, oldest}) \in 0..Old
        /\ Oldest({handler[h].account, oldest}) <= Lead
    BY <1>12, <2>1, OldestBound, Bounds
  <2>3. handler[h].account \in 0..Old /\ handler[h].account <= Lead
    BY <1>7, <2>1
  <2> QED BY <2>2, <2>3
<1> HIDE DEF answer
<1>14. Typed'
  <2>1. DOMAIN run' \subseteq Getters \X Requests BY <1>3, <1>8, <1>10
  <2>2. run' \in [DOMAIN run' -> [age : 0..MaxWait, data : Unread..Old]]
    <3>1. [age |-> 0, data |-> Unread] \in [age : 0..MaxWait, data : Unread..Old]
      BY Bounds DEF Unread
    <3>2. \A r \in DOMAIN run' : run'[r] \in [age : 0..MaxWait, data : Unread..Old]
      BY <1>0, <1>10, <3>1 DEF Typed
    <3> QED BY <1>1, <3>2
  <2>3. DOMAIN inFlight' \subseteq Getters /\ inFlight' \in [DOMAIN inFlight' -> Requests]
    BY <1>0, <1>1, <1>3 DEF Typed
  <2>4. pairCache' \in [age : -1..Old, oldest : -1..Old]
    <3>1. CASE pairCache' = pairCache BY <1>0, <3>1 DEF Typed
    <3>2. CASE pairCache' = [age |-> 0, oldest |-> answer]
      <4>1. answer \in -1..Old BY <1>13, Bounds
      <4> QED BY <3>2, <4>1, Bounds
    <3> QED BY <1>11, <3>1, <3>2
  <2> QED BY <1>0, <1>1, <1>11, <2>1, <2>2, <2>3, <2>4 DEF Typed
<1>15. OneRun'
  <2>1. DOMAIN inFlight' = DOMAIN inFlight \union started BY <1>1
  <2>2. \A g \in started : inFlight'[g] = h BY <1>1
  <2>3. \A g \in DOMAIN inFlight : inFlight'[g] = inFlight[g] BY <1>1, <1>3
  <2>4. thrown \subseteq DOMAIN inFlight BY <1>0 DEF OneRun
  <2>5. DOMAIN inFlight' \ thrown' = (DOMAIN inFlight \ thrown) \union (started \ broken)
    BY <1>1, <1>3, <2>1, <2>4
  <2>6. {<<g, inFlight'[g]>> : g \in DOMAIN inFlight' \ thrown'} =
          {<<g, inFlight[g]>> : g \in DOMAIN inFlight \ thrown} \union starts
    BY <1>opened, <2>2, <2>3, <2>5
  <2> QED BY <1>0, <1>1, <1>10, <2>1, <2>4, <2>6 DEF OneRun
<1>16. AwaitsRuns'
  <2>1. ASSUME NEW k \in Requests
        PROVE  /\ handler'[k].awaits \subseteq DOMAIN run'
               /\ handler'[k].pc = "sims" <=> handler'[k].awaits # {}
    <3>1. CASE k = h BY <1>9, <1>11, <3>1
    <3>2. CASE k # h BY <1>0, <1>10, <1>11, <3>2 DEF AwaitsRuns
    <3> QED BY <3>1, <3>2
  <2> QED BY <2>1 DEF AwaitsRuns
<1>17. RunsFollowCache'
  <2>1. ASSUME NEW r \in DOMAIN run', r[1] \in DOMAIN simCache
        PROVE  simCache[r[1]].age >= SimTtl + run'[r].age \/ simCache[r[1]].age = Old
    <3>1. CASE r \in DOMAIN run BY <1>0, <1>10, <2>1, <3>1 DEF RunsFollowCache
    <3>2. CASE r \in starts
      <4>1. r[1] \in started /\ run'[r].age = 0 BY <1>10, <1>started, <3>2
      <4> QED BY <1>5, <2>1, <4>1, Bounds
    <3> QED BY <1>10, <3>1, <3>2
  <2> QED BY <1>1, <2>1 DEF RunsFollowCache
<1>18. FiguresAge'
  <2>1. ASSUME NEW r \in DOMAIN run' PROVE run'[r].data <= run'[r].age
    <3>1. CASE r \in DOMAIN run BY <1>0, <1>10, <3>1 DEF FiguresAge
    <3>2. CASE r \in starts BY <1>10, <3>2 DEF Unread
    <3> QED BY <1>10, <3>1, <3>2
  <2> QED BY <1>0, <1>1, <2>1 DEF FiguresAge
<1>19. RequestsAge'
  <2>1. ASSUME NEW k \in Requests PROVE RequestAge(k)'
    <3>1. CASE k = h
      <4>1. ASSUME NEW r \in handler'[h].awaits
            PROVE  /\ handler'[h].account <= 2 * MaxWait + run'[r].age
                   /\ handler'[h].oldest <= MaxWait + SimTtl - 1 + run'[r].age
        <5>1. handler'[h].account = handler[h].account /\ handler'[h].oldest = oldest
          BY <1>11, <4>1
        <5>2. r \in DOMAIN run' BY <1>9, <1>11, <4>1
        <5>3. run'[r].age \in 0..MaxWait BY <1>14, <5>2 DEF Typed
        <5> QED BY <1>6, <1>7, <5>1, <5>3, Bounds
      <4>2. handler'[h].pc # "meta" BY <1>11
      <4> QED BY <3>1, <4>1, <4>2 DEF RequestAge
    <3>2. CASE k # h
      <4>1. handler'[k] = handler[k] BY <1>11, <3>2
      <4>2. \A r \in handler[k].awaits : run'[r] = run[r] BY <1>0, <1>10 DEF AwaitsRuns
      <4> QED BY <1>0, <4>1, <4>2 DEF RequestsAge, RequestAge
    <3> QED BY <3>1, <3>2
  <2> QED BY <2>1 DEF RequestsAge
<1>20. PairAge'
  <2>1. CASE pairCache' = pairCache BY <1>0, <2>1 DEF PairAge
  <2>2. CASE pairCache' = [age |-> 0, oldest |-> answer]
    <3>1. pairCache'.age = 0 /\ pairCache'.oldest <= Lead BY <1>13, <2>2
    <3> QED BY <3>1, Bounds DEF PairAge
  <2> QED BY <1>11, <2>1, <2>2
<1> QED BY <1>14, <1>15, <1>16, <1>17, <1>18, <1>19, <1>20 DEF PairInv

\* `finally` takes the run away and nothing else: no other run is of its getter.
LEMMA FinallyRuns ==
  ASSUME Typed, OneRun, NEW r \in DOMAIN run, Finally(r), UNCHANGED thrown
  PROVE  /\ DOMAIN run' = DOMAIN run \ {r}
         /\ \A q \in DOMAIN run' : run'[q] = run[q] /\ q[1] # r[1]
         /\ DOMAIN run' \subseteq Getters \X Requests
         /\ run' \in [DOMAIN run' -> [age : 0..MaxWait, data : Unread..Old]]
         /\ DOMAIN inFlight' \subseteq Getters
         /\ inFlight' \in [DOMAIN inFlight' -> Requests]
         /\ OneRun'
<1>1. /\ DOMAIN run' = DOMAIN run \ {r} /\ \A q \in DOMAIN run' : run'[q] = run[q]
      /\ DOMAIN inFlight' = DOMAIN inFlight \ {r[1]}
      /\ \A g \in DOMAIN inFlight' : inFlight'[g] = inFlight[g]
      /\ run' = [q \in DOMAIN run \ {r} |-> run[q]]
      /\ inFlight' = [g \in DOMAIN inFlight \ {r[1]} |-> inFlight[g]]
  BY DEF Finally
<1>2. PICK g \in DOMAIN inFlight \ thrown : r = <<g, inFlight[g]>> BY DEF OneRun
<1>3. r[1] = g BY <1>2
<1>4. \A q \in DOMAIN run : q # r => q[1] # r[1]
  <2>1. ASSUME NEW q \in DOMAIN run, q # r PROVE q[1] # r[1]
    <3>1. PICK f \in DOMAIN inFlight : q = <<f, inFlight[f]>> BY DEF OneRun
    <3> QED BY <1>2, <2>1, <3>1
  <2> QED BY <2>1
<1>5. OneRun'
  <2>1. {<<f, inFlight'[f]>> : f \in DOMAIN inFlight' \ thrown'} =
          {<<f, inFlight[f]>> : f \in (DOMAIN inFlight \ thrown) \ {g}}
    BY <1>1, <1>3
  <2>2. {<<f, inFlight[f]>> : f \in (DOMAIN inFlight \ thrown) \ {g}} =
          {<<f, inFlight[f]>> : f \in DOMAIN inFlight \ thrown} \ {r}
    BY <1>2
  <2> QED BY <1>1, <1>2, <1>3, <2>1, <2>2 DEF OneRun
<1> QED BY <1>1, <1>4, <1>5 DEF Typed

\* A request that awaits a run has an account at most three waits old.
LEMMA AwaitedAccount ==
  ASSUME PairInv, NEW h \in Requests, NEW r \in handler[h].awaits
  PROVE  /\ handler[h].account \in 0..Old /\ handler[h].account <= Lead
         /\ handler[h].oldest \in 0..Old /\ handler[h].oldest <= Lead
<1>1. handler[h] \in HandlerType /\ r \in DOMAIN run BY DEF PairInv, Typed, AwaitsRuns
<1>2. run[r].age \in 0..MaxWait BY <1>1 DEF PairInv, Typed
<1>3. handler[h].account \in 0..Old /\ handler[h].oldest \in 0..Old BY <1>1 DEF HandlerType
<1>4. /\ handler[h].account <= 2 * MaxWait + run[r].age
      /\ handler[h].oldest <= MaxWait + SimTtl - 1 + run[r].age
  BY DEF PairInv, RequestsAge, RequestAge
<1> QED BY <1>2, <1>3, <1>4, Bounds

LEMMA RunFailsPreserves ==
  ASSUME PairInv, NEW r \in DOMAIN run, RunFails(r)
  PROVE  PairInv'
<1>0. Typed /\ OneRun /\ AwaitsRuns /\ RunsFollowCache /\ FiguresAge /\ RequestsAge /\ PairAge
  BY DEF PairInv
<1>1. /\ Finally(r) /\ simCache' = simCache /\ thrown' = thrown
      /\ handler' = [h \in Requests |-> IF h \in Awaiting(r) THEN Idle ELSE handler[h]]
  BY DEF RunFails
<1>2. /\ DOMAIN run' = DOMAIN run \ {r}
      /\ \A q \in DOMAIN run' : run'[q] = run[q] /\ q[1] # r[1]
      /\ DOMAIN run' \subseteq Getters \X Requests
      /\ run' \in [DOMAIN run' -> [age : 0..MaxWait, data : Unread..Old]]
      /\ DOMAIN inFlight' \subseteq Getters
      /\ inFlight' \in [DOMAIN inFlight' -> Requests]
      /\ OneRun'
  BY <1>0, <1>1, FinallyRuns
<1>3. Idle \in HandlerType /\ Idle.pc = "idle" /\ Idle.awaits = {}
  BY Bounds DEF Idle, HandlerType
<1>4. /\ \A h \in Requests : h \in Awaiting(r) => handler'[h] = Idle
      /\ \A h \in Requests : h \notin Awaiting(r) => handler'[h] = handler[h] /\ r \notin handler[h].awaits
  BY <1>1 DEF Awaiting
<1>5. \/ pairCache' = pairCache
      \/ \E h \in Awaiting(r) : pairCache' = [age |-> 0, oldest |-> handler[h].account]
  BY DEF RunFails
<1>6. ASSUME NEW h \in Awaiting(r), pairCache' = [age |-> 0, oldest |-> handler[h].account]
      PROVE  /\ pairCache' \in [age : -1..Old, oldest : -1..Old]
             /\ PairAge'
  <2>1. h \in Requests /\ r \in handler[h].awaits BY DEF Awaiting
  <2>2. PICK a : a = handler[h].account OBVIOUS
  <2>3. a \in 0..Old /\ a <= Lead BY <2>1, <2>2, AwaitedAccount
  <2>4. pairCache' = [age |-> 0, oldest |-> a] BY <1>6, <2>2
  <2> QED BY <2>3, <2>4, Bounds DEF PairAge
<1>7. Typed'
  <2>1. pairCache' \in [age : -1..Old, oldest : -1..Old] BY <1>0, <1>5, <1>6 DEF Typed
  <2>2. handler' \in [Requests -> HandlerType] BY <1>0, <1>1, <1>3 DEF Typed
  <2> QED BY <1>0, <1>1, <1>2, <2>1, <2>2 DEF Typed
<1>8. AwaitsRuns' BY <1>0, <1>2, <1>3, <1>4 DEF AwaitsRuns
<1>9. RunsFollowCache' BY <1>0, <1>1, <1>2 DEF RunsFollowCache
<1>10. FiguresAge' BY <1>0, <1>1, <1>2 DEF FiguresAge
<1>11. RequestsAge'
  <2>1. ASSUME NEW h \in Requests PROVE RequestAge(h)'
    <3>1. CASE h \in Awaiting(r) BY <1>3, <1>4, <3>1 DEF RequestAge
    <3>2. CASE h \notin Awaiting(r)
      <4>1. handler'[h] = handler[h] /\ \A q \in handler[h].awaits : run'[q] = run[q]
        BY <1>0, <1>2, <1>4, <3>2 DEF AwaitsRuns
      <4> QED BY <1>0, <4>1 DEF RequestsAge, RequestAge
    <3> QED BY <3>1, <3>2
  <2> QED BY <2>1 DEF RequestsAge
<1>12. PairAge'
  <2>1. CASE pairCache' = pairCache BY <1>0, <2>1 DEF PairAge
  <2> QED BY <1>5, <1>6, <2>1
<1> QED BY <1>2, <1>7, <1>8, <1>9, <1>10, <1>11, <1>12 DEF PairInv

LEMMA RunEndsPreserves ==
  ASSUME PairInv, NEW r \in DOMAIN run, RunEnds(r)
  PROVE  PairInv'
<1> DEFINE d == run[r].data
           got(h) == [handler[h] EXCEPT !.awaits = @ \ {r}, !.oldest = Oldest({@, d})]
           done == {h \in Awaiting(r) : handler[h].awaits = {r}}
<1>0. Typed /\ OneRun /\ AwaitsRuns /\ RunsFollowCache /\ FiguresAge /\ RequestsAge /\ PairAge
  BY DEF PairInv
<1>1. /\ d # Unread /\ Finally(r) /\ thrown' = thrown
      /\ simCache' = [g \in DOMAIN simCache \union {r[1]} |->
                        IF g = r[1] THEN [age |-> 0, data |-> d] ELSE simCache[g]]
      /\ handler' = [h \in Requests |->
                       IF h \in done THEN Idle ELSE IF h \in Awaiting(r) THEN got(h) ELSE handler[h]]
  BY DEF RunEnds
<1>2. \/ pairCache' = pairCache
      \/ \E h \in done :
           pairCache' = [age |-> 0, oldest |-> Oldest({got(h).account, got(h).oldest})]
  BY DEF RunEnds
<1>3. /\ DOMAIN run' = DOMAIN run \ {r}
      /\ \A q \in DOMAIN run' : run'[q] = run[q] /\ q[1] # r[1]
      /\ DOMAIN run' \subseteq Getters \X Requests
      /\ run' \in [DOMAIN run' -> [age : 0..MaxWait, data : Unread..Old]]
      /\ DOMAIN inFlight' \subseteq Getters
      /\ inFlight' \in [DOMAIN inFlight' -> Requests]
      /\ OneRun'
  BY <1>0, <1>1, FinallyRuns
<1>4. r[1] \in Getters BY <1>0 DEF Typed
<1>5. d \in 0..Old /\ d <= MaxWait
  <2>1. run[r] \in [age : 0..MaxWait, data : Unread..Old] BY <1>0 DEF Typed
  <2>2. d \in -1..Old /\ d # -1 /\ run[r].age \in 0..MaxWait BY <1>1, <2>1 DEF Unread
  <2>3. d <= run[r].age BY <1>0 DEF FiguresAge
  <2> HIDE DEF d
  <2> QED BY <2>2, <2>3, Bounds
<1>6. ASSUME NEW h \in Awaiting(r)
      PROVE  /\ h \in Requests /\ r \in handler[h].awaits
             /\ got(h) \in HandlerType
             /\ got(h).pc = handler[h].pc /\ got(h).age = handler[h].age
             /\ got(h).account = handler[h].account /\ got(h).account <= Lead
             /\ got(h).awaits = handler[h].awaits \ {r}
             /\ got(h).oldest = Oldest({handler[h].oldest, d})
             /\ {handler[h].oldest, d} \in SUBSET (0..Old)
             /\ got(h).oldest <= Lead
  <2>1. h \in Requests /\ r \in handler[h].awaits BY DEF Awaiting
  <2>2. handler[h] \in HandlerType BY <1>0, <2>1 DEF Typed
  <2>3. /\ handler[h].account \in 0..Old /\ handler[h].account <= Lead
        /\ handler[h].oldest \in 0..Old /\ handler[h].oldest <= Lead
    BY <2>1, AwaitedAccount
  <2> DEFINE o == Oldest({handler[h].oldest, d})
  <2> HIDE DEF d
  <2>4. {handler[h].oldest, d} \in SUBSET (0..Old) BY <1>5, <2>3
  <2>5. o \in 0..Old /\ o <= Lead
    <3>1. \A x \in {handler[h].oldest, d} : x <= Lead BY <1>5, <2>3, Bounds
    <3> QED BY <2>4, <3>1, OldestBound, Bounds
  <2>6. PICK y \in HandlerType : y = handler[h] BY <2>2
  <2>7. PICK x : x = got(h) OBVIOUS
  <2>8. PICK f : f = [y EXCEPT !.awaits = y.awaits \ {r}] OBVIOUS
  <2>9. x = [f EXCEPT !.oldest = o] BY <2>6, <2>7, <2>8
  <2> HIDE DEF o, got
  <2>10. /\ f \in HandlerType /\ f.pc = y.pc /\ f.age = y.age /\ f.account = y.account
         /\ f.awaits = y.awaits \ {r}
    BY <2>8 DEF HandlerType
  <2>11. /\ x \in HandlerType /\ x.pc = y.pc /\ x.age = y.age /\ x.account = y.account
         /\ x.awaits = y.awaits \ {r} /\ x.oldest = o
    BY <2>5, <2>9, <2>10 DEF HandlerType
  <2> QED BY <2>1, <2>3, <2>4, <2>5, <2>6, <2>7, <2>11 DEF o
<1> HIDE DEF d, got
<1>7. Idle \in HandlerType /\ Idle.pc = "idle" /\ Idle.awaits = {}
  BY Bounds DEF Idle, HandlerType
<1>8. /\ \A h \in done : h \in Awaiting(r) /\ handler[h].awaits = {r}
      /\ \A h \in Awaiting(r) \ done : handler[h].awaits # {r}
      /\ \A h \in Requests : h \in done => handler'[h] = Idle
      /\ \A h \in Requests : h \in Awaiting(r) \ done => handler'[h] = got(h)
      /\ \A h \in Requests : h \notin Awaiting(r) => handler'[h] = handler[h] /\ r \notin handler[h].awaits
  BY <1>1 DEF Awaiting
<1> HIDE DEF done
<1>9. ASSUME NEW h \in done,
             pairCache' = [age |-> 0, oldest |-> Oldest({got(h).account, got(h).oldest})]
      PROVE  /\ pairCache' \in [age : -1..Old, oldest : -1..Old]
             /\ PairAge'
  <2>1. h \in Awaiting(r) BY <1>8
  <2>2. got(h) \in HandlerType /\ got(h).account <= Lead /\ got(h).oldest <= Lead BY <1>6, <2>1
  <2>3. PICK a, o : a = got(h).account /\ o = got(h).oldest OBVIOUS
  <2>4. a \in 0..Old /\ o \in 0..Old /\ a <= Lead /\ o <= Lead BY <2>2, <2>3 DEF HandlerType
  <2>5. {a, o} \in SUBSET (0..Old) BY <2>4
  <2>6. PICK m : m = Oldest({a, o}) OBVIOUS
  <2>7. m \in 0..Old /\ m <= Lead
    <3>1. \A x \in {a, o} : x <= Lead BY <2>4
    <3> QED BY <2>5, <2>6, <3>1, OldestBound, Bounds
  <2>8. pairCache' = [age |-> 0, oldest |-> m] BY <1>9, <2>3, <2>6
  <2> QED BY <2>7, <2>8, Bounds DEF PairAge
<1>10. Typed'
  <2>1. pairCache' \in [age : -1..Old, oldest : -1..Old] BY <1>0, <1>2, <1>9 DEF Typed
  <2>2. \A h \in Requests : handler'[h] \in HandlerType
    <3>1. ASSUME NEW h \in Requests PROVE handler'[h] \in HandlerType
      <4>1. CASE h \in done BY <1>7, <1>8, <4>1
      <4>2. CASE h \in Awaiting(r) \ done BY <1>6, <1>8, <4>2
      <4>3. CASE h \notin Awaiting(r) BY <1>0, <1>8, <4>3 DEF Typed
      <4> QED BY <1>8, <4>1, <4>2, <4>3
    <3> QED BY <3>1
  <2>3. handler' \in [Requests -> HandlerType] BY <1>1, <2>2
  <2>4. DOMAIN simCache' \subseteq Getters /\ simCache' \in [DOMAIN simCache' -> [age : 0..Old, data : 0..Old]]
    <3>1. [age |-> 0, data |-> d] \in [age : 0..Old, data : 0..Old] BY <1>5, Bounds
    <3> QED BY <1>0, <1>1, <1>4, <3>1 DEF Typed
  <2> QED BY <1>3, <2>1, <2>3, <2>4 DEF Typed
<1>11. AwaitsRuns'
  <2>1. ASSUME NEW h \in Requests
        PROVE  /\ handler'[h].awaits \subseteq DOMAIN run'
               /\ handler'[h].pc = "sims" <=> handler'[h].awaits # {}
    <3>0. /\ handler[h].awaits \subseteq DOMAIN run
          /\ handler[h].pc = "sims" <=> handler[h].awaits # {}
      BY <1>0 DEF AwaitsRuns
    <3>1. CASE h \in done BY <1>7, <1>8, <3>1
    <3>2. CASE h \in Awaiting(r) \ done
      <4>1. handler'[h].awaits = handler[h].awaits \ {r} /\ handler'[h].pc = handler[h].pc
        BY <1>6, <1>8, <3>2
      <4>2. r \in handler[h].awaits /\ handler[h].awaits # {r} BY <1>6, <1>8, <3>2
      <4> QED BY <1>3, <3>0, <4>1, <4>2
    <3>3. CASE h \notin Awaiting(r) BY <1>3, <1>8, <3>0, <3>3
    <3> QED BY <1>8, <3>1, <3>2, <3>3
  <2> QED BY <2>1 DEF AwaitsRuns
<1>12. RunsFollowCache'
  <2>1. ASSUME NEW q \in DOMAIN run', q[1] \in DOMAIN simCache'
        PROVE  simCache'[q[1]].age >= SimTtl + run'[q].age \/ simCache'[q[1]].age = Old
    <3>1. q \in DOMAIN run /\ run'[q] = run[q] /\ q[1] # r[1] BY <1>3
    <3>2. q[1] \in DOMAIN simCache /\ simCache'[q[1]] = simCache[q[1]] BY <1>1, <2>1, <3>1
    <3> QED BY <1>0, <3>1, <3>2 DEF RunsFollowCache
  <2> QED BY <2>1 DEF RunsFollowCache
<1>13. FiguresAge'
  <2>1. \A q \in DOMAIN run' : run'[q].data <= run'[q].age BY <1>0, <1>3 DEF FiguresAge
  <2>2. ASSUME NEW g \in DOMAIN simCache' PROVE simCache'[g].data <= simCache'[g].age + MaxWait
    <3>1. CASE g = r[1]
      <4>1. simCache'[g].data = d /\ simCache'[g].age = 0 BY <1>1, <3>1
      <4> QED BY <1>5, <4>1, Bounds
    <3>2. CASE g # r[1] BY <1>0, <1>1, <3>2 DEF FiguresAge
    <3> QED BY <3>1, <3>2
  <2> QED BY <2>1, <2>2 DEF FiguresAge
<1>14. RequestsAge'
  <2>1. ASSUME NEW h \in Requests PROVE RequestAge(h)'
    <3>1. CASE h \in done BY <1>7, <1>8, <3>1 DEF RequestAge
    <3>2. CASE h \in Awaiting(r) \ done
      <4>1. /\ handler'[h].awaits = handler[h].awaits \ {r}
            /\ handler'[h].account = handler[h].account
            /\ handler'[h].oldest = Oldest({handler[h].oldest, d})
            /\ handler'[h].pc = handler[h].pc
            /\ {handler[h].oldest, d} \in SUBSET (0..Old)
        BY <1>6, <1>8, <3>2
      <4>2. handler[h].awaits \subseteq DOMAIN run /\ handler'[h].pc # "meta"
        BY <1>0, <1>6, <3>2, <4>1 DEF AwaitsRuns
      <4>3. ASSUME NEW q \in handler[h].awaits \ {r}
            PROVE  /\ handler'[h].account <= 2 * MaxWait + run'[q].age
                   /\ handler'[h].oldest <= MaxWait + SimTtl - 1 + run'[q].age
        <5>1. q \in DOMAIN run' /\ run'[q] = run[q] BY <1>3, <4>2
        <5>2. run[q].age \in 0..MaxWait BY <1>0, <4>2 DEF Typed
        <5>3. /\ handler[h].account <= 2 * MaxWait + run[q].age
              /\ handler[h].oldest <= MaxWait + SimTtl - 1 + run[q].age
          BY <1>0 DEF RequestsAge, RequestAge
        <5>4. PICK n : n = MaxWait + SimTtl - 1 + run[q].age OBVIOUS
        <5>5. n \in Nat /\ d <= n BY <1>5, <5>2, <5>4, Bounds
        <5>6. \A x \in {handler[h].oldest, d} : x <= n BY <5>3, <5>4, <5>5
        <5>7. Oldest({handler[h].oldest, d}) <= n BY <4>1, <5>5, <5>6, OldestBound
        <5> QED BY <4>1, <5>1, <5>3, <5>4, <5>7
      <4> QED BY <4>1, <4>2, <4>3 DEF RequestAge
    <3>3. CASE h \notin Awaiting(r)
      <4>1. handler'[h] = handler[h] /\ \A q \in handler[h].awaits : run'[q] = run[q]
        BY <1>0, <1>3, <1>8, <3>3 DEF AwaitsRuns
      <4> QED BY <1>0, <4>1 DEF RequestsAge, RequestAge
    <3> QED BY <1>8, <3>1, <3>2, <3>3
  <2> QED BY <2>1 DEF RequestsAge
<1>15. PairAge'
  <2>1. CASE pairCache' = pairCache BY <1>0, <2>1 DEF PairAge
  <2> QED BY <1>2, <1>9, <2>1
<1> QED BY <1>3, <1>10, <1>11, <1>12, <1>13, <1>14, <1>15 DEF PairInv

LEMMA TickPreserves ==
  ASSUME PairInv, Tick
  PROVE  PairInv'
<1> DEFINE ticked(h) == [handler[h] EXCEPT
                           !.age = IF handler[h].pc = "sims" THEN 0 ELSE @ + 1,
                           !.account = IF handler[h].pc = "pair" THEN 0 ELSE Older(@),
                           !.oldest = IF handler[h].pc = "sims" THEN Older(@) ELSE 0]
<1>0. Typed /\ OneRun /\ AwaitsRuns /\ RunsFollowCache /\ FiguresAge /\ RequestsAge /\ PairAge
  BY DEF PairInv
<1>1. /\ handler' = [h \in Requests |->
                       IF handler[h].pc = "idle" THEN handler[h] ELSE ticked(h)]
      /\ run' = [r \in DOMAIN run |-> [age |-> run[r].age + 1, data |-> Older(run[r].data)]]
      /\ simCache' = [g \in DOMAIN simCache |->
                        [age |-> Older(simCache[g].age), data |-> Older(simCache[g].data)]]
      /\ pairCache' = [age |-> Older(pairCache.age), oldest |-> Older(pairCache.oldest)]
      /\ inFlight' = inFlight /\ thrown' = thrown
  BY DEF Tick
<1>2. ASSUME NEW h \in Requests, handler[h].pc # "idle"
      PROVE  /\ ticked(h) \in HandlerType
             /\ ticked(h).pc = handler[h].pc /\ ticked(h).awaits = handler[h].awaits
             /\ handler[h].pc = "meta" =>
                  ticked(h).age = handler[h].age + 1 /\ ticked(h).account <= handler[h].account + 1
             /\ handler[h].pc = "sims" =>
                  /\ ticked(h).account <= handler[h].account + 1
                  /\ ticked(h).oldest <= handler[h].oldest + 1
  <2>1. PICK y \in HandlerType : y = handler[h] BY <1>0 DEF Typed
  <2>2. y.age \in 0..MaxWait /\ y.account \in 0..Old /\ y.oldest \in 0..Old BY DEF HandlerType
  <2>3. PICK a : a = IF y.pc = "sims" THEN 0 ELSE y.age + 1 OBVIOUS
  <2>4. PICK b : b = IF y.pc = "pair" THEN 0 ELSE Older(y.account) OBVIOUS
  <2>5. PICK c : c = IF y.pc = "sims" THEN Older(y.oldest) ELSE 0 OBVIOUS
  <2>6. a \in 0..MaxWait /\ (y.pc = "meta" => a = y.age + 1)
    <3>1. y.pc \in {"pair", "meta", "sims"} BY <1>2, <2>1 DEF HandlerType
    <3>2. y.pc \in {"pair", "meta"} => y.age < MaxWait BY <2>1 DEF Tick, Patient
    <3> QED BY <2>2, <2>3, <3>1, <3>2, Bounds
  <2>7. \A n \in 0..Old : Older(n) \in 0..Old /\ Older(n) <= n + 1
    <3>1. ASSUME NEW n \in 0..Old PROVE Older(n) \in 0..Old /\ Older(n) <= n + 1
      <4>1. n \in -1..Old /\ n # -1 BY Bounds
      <4> QED BY <4>1, OlderType, Bounds
    <3> QED BY <3>1
  <2>8. b \in 0..Old /\ (y.pc # "pair" => b <= y.account + 1) BY <2>2, <2>4, <2>7, Bounds
  <2>9. c \in 0..Old /\ (y.pc = "sims" => c <= y.oldest + 1) BY <2>2, <2>5, <2>7, Bounds
  <2>10. PICK x : x = ticked(h) OBVIOUS
  <2>11. PICK f : f = [y EXCEPT !.age = a] OBVIOUS
  <2>12. PICK k : k = [f EXCEPT !.account = b] OBVIOUS
  <2>13. x = [k EXCEPT !.oldest = c] BY <2>1, <2>3, <2>4, <2>5, <2>10, <2>11, <2>12
  <2> HIDE DEF ticked
  <2>14. f \in HandlerType /\ f.pc = y.pc /\ f.awaits = y.awaits /\ f.age = a
    BY <2>6, <2>11 DEF HandlerType
  <2>15. k \in HandlerType /\ k.pc = y.pc /\ k.awaits = y.awaits /\ k.age = a /\ k.account = b
    BY <2>8, <2>12, <2>14 DEF HandlerType
  <2>16. /\ x \in HandlerType /\ x.pc = y.pc /\ x.awaits = y.awaits
         /\ x.age = a /\ x.account = b /\ x.oldest = c
    BY <2>9, <2>13, <2>15 DEF HandlerType
  <2> QED BY <2>1, <2>6, <2>8, <2>9, <2>10, <2>16
<1> HIDE DEF ticked
<1>3. /\ \A h \in Requests : handler[h].pc = "idle" => handler'[h] = handler[h]
      /\ \A h \in Requests : handler[h].pc # "idle" => handler'[h] = ticked(h)
  BY <1>1
<1>4. ASSUME NEW r \in DOMAIN run
      PROVE  /\ run[r].age \in 0..MaxWait /\ run'[r].age = run[r].age + 1
             /\ run'[r].age \in 0..MaxWait
             /\ run'[r].data \in Unread..Old /\ run'[r].data <= run'[r].age
             /\ run'[r] \in [age : 0..MaxWait, data : Unread..Old]
  <2>1. run[r] \in [age : 0..MaxWait, data : Unread..Old] BY <1>0 DEF Typed
  <2>2. PICK a, x : a = run[r].age /\ x = run[r].data OBVIOUS
  <2>3. a \in 0..MaxWait /\ x \in -1..Old /\ a < MaxWait /\ x <= a
    BY <1>0, <2>1, <2>2 DEF Tick, Patient, FiguresAge, Unread
  <2>4. run'[r] = [age |-> a + 1, data |-> Older(x)] BY <1>1, <2>2
  <2>5. Older(x) \in -1..Old /\ Older(x) <= a + 1 BY <2>3, OlderType, Bounds
  <2> QED BY <2>2, <2>3, <2>4, <2>5, Bounds DEF Unread
<1>5. ASSUME NEW g \in DOMAIN simCache
      PROVE  /\ simCache'[g] \in [age : 0..Old, data : 0..Old]
             /\ simCache'[g].data <= simCache'[g].age + MaxWait
             /\ simCache'[g].age = simCache[g].age + 1 \/ simCache'[g].age = Old
             /\ simCache[g].age = Old => simCache'[g].age = Old
             /\ simCache[g].age \in 0..Old
  <2>1. simCache[g] \in [age : 0..Old, data : 0..Old] BY <1>0 DEF Typed
  <2>2. PICK a, x : a = simCache[g].age /\ x = simCache[g].data OBVIOUS
  <2>3. a \in 0..Old /\ x \in 0..Old /\ x <= a + MaxWait
    BY <1>0, <2>1, <2>2 DEF FiguresAge
  <2>4. simCache'[g] = [age |-> Older(a), data |-> Older(x)] BY <1>1, <2>2
  <2>5. Older(a) \in 0..Old /\ (Older(a) = a + 1 \/ (a = Old /\ Older(a) = Old))
    BY <2>3, Bounds DEF Older
  <2>6. Older(x) \in 0..Old /\ Older(x) <= x + 1
    BY <2>3, Bounds DEF Older
  <2>7. Older(x) <= Older(a) + MaxWait BY <2>3, <2>5, <2>6, Bounds
  <2> QED BY <2>2, <2>3, <2>4, <2>5, <2>6, <2>7, Bounds
<1>6. /\ pairCache' \in [age : -1..Old, oldest : -1..Old]
      /\ PairAge'
  <2>1. pairCache \in [age : -1..Old, oldest : -1..Old] BY <1>0 DEF Typed
  <2>2. PICK a, x : a = pairCache.age /\ x = pairCache.oldest OBVIOUS
  <2>3. /\ a \in -1..Old /\ x \in -1..Old /\ x <= Lead + a /\ (a = -1 => x = -1)
    BY <1>0, <2>1, <2>2 DEF PairAge, NoPair
  <2>4. PICK b, y : b = Older(a) /\ y = Older(x) OBVIOUS
  <2>5. pairCache' = [age |-> b, oldest |-> y] BY <1>1, <2>2, <2>4
  <2>6. /\ b \in -1..Old /\ (b = a + 1 \/ (b = a /\ a \in {-1, Old})) /\ (a = -1 => b = -1)
        /\ y \in -1..Old /\ (y = x + 1 \/ (y = x /\ x \in {-1, Old})) /\ (x = -1 => y = -1)
    BY <2>3, <2>4, OlderType
  <2>7. y <= Lead + b /\ (b = -1 => y = -1)
    <3>1. CASE a = -1 BY <2>3, <2>6, <3>1, Bounds
    <3>2. CASE a # -1 /\ b = a + 1 BY <2>3, <2>6, <3>2, Bounds
    <3>3. CASE a = Old /\ b = Old BY <2>3, <2>6, <3>3, Bounds
    <3> QED BY <2>6, <3>1, <3>2, <3>3
  <2> QED BY <2>5, <2>6, <2>7 DEF PairAge, NoPair
<1>7. Typed'
  <2>1. \A h \in Requests : handler'[h] \in HandlerType BY <1>0, <1>2, <1>3 DEF Typed
  <2>2. handler' \in [Requests -> HandlerType] BY <1>1, <2>1
  <2>3. DOMAIN run' = DOMAIN run /\ run' \in [DOMAIN run' -> [age : 0..MaxWait, data : Unread..Old]]
    BY <1>1, <1>4
  <2>4. DOMAIN simCache' = DOMAIN simCache /\ simCache' \in [DOMAIN simCache' -> [age : 0..Old, data : 0..Old]]
    BY <1>1, <1>5
  <2> QED BY <1>0, <1>1, <1>6, <2>2, <2>3, <2>4 DEF Typed
<1>8. DOMAIN run' = DOMAIN run /\ DOMAIN simCache' = DOMAIN simCache BY <1>1
<1>9. OneRun' BY <1>0, <1>1, <1>8 DEF OneRun
<1>10. AwaitsRuns'
  <2>1. \A h \in Requests : handler'[h].pc = handler[h].pc /\ handler'[h].awaits = handler[h].awaits
    BY <1>2, <1>3
  <2> QED BY <1>0, <1>8, <2>1 DEF AwaitsRuns
<1>11. RunsFollowCache'
  <2>1. ASSUME NEW r \in DOMAIN run, r[1] \in DOMAIN simCache
        PROVE  simCache'[r[1]].age >= SimTtl + run'[r].age \/ simCache'[r[1]].age = Old
    <3>1. simCache[r[1]].age >= SimTtl + run[r].age \/ simCache[r[1]].age = Old
      BY <1>0, <2>1 DEF RunsFollowCache
    <3>2. run[r].age \in 0..MaxWait /\ run'[r].age = run[r].age + 1 BY <1>4
    <3>3. /\ simCache'[r[1]].age = simCache[r[1]].age + 1 \/ simCache'[r[1]].age = Old
          /\ simCache[r[1]].age = Old => simCache'[r[1]].age = Old
          /\ simCache[r[1]].age \in 0..Old
      BY <1>5, <2>1
    <3> QED BY <3>1, <3>2, <3>3, Bounds
  <2> QED BY <1>8, <2>1 DEF RunsFollowCache
<1>12. FiguresAge' BY <1>4, <1>5, <1>8 DEF FiguresAge
<1>13. RequestsAge'
  <2>1. ASSUME NEW h \in Requests PROVE RequestAge(h)'
    <3>0. RequestAge(h) /\ handler[h].awaits \subseteq DOMAIN run
          /\ (handler[h].awaits # {} => handler[h].pc = "sims")
      BY <1>0 DEF RequestsAge, AwaitsRuns
    <3>1. CASE handler[h].pc = "idle"
      <4>1. handler'[h] = handler[h] /\ handler[h].awaits = {} BY <1>3, <3>0, <3>1
      <4> QED BY <3>1, <4>1 DEF RequestAge
    <3>2. CASE handler[h].pc # "idle"
      <4>1. /\ handler'[h] = ticked(h) /\ handler'[h] \in HandlerType
            /\ handler[h] \in HandlerType
        BY <1>0, <1>2, <1>3, <3>2 DEF Typed
      <4>2. handler'[h].pc = handler[h].pc /\ handler'[h].awaits = handler[h].awaits
        BY <1>2, <3>2, <4>1
      <4>3. /\ handler'[h].account \in 0..Old /\ handler'[h].oldest \in 0..Old
            /\ handler[h].account \in 0..Old /\ handler[h].oldest \in 0..Old
            /\ handler[h].age \in 0..MaxWait
        BY <4>1 DEF HandlerType
      <4>4. ASSUME handler'[h].pc = "meta"
            PROVE  handler'[h].account <= MaxWait + handler'[h].age
        <5>1. handler[h].account <= MaxWait + handler[h].age BY <3>0, <4>2, <4>4 DEF RequestAge
        <5>2. handler'[h].age = handler[h].age + 1 /\ handler'[h].account <= handler[h].account + 1
          BY <1>2, <3>2, <4>1, <4>2, <4>4
        <5> QED BY <4>3, <5>1, <5>2, Bounds
      <4>5. ASSUME NEW r \in handler'[h].awaits
            PROVE  /\ handler'[h].account <= 2 * MaxWait + run'[r].age
                   /\ handler'[h].oldest <= MaxWait + SimTtl - 1 + run'[r].age
        <5>1. r \in handler[h].awaits /\ r \in DOMAIN run /\ handler[h].pc = "sims"
          BY <3>0, <4>2
        <5>2. /\ handler[h].account <= 2 * MaxWait + run[r].age
              /\ handler[h].oldest <= MaxWait + SimTtl - 1 + run[r].age
          BY <3>0, <5>1 DEF RequestAge
        <5>3. /\ handler'[h].account <= handler[h].account + 1
              /\ handler'[h].oldest <= handler[h].oldest + 1
          BY <1>2, <3>2, <4>1, <5>1
        <5>4. run[r].age \in 0..MaxWait /\ run'[r].age = run[r].age + 1 BY <1>4, <5>1
        <5> QED BY <4>3, <5>2, <5>3, <5>4, Bounds
      <4> QED BY <4>4, <4>5 DEF RequestAge
    <3> QED BY <3>1, <3>2
  <2> QED BY <2>1 DEF RequestsAge
<1> QED BY <1>6, <1>7, <1>9, <1>10, <1>11, <1>12, <1>13 DEF PairInv

-----------------------------------------------------------------------------
\* PairInv holds in every state PairStateCache reaches, for any number of
\* requests and getters, and for every lifetime and wait.
THEOREM PairStateInvariant == Spec => []PairInv
<1>1. PairInv /\ [Next]_vars => PairInv'
  <2> SUFFICES ASSUME PairInv, [Next]_vars PROVE PairInv' OBVIOUS
  <2>1. ASSUME NEW h \in Requests, Ask(h) \/ PairRead(h) \/ PairFails(h) \/ CallGetters(h)
        PROVE  PairInv'
    BY <2>1, AskPreserves, PairReadPreserves, PairFailsPreserves, CallGettersPreserves
  <2>2. ASSUME NEW r \in DOMAIN run, Simulate(r) \/ RunEnds(r) \/ RunFails(r)
        PROVE  PairInv'
    BY <2>2, SimulatePreserves, RunEndsPreserves, RunFailsPreserves
  <2>3. CASE Cleanup BY <2>3, CleanupPreserves
  <2>4. CASE Tick BY <2>4, TickPreserves
  <2>5. CASE UNCHANGED vars
    BY <2>5 DEF vars, PairInv, Typed, OneRun, AwaitsRuns, RunsFollowCache, FiguresAge,
                RequestsAge, RequestAge, PairAge
  <2> QED BY <2>1, <2>2, <2>3, <2>4, <2>5, Zenon DEF Next
<1> QED BY <1>1, PairInit, PTL DEF Spec

\* A getter has at most one simulation in flight, started no earlier than SimTtl
\* after the last one that succeeded, and inFlightRequests names those in flight
\* and what closures that threw at once have left.
THEOREM OneSimulation == Spec => []OneSimulationPerGetter
<1>1. PairInv => OneSimulationPerGetter
  <2> SUFFICES ASSUME PairInv PROVE OneSimulationPerGetter OBVIOUS
  <2>1. Typed /\ OneRun /\ AwaitsRuns /\ RunsFollowCache BY DEF PairInv
  <2>2. TypeOK
    <3>1. ASSUME NEW h \in Requests
          PROVE  /\ handler[h].pc \in {"idle", "pair", "meta", "sims"}
                 /\ handler[h].age \in 0..MaxWait
                 /\ {handler[h].account, handler[h].oldest} \subseteq 0..Old
                 /\ handler[h].awaits \subseteq Getters \X Requests
      <4>1. handler[h] \in HandlerType BY <2>1 DEF Typed
      <4> QED BY <4>1 DEF HandlerType
    <3>2. ASSUME NEW h \in Requests PROVE handler[h].pc = "sims" <=> handler[h].awaits # {}
      BY <2>1 DEF AwaitsRuns
    <3>3. \A r \in DOMAIN run : run[r].age \in 0..MaxWait /\ run[r].data \in Unread..Old
      BY <2>1 DEF Typed
    <3>4. \A g \in DOMAIN simCache : {simCache[g].age, simCache[g].data} \subseteq 0..Old
      BY <2>1 DEF Typed
    <3>5. {pairCache.age, pairCache.oldest} \subseteq -1..Old BY <2>1 DEF Typed
    <3>6. thrown \subseteq Getters BY <2>1 DEF Typed, OneRun
    <3> QED BY <2>1, <3>1, <3>2, <3>3, <3>4, <3>5, <3>6 DEF TypeOK, Typed
  <2> QED BY <2>1, <2>2 DEF OneSimulationPerGetter, OneRun, RunsFollowCache
<1> QED BY <1>1, PairStateInvariant, PTL

\* What a request is answered from the cache was true of the chain at most MaxAge
\* ago, whatever the lifetimes of the two caches and the longest wait.
THEOREM AnswersRecent == Spec => []AnswersAreRecent
<1>1. PairInv => AnswersAreRecent
  <2> SUFFICES ASSUME PairInv, PairIsFresh PROVE pairCache.oldest <= MaxAge
    BY DEF AnswersAreRecent
  <2>1. pairCache.age \in -1..Old /\ pairCache.oldest \in -1..Old BY DEF PairInv, Typed
  <2>2. pairCache.oldest <= Lead + pairCache.age /\ pairCache.age <= PairTtl
    BY DEF PairInv, PairAge, PairIsFresh
  <2> QED BY <2>1, <2>2, Bounds
<1> QED BY <1>1, PairStateInvariant, PTL

-----------------------------------------------------------------------------
(* Part 2: PagedReads *)

\* The rows that are sorted before row r.
Ahead(r) == {q \in Rows : Before(q, r)}

\* What the listing's kind says of its keys: a time or an id is nobody else's,
\* and none is later than now; only listings by time have rows that move.
KeysApart ==
  /\ ~listing.moves => writes = 0
  /\ listing.by # "amount" =>
       /\ \A r \in Rows : key[r] <= rows + writes
       /\ \A q, r \in Rows : key[q] = key[r] => q = r

\* total and late add up to the table while its page is selected.
Counted ==
  /\ late <= rows
  /\ pc = "select" => rows = total + late

\* A page is held from its SELECT to its answer.
PageHeld == pc # "answer" => page = {}

\* Of a row that stays, is not seen and not on the page, the page's end is behind.
NonePassed ==
  \A r \in Still \ seen :
    /\ Cardinality(Ahead(r)) >= offset
    /\ pc = "answer" => r \in page \/ Cardinality(Ahead(r)) >= offset + limit

\* On the last page, and after it.
LastMissed ==
  /\ pc = "answer" /\ offset + limit >= total => Cardinality((Still \ seen) \ page) <= late
  /\ pc = "done" => Cardinality(Still \ seen) <= late

ReadInv == ReadTypeOK /\ KeysApart /\ Counted /\ PageHeld /\ NonePassed /\ LastMissed

-----------------------------------------------------------------------------
(* The listings, the order of their rows, and what the rows become *)

\* Rows move only in listings sorted by the time of the last write, latest first.
LEMMA ListingKinds ==
  ASSUME listing \in Listings
  PROVE  /\ listing.by \in {"id", "time", "amount"}
         /\ listing.desc \in BOOLEAN
         /\ listing.moves => listing.by = "time" /\ listing.desc
         /\ listing.entries \in {"row", "pool", "position", "liquidity", "event"}
<1>1. listing \in AllListings BY ListingsAssumption
<1>2. CASE listing \in {Swaps, Pools, Positions, LiquidityPositions, LendingHistory}
  <2>1. CASE listing = Swaps BY <2>1 DEF Swaps
  <2>2. CASE listing = Pools BY <2>2 DEF Pools
  <2>3. CASE listing = Positions BY <2>3 DEF Positions
  <2>4. CASE listing = LiquidityPositions BY <2>4 DEF LiquidityPositions
  <2>5. CASE listing = LendingHistory BY <2>5 DEF LendingHistory
  <2> QED BY <1>2, <2>1, <2>2, <2>3, <2>4, <2>5
<1>3. CASE listing \in UserHistory BY <1>3 DEF UserHistory
<1> QED BY <1>1, <1>2, <1>3 DEF AllListings

\* An answered row has entries of its own only, and at least one when it is a
\* position that holds collateral or anything but a position.
LEMMA EntriesOfRow ==
  ASSUME listing \in Listings, NEW r, NEW ok
  PROVE  /\ \A e \in Entries(r, ok) : e.row = r
         /\ (listing.entries = "position" => holding[r] # {}) => Entries(r, ok) # {}
<1>0. listing.entries \in {"row", "pool", "position", "liquidity", "event"} BY ListingKinds
<1>1. CASE listing.entries = "row"
  <2>1. Entries(r, ok) = {[row |-> r, side |-> "row", from |-> "row"]} BY <1>1, Zenon DEF Entries
  <2> QED BY <2>1
<1>2. CASE listing.entries = "pool"
  <2>1. Entries(r, ok) = PoolEntry(r, ok) BY <1>2, Zenon DEF Entries
  <2> QED BY <2>1 DEF PoolEntry
<1>3. CASE listing.entries = "position"
  <2>1. Entries(r, ok) = PositionEntries(r, ok) BY <1>3, Zenon DEF Entries
  <2>2. \A e \in PositionEntries(r, ok) : e.row = r BY DEF PositionEntries
  <2>3. ASSUME holding[r] # {} PROVE PositionEntries(r, ok) # {}
    <3>1. PICK c \in holding[r] : TRUE BY <2>3
    <3>2. [row |-> r, side |-> c, from |-> IF ok THEN "chain" ELSE "row"] \in PositionEntries(r, ok)
      BY <3>1 DEF PositionEntries
    <3> QED BY <3>2
  <2> QED BY <1>3, <2>1, <2>2, <2>3
<1>4. CASE listing.entries = "liquidity"
  <2>1. Entries(r, ok) = LiquidityEntry(r, ok) BY <1>4, Zenon DEF Entries
  <2> QED BY <2>1 DEF LiquidityEntry
<1>5. CASE listing.entries = "event"
  <2>1. Entries(r, ok) = LendingEntry(r) BY <1>5, Zenon DEF Entries
  <2> QED BY <2>1 DEF LendingEntry
<1> QED BY <1>0, <1>1, <1>2, <1>3, <1>4, <1>5

\* The rows are as many as rows says, and so finite, with all their subsets.
LEMMA RowsFinite ==
  ASSUME ReadTypeOK
  PROVE  /\ rows \in Nat /\ IsFiniteSet(Rows) /\ Cardinality(Rows) = rows
         /\ \A S \in SUBSET Rows : IsFiniteSet(S) /\ Cardinality(S) \in Nat
<1>1. rows \in Nat BY BoundsAssumption DEF ReadTypeOK
<1>2. IsFiniteSet(1..rows) /\ Cardinality(1..rows) = rows BY <1>1, FS_Interval
<1> QED BY <1>1, <1>2, FS_Subset, FS_CardinalityType DEF Rows

LEMMA SmallerCard ==
  ASSUME NEW S, NEW T, IsFiniteSet(T), S \subseteq T
  PROVE  IsFiniteSet(S) /\ Cardinality(S) \in Nat /\ Cardinality(T) \in Nat /\ Cardinality(S) <= Cardinality(T)
BY FS_Subset, FS_CardinalityType

\* Where the database puts a row that is alone with its key: right after the
\* rows before it.
LEMMA PlaceOfRow ==
  ASSUME ReadTypeOK, NEW pos \in Orders, NEW r \in Rows,
         \A q \in Rows \ {r} : key[q] # key[r]
  PROVE  Cardinality(Ahead(r)) = pos[r]
<1>1. /\ pos \in [Rows -> 0..(rows - 1)]
      /\ \A q, s \in Rows : q # s => pos[q] # pos[s] /\ (Before(q, s) => pos[q] < pos[s])
  BY DEF Orders
<1>2. rows \in Nat /\ IsFiniteSet(Rows) /\ Cardinality(Rows) = rows BY RowsFinite
<1>3. pos[r] \in 0..(rows - 1) /\ pos[r] \in Nat BY <1>1, <1>2
<1>4. pos \in Surjection(Rows, 0..(rows - 1))
  <2>1. pos \in Injection(Rows, 0..(rows - 1)) BY <1>1, Fun_IsInj
  <2>2. IsFiniteSet(0..(rows - 1)) /\ Cardinality(0..(rows - 1)) = rows
    BY <1>2, FS_Interval
  <2> QED BY <1>2, <2>1, <2>2, FS_Injection
<1>5. \A i \in 0..(rows - 1) : \E q \in Rows : pos[q] = i BY <1>4 DEF Surjection
<1>6. \A q \in Rows : key[q] \in Int /\ (q # r => key[q] # key[r]) BY DEF ReadTypeOK
<1>7. \A q \in Rows : q \in Ahead(r) <=> pos[q] < pos[r]
  <2>1. ASSUME NEW q \in Rows, q \in Ahead(r) PROVE pos[q] < pos[r]
    <3>1. Before(q, r) BY <2>1 DEF Ahead
    <3>2. q # r BY <1>6, <3>1 DEF Before
    <3> QED BY <1>1, <3>1, <3>2
  <2>2. ASSUME NEW q \in Rows, q \notin Ahead(r), pos[q] < pos[r] PROVE FALSE
    <3>1. ~Before(q, r) BY <2>2 DEF Ahead
    <3>2. q # r BY <1>3, <2>2
    <3>3. Before(r, q) BY <1>6, <3>1, <3>2 DEF Before
    <3>4. pos[r] < pos[q] BY <1>1, <3>2, <3>3
    <3>5. pos[q] \in 0..(rows - 1) BY <1>1
    <3> QED BY <1>2, <1>3, <2>2, <3>4, <3>5
  <2> QED BY <2>1, <2>2
<1> DEFINE f == [q \in Ahead(r) |-> pos[q]]
<1>8. f \in Bijection(Ahead(r), 0..(pos[r] - 1))
  <2>0. Ahead(r) \subseteq Rows BY DEF Ahead
  <2>1. f \in [Ahead(r) -> 0..(pos[r] - 1)]
    <3>1. ASSUME NEW q \in Ahead(r) PROVE pos[q] \in 0..(pos[r] - 1)
      <4>1. pos[q] \in 0..(rows - 1) /\ pos[q] < pos[r] BY <1>1, <1>7, <2>0
      <4> QED BY <1>2, <1>3, <4>1
    <3> QED BY <3>1
  <2>2. \A a, b \in Ahead(r) : f[a] = f[b] => a = b BY <1>1, <2>0
  <2>3. \A i \in 0..(pos[r] - 1) : \E q \in Ahead(r) : f[q] = i
    <3>1. ASSUME NEW i \in 0..(pos[r] - 1) PROVE \E q \in Ahead(r) : f[q] = i
      <4>1. i \in 0..(rows - 1) /\ i < pos[r] BY <1>2, <1>3
      <4>2. PICK q \in Rows : pos[q] = i BY <1>5, <4>1
      <4> QED BY <1>7, <4>1, <4>2
    <3> QED BY <3>1
  <2> QED BY <2>1, <2>2, <2>3 DEF Bijection, Injection, Surjection, IsInjective
<1>9. ExistsBijection(Ahead(r), 0..(pos[r] - 1)) BY <1>8 DEF ExistsBijection
<1>10. IsFiniteSet(Ahead(r)) BY <1>2, FS_Subset DEF Ahead
<1>11. Cardinality(0..(pos[r] - 1)) = pos[r] BY <1>3, FS_Interval
<1> QED BY <1>9, <1>10, <1>11, FS_Bijection

-----------------------------------------------------------------------------
(* Every step keeps ReadInv *)

LEMMA StillRow ==
  ASSUME ReadTypeOK, NEW r \in Still
  PROVE  /\ r \in Rows /\ r \in start /\ r \notin moved
         /\ \A q \in Rows \ {r} : key[q] # key[r]
         /\ listing.entries = "position" => holding[r] # {}
BY DEF Still, ReadTypeOK

LEMMA AheadFinite ==
  ASSUME ReadTypeOK, NEW r
  PROVE  IsFiniteSet(Ahead(r)) /\ Cardinality(Ahead(r)) \in Nat
BY RowsFinite DEF Ahead

\* A write of the indexer may unsettle a row, never settle one, and puts rows
\* before the settled ones, never behind: what NonePassed and LastMissed say stays.
LEMMA WritePreserves ==
  ASSUME ReadInv, ReadTypeOK', Counted',
         Still' \subseteq Still,
         \A r \in Still : r \in Still' => Ahead(r) \subseteq Ahead(r)',
         UNCHANGED <<pc, limit, offset, total, page, seen>>,
         pc = "select" \/ late' = late
  PROVE  PageHeld' /\ NonePassed' /\ LastMissed'
<1>0. ReadTypeOK /\ Counted /\ PageHeld /\ NonePassed /\ LastMissed BY DEF ReadInv
<1>1. PageHeld' BY <1>0 DEF PageHeld
<1>2. NonePassed'
  <2>1. ASSUME NEW r \in Still' \ seen
        PROVE  /\ Cardinality(Ahead(r)') >= offset
               /\ pc = "answer" => r \in page \/ Cardinality(Ahead(r)') >= offset + limit
    <3>1. r \in Still \ seen BY <2>1
    <3>2. IsFiniteSet(Ahead(r)) /\ Cardinality(Ahead(r)) \in Nat BY <1>0, AheadFinite
    <3>3. IsFiniteSet(Ahead(r)') /\ Cardinality(Ahead(r)') \in Nat
      <4>1. rows' \in Nat BY BoundsAssumption DEF ReadTypeOK
      <4>2. Ahead(r)' \subseteq 1..rows' BY DEF Ahead, Rows
      <4>3. IsFiniteSet(1..rows') BY <4>1, FS_Interval
      <4> QED BY <4>2, <4>3, SmallerCard
    <3>4. Cardinality(Ahead(r)) <= Cardinality(Ahead(r)') BY <2>1, <3>1, <3>3, FS_Subset
    <3>5. offset \in Nat /\ limit \in Nat BY <1>0 DEF ReadTypeOK
    <3>6. /\ Cardinality(Ahead(r)) >= offset
          /\ pc = "answer" => r \in page \/ Cardinality(Ahead(r)) >= offset + limit
      BY <1>0, <3>1 DEF NonePassed
    <3> QED BY <3>2, <3>3, <3>4, <3>5, <3>6
  <2> QED BY <2>1 DEF NonePassed
<1>3. LastMissed'
  <2>1. IsFiniteSet(Still \ seen) /\ IsFiniteSet((Still \ seen) \ page)
    <3>1. Still \subseteq Rows BY <1>0, StillRow
    <3> QED BY <1>0, <3>1, RowsFinite
  <2>2. PICK S, T : S = Still' /\ T = Still OBVIOUS
  <2>3. S \ seen \subseteq T \ seen /\ (S \ seen) \ page \subseteq (T \ seen) \ page BY <2>2
  <2>4. /\ Cardinality(S \ seen) \in Nat /\ Cardinality(T \ seen) \in Nat
        /\ Cardinality(S \ seen) <= Cardinality(T \ seen)
    BY <2>1, <2>2, <2>3, SmallerCard
  <2>5. /\ Cardinality((S \ seen) \ page) \in Nat /\ Cardinality((T \ seen) \ page) \in Nat
        /\ Cardinality((S \ seen) \ page) <= Cardinality((T \ seen) \ page)
    BY <2>1, <2>2, <2>3, SmallerCard
  <2>6. late \in Nat BY <1>0, BoundsAssumption DEF ReadTypeOK
  <2>7. ASSUME pc = "answer", offset + limit >= total
        PROVE  Cardinality((S \ seen) \ page) <= late'
    <3>1. Cardinality((T \ seen) \ page) <= late BY <1>0, <2>2, <2>7 DEF LastMissed
    <3>2. late' = late BY <2>7
    <3> QED BY <2>5, <2>6, <3>1, <3>2
  <2>8. ASSUME pc = "done" PROVE Cardinality(S \ seen) <= late'
    <3>1. Cardinality(T \ seen) <= late BY <1>0, <2>2, <2>8 DEF LastMissed
    <3>2. late' = late BY <2>8
    <3> QED BY <2>4, <2>6, <3>1, <3>2
  <2> QED BY <2>2, <2>7, <2>8 DEF LastMissed
<1> QED BY <1>1, <1>2, <1>3

LEMMA InsertPreserves ==
  ASSUME ReadInv, Insert
  PROVE  ReadInv'
<1>0. ReadTypeOK /\ KeysApart /\ Counted /\ PageHeld /\ NonePassed /\ LastMissed BY DEF ReadInv
<1> DEFINE n == rows + 1
<1>1. PICK k \in NewKeys(n) : key' = [r \in 1..n |-> IF r = n THEN k ELSE key[r]]
  BY DEF Insert
<1>2. PICK hd \in NewHoldings : holding' = [r \in 1..n |-> IF r = n THEN hd ELSE holding[r]]
  BY DEF Insert
<1>3. /\ rows < MaxRows /\ rows' = n
      /\ late' = IF pc = "select" THEN late + 1 ELSE late
      /\ UNCHANGED <<listing, writes, pc, limit, offset, total, page, seen, start, moved>>
  BY DEF Insert
<1>4. /\ rows \in Nat /\ writes \in Nat /\ late \in Nat /\ total \in Nat /\ listing \in Listings
      /\ MaxRows \in Nat
  BY <1>0, BoundsAssumption DEF ReadTypeOK
<1>5. n \in Nat /\ 1..n = (1..rows) \union {n} /\ n \notin 1..rows BY <1>4
<1>6. /\ k \in Int
      /\ listing.by = "id" => k = n
      /\ listing.by = "time" => k = rows + writes + 1
  <2>1. listing.by \in {"id", "time", "amount"} BY <1>4, ListingKinds
  <2>2. CASE listing.by = "id"
    <3>1. NewKeys(n) = {n} BY <2>2, Zenon DEF NewKeys
    <3> QED BY <1>1, <1>5, <2>2, <3>1
  <2>3. CASE listing.by = "time"
    <3>1. NewKeys(n) = {Now + 1} BY <2>3, Zenon DEF NewKeys
    <3> QED BY <1>1, <1>4, <2>3, <3>1 DEF Now
  <2>4. CASE listing.by = "amount"
    <3>1. NewKeys(n) = Amounts BY <2>4, Zenon DEF NewKeys
    <3> QED BY <1>1, <2>4, <3>1, BoundsAssumption
  <2> QED BY <2>1, <2>2, <2>3, <2>4
<1>7. hd \in SUBSET {0, 1} BY <1>2, HoldingsAssumption DEF NewHoldings
<1> HIDE DEF n
<1>8. /\ key' \in [1..n -> Int] /\ key'[n] = k /\ \A r \in 1..rows : key'[r] = key[r]
      /\ holding' \in [1..n -> SUBSET {0, 1}]
      /\ \A r \in 1..rows : holding'[r] = holding[r]
  BY <1>0, <1>1, <1>2, <1>5, <1>6, <1>7 DEF ReadTypeOK, Rows
<1>9. Counted' BY <1>0, <1>3, <1>4 DEF Counted, n
<1>10. ReadTypeOK'
  <2>1. rows' \in 0..MaxRows BY <1>3, <1>4 DEF n
  <2>2. late' \in 0..MaxRows
    <3>1. late' \in Nat /\ late' <= rows' BY <1>0, <1>3, <1>4, <1>9 DEF Counted
    <3> QED BY <1>4, <2>1, <3>1
  <2>3. Rows' = 1..n /\ Rows \subseteq Rows' BY <1>3, <1>5 DEF Rows
  <2> QED BY <1>0, <1>3, <1>8, <2>1, <2>2, <2>3 DEF ReadTypeOK
<1>11. KeysApart'
  <2>1. ASSUME listing.by # "amount"
        PROVE  /\ \A r \in 1..n : key'[r] <= n + writes
               /\ \A q, r \in 1..n : key'[q] = key'[r] => q = r
    <3>1. /\ \A r \in 1..rows : key[r] \in Int /\ key[r] <= rows + writes
          /\ \A q, r \in 1..rows : key[q] = key[r] => q = r
      BY <1>0, <2>1 DEF KeysApart, ReadTypeOK, Rows
    <3>2. k <= n + writes /\ k > rows + writes
      <4>1. CASE listing.by = "time" BY <1>4, <1>6, <4>1 DEF n
      <4>2. CASE listing.by = "id"
        <5>1. writes = 0
          BY <1>0, <1>4, <4>2, ListingKinds DEF KeysApart
        <5> QED BY <1>4, <1>6, <4>2, <5>1 DEF n
      <4> QED BY <1>4, <2>1, <4>1, <4>2, ListingKinds
    <3>3. \A r \in 1..rows : key'[r] <= n + writes /\ key'[r] # k
      <4>1. ASSUME NEW r \in 1..rows PROVE key'[r] <= n + writes /\ key'[r] # k
        <5>1. key'[r] = key[r] /\ key[r] \in Int /\ key[r] <= rows + writes BY <1>8, <3>1
        <5> QED BY <1>4, <1>6, <3>2, <5>1 DEF n
      <4> QED BY <4>1
    <3> QED BY <1>5, <1>8, <3>1, <3>2, <3>3
  <2> QED BY <1>0, <1>3, <2>1 DEF KeysApart, Rows
<1>12. ASSUME NEW r \in Still' PROVE r \in Still /\ Ahead(r) \subseteq Ahead(r)'
  <2>1. /\ r \in start \ moved /\ r \in 1..rows
        /\ \A q \in 1..n : q # r => key'[q] # key'[r]
        /\ listing.entries = "position" => holding'[r] # {}
    BY <1>0, <1>3 DEF Still, ReadTypeOK, Rows
  <2>2. r \in Still BY <1>5, <1>8, <2>1 DEF Still, Rows
  <2>3. \A q \in 1..rows : Before(q, r) => Before(q, r)'
    BY <1>3, <1>8, <2>1 DEF Before
  <2>4. Ahead(r) \subseteq Ahead(r)' BY <1>3, <1>5, <2>3 DEF Ahead, Rows
  <2> QED BY <2>2, <2>4
<1>13. PageHeld' /\ NonePassed' /\ LastMissed'
  <2>1. Still' \subseteq Still /\ \A r \in Still : r \in Still' => Ahead(r) \subseteq Ahead(r)'
    BY <1>12
  <2>2. UNCHANGED <<pc, limit, offset, total, page, seen>> BY <1>3
  <2>3. pc = "select" \/ late' = late BY <1>3
  <2> QED BY <1>9, <1>10, <2>1, <2>2, <2>3, WritePreserves
<1> QED BY <1>9, <1>10, <1>11, <1>13 DEF ReadInv

LEMMA UpsertPreserves ==
  ASSUME ReadInv, NEW w \in Rows, Upsert(w)
  PROVE  ReadInv'
<1>0. ReadTypeOK /\ KeysApart /\ Counted /\ PageHeld /\ NonePassed /\ LastMissed BY DEF ReadInv
<1>1. PICK hd \in NewHoldings : holding' = [holding EXCEPT ![w] = hd]
  BY DEF Upsert
<1>2. /\ listing.moves /\ writes < MaxWrites /\ writes' = writes + 1
      /\ key' = [key EXCEPT ![w] = Now + 1] /\ moved' = moved \union {w}
      /\ UNCHANGED <<listing, rows, pc, limit, offset, total, page, seen, start, late>>
  BY DEF Upsert
<1>3. rows \in Nat /\ writes \in Nat /\ listing \in Listings /\ MaxWrites \in Nat
  BY <1>0, BoundsAssumption DEF ReadTypeOK
<1>4. listing.by = "time" /\ listing.desc BY <1>2, <1>3, ListingKinds
<1>5. hd \in SUBSET {0, 1} BY <1>1, HoldingsAssumption DEF NewHoldings
<1>6. PICK k : k = Now + 1 OBVIOUS
<1>7. k \in Int /\ k = rows + writes + 1 BY <1>3, <1>6 DEF Now
<1>8. /\ key' \in [Rows -> Int] /\ key'[w] = k /\ \A r \in Rows : r # w => key'[r] = key[r]
      /\ holding' \in [Rows -> SUBSET {0, 1}]
      /\ \A r \in Rows : r # w => holding'[r] = holding[r]
  BY <1>0, <1>1, <1>2, <1>5, <1>6, <1>7 DEF ReadTypeOK
<1>9. Rows' = Rows BY <1>2 DEF Rows
<1>10. Counted' BY <1>0, <1>2 DEF Counted
<1>11. ReadTypeOK' BY <1>0, <1>2, <1>3, <1>8, <1>9 DEF ReadTypeOK
<1>12. \A r \in Rows : key[r] \in Int /\ key[r] <= rows + writes
  BY <1>0, <1>4 DEF KeysApart, ReadTypeOK
<1>13. KeysApart'
  <2>1. \A r \in Rows : key'[r] <= rows + writes'
    <3>1. ASSUME NEW r \in Rows PROVE key'[r] <= rows + writes'
      BY <1>2, <1>3, <1>7, <1>8, <1>12
    <3> QED BY <3>1
  <2>2. \A q, r \in Rows : key'[q] = key'[r] => q = r
    <3>1. ASSUME NEW q \in Rows, NEW r \in Rows, key'[q] = key'[r] PROVE q = r
      <4>1. CASE q # w /\ r # w BY <1>0, <1>4, <1>8, <3>1, <4>1 DEF KeysApart
      <4>2. CASE q = w /\ r # w BY <1>3, <1>7, <1>8, <1>12, <3>1, <4>2
      <4>3. CASE q # w /\ r = w BY <1>3, <1>7, <1>8, <1>12, <3>1, <4>3
      <4> QED BY <4>1, <4>2, <4>3
    <3> QED BY <3>1
  <2> QED BY <1>2, <1>9, <2>1, <2>2 DEF KeysApart
<1>14. ASSUME NEW r \in Still' PROVE r \in Still /\ Ahead(r) \subseteq Ahead(r)'
  <2>1. /\ r \in start \ moved /\ r \in Rows /\ r # w
        /\ listing.entries = "position" => holding[r] # {}
    BY <1>0, <1>2, <1>8 DEF Still, ReadTypeOK
  <2>2. \A q \in Rows : key[q] = key[r] => q = r BY <1>0, <1>4, <2>1 DEF KeysApart
  <2>3. r \in Still BY <2>1, <2>2 DEF Still
  <2>4. ASSUME NEW q \in Rows, Before(q, r) PROVE Before(q, r)'
    <3>1. key[q] > key[r] BY <1>4, <2>4 DEF Before
    <3>2. key'[r] = key[r] /\ key'[q] \in {key[q], k} /\ key[r] < k
      BY <1>3, <1>7, <1>8, <1>12, <2>1
    <3>3. key'[q] > key'[r] BY <1>7, <1>12, <2>1, <3>1, <3>2
    <3> QED BY <1>2, <1>4, <3>3 DEF Before
  <2>5. Ahead(r) \subseteq Ahead(r)' BY <1>9, <2>4 DEF Ahead
  <2> QED BY <2>3, <2>5
<1>15. PageHeld' /\ NonePassed' /\ LastMissed'
  <2>1. Still' \subseteq Still /\ \A r \in Still : r \in Still' => Ahead(r) \subseteq Ahead(r)'
    BY <1>14
  <2>2. UNCHANGED <<pc, limit, offset, total, page, seen>> BY <1>2
  <2>3. late' = late BY <1>2
  <2> QED BY <1>10, <1>11, <2>1, <2>2, <2>3, WritePreserves
<1> QED BY <1>10, <1>11, <1>13, <1>15 DEF ReadInv

\* The table and what stays in it are the same for every step of the handler.
LEMMA HandlerLeavesTable ==
  ASSUME UNCHANGED <<listing, tableVars, start, moved>>
  PROVE  /\ Still' = Still /\ Rows' = Rows /\ Orders' = Orders
         /\ \A r : Ahead(r)' = Ahead(r)
         /\ KeysApart => KeysApart'
BY DEF tableVars, Still, Rows, Ahead, Before, KeysApart, Orders

LEMMA CountPreserves ==
  ASSUME ReadInv, Count
  PROVE  ReadInv'
<1>0. ReadTypeOK /\ KeysApart /\ Counted /\ PageHeld /\ NonePassed /\ LastMissed BY DEF ReadInv
<1>1. /\ pc = "count" /\ total' = rows /\ pc' = "select" /\ late' = 0
      /\ UNCHANGED <<listing, tableVars, limit, offset, page, seen, start, moved>>
  BY DEF Count
<1>2. /\ Still' = Still /\ Rows' = Rows /\ KeysApart' /\ \A r : Ahead(r)' = Ahead(r)
  BY <1>0, <1>1, HandlerLeavesTable
<1>3. rows \in Nat /\ MaxRows \in Nat BY <1>0, BoundsAssumption DEF ReadTypeOK
<1>4. ReadTypeOK' BY <1>0, <1>1, <1>2, <1>3 DEF ReadTypeOK, tableVars
<1>5. Counted' BY <1>1, <1>3 DEF Counted, tableVars
<1>6. PageHeld' BY <1>0, <1>1 DEF PageHeld
<1>7. NonePassed' BY <1>0, <1>1, <1>2 DEF NonePassed
<1>8. LastMissed' BY <1>1 DEF LastMissed
<1> QED BY <1>2, <1>4, <1>5, <1>6, <1>7, <1>8 DEF ReadInv

LEMMA ReadFailsPreserves ==
  ASSUME ReadInv, ReadFails
  PROVE  ReadInv'
<1>0. ReadTypeOK /\ KeysApart /\ Counted /\ PageHeld /\ NonePassed /\ LastMissed BY DEF ReadInv
<1>1. /\ pc' = "count" /\ page' = {}
      /\ UNCHANGED <<listing, tableVars, limit, offset, total, seen, start, moved, late>>
  BY DEF ReadFails
<1>2. /\ Still' = Still /\ Rows' = Rows /\ KeysApart' /\ \A r : Ahead(r)' = Ahead(r)
  BY <1>0, <1>1, HandlerLeavesTable
<1>3. ReadTypeOK' BY <1>0, <1>1, <1>2 DEF ReadTypeOK, tableVars
<1>4. Counted' BY <1>0, <1>1 DEF Counted, tableVars
<1>5. PageHeld' BY <1>1 DEF PageHeld
<1>6. NonePassed' BY <1>0, <1>1, <1>2 DEF NonePassed
<1>7. LastMissed' BY <1>1 DEF LastMissed
<1> QED BY <1>2, <1>3, <1>4, <1>5, <1>6, <1>7 DEF ReadInv

LEMMA SelectPreserves ==
  ASSUME ReadInv, Select
  PROVE  ReadInv'
<1>0. ReadTypeOK /\ KeysApart /\ Counted /\ PageHeld /\ NonePassed /\ LastMissed BY DEF ReadInv
<1>1. PICK pos \in Orders : page' = {r \in Rows : offset <= pos[r] /\ pos[r] < offset + limit}
  BY DEF Select
<1>2. /\ pc = "select" /\ pc' = "answer"
      /\ UNCHANGED <<listing, tableVars, limit, offset, total, seen, start, moved, late>>
  BY DEF Select
<1>3. /\ Still' = Still /\ Rows' = Rows /\ KeysApart' /\ \A r : Ahead(r)' = Ahead(r)
  BY <1>0, <1>2, HandlerLeavesTable
<1>4. rows \in Nat /\ offset \in Nat /\ limit \in Nat /\ total \in Nat /\ late \in Nat
  BY <1>0, BoundsAssumption DEF ReadTypeOK
<1>5. ReadTypeOK' BY <1>0, <1>1, <1>2, <1>3 DEF ReadTypeOK, tableVars
<1>6. Counted' BY <1>0, <1>2 DEF Counted, tableVars
<1>7. PageHeld' BY <1>2 DEF PageHeld
<1>8. pos \in [Rows -> 0..(rows - 1)] /\ \A q, r \in Rows : q # r => pos[q] # pos[r]
  BY <1>1 DEF Orders
<1>9. ASSUME NEW r \in Still \ seen
      PROVE  /\ r \in Rows /\ Cardinality(Ahead(r)) = pos[r] /\ Cardinality(Ahead(r)) >= offset
             /\ r \in page' \/ Cardinality(Ahead(r)) >= offset + limit
  <2>1. r \in Rows /\ \A q \in Rows \ {r} : key[q] # key[r] BY <1>0, StillRow
  <2>2. Cardinality(Ahead(r)) = pos[r] BY <1>0, <2>1, PlaceOfRow
  <2>3. Cardinality(Ahead(r)) >= offset BY <1>0 DEF NonePassed
  <2>4. pos[r] \in 0..(rows - 1) BY <1>8, <2>1
  <2> QED BY <1>1, <1>4, <2>1, <2>2, <2>3, <2>4
<1>10. NonePassed' BY <1>2, <1>3, <1>9 DEF NonePassed
<1>11. LastMissed'
  <2> DEFINE M == (Still \ seen) \ page'
             f == [r \in M |-> pos[r]]
  <2>1. ASSUME offset + limit >= total PROVE Cardinality(M) <= late
    <3>1. \A r \in M : r \in Rows /\ pos[r] \in total..(rows - 1)
      <4>1. ASSUME NEW r \in M PROVE r \in Rows /\ pos[r] \in total..(rows - 1)
        <5>1. r \in Rows /\ pos[r] >= offset + limit BY <1>9
        <5>2. pos[r] \in 0..(rows - 1) BY <1>8, <5>1
        <5> QED BY <1>4, <2>1, <5>1, <5>2
      <4> QED BY <4>1
    <3> HIDE DEF M
    <3>2. f \in [M -> total..(rows - 1)] BY <3>1
    <3>3. f \in Injection(M, total..(rows - 1))
      <4>1. \A a, b \in M : f[a] = f[b] => a = b BY <1>8, <3>1
      <4> HIDE DEF f
      <4> QED BY <3>2, <4>1, Fun_IsInj
    <3>4. /\ IsFiniteSet(total..(rows - 1))
          /\ Cardinality(total..(rows - 1)) = IF total > rows - 1 THEN 0 ELSE rows - 1 - total + 1
      BY <1>4, FS_Interval
    <3>5. Cardinality(M) <= Cardinality(total..(rows - 1)) BY <3>3, <3>4, FS_Injection
    <3>6. rows = total + late BY <1>0, <1>2 DEF Counted
    <3>7. IsFiniteSet(M) BY <3>3, <3>4, FS_Injection
    <3>8. Cardinality(M) \in Nat BY <3>7, FS_CardinalityType
    <3> QED BY <1>4, <3>4, <3>5, <3>6, <3>8
  <2> QED BY <1>2, <1>3, <2>1 DEF LastMissed
<1> QED BY <1>3, <1>5, <1>6, <1>7, <1>10, <1>11 DEF ReadInv

LEMMA AnswerPreserves ==
  ASSUME ReadInv, Answer
  PROVE  ReadInv'
<1>0. ReadTypeOK /\ KeysApart /\ Counted /\ PageHeld /\ NonePassed /\ LastMissed BY DEF ReadInv
<1>1. PICK ok \in [page -> BOOLEAN] :
        seen' = seen \union {e.row : e \in UNION {Entries(r, ok[r]) : r \in page}}
  BY DEF Answer
<1>2. /\ pc = "answer" /\ page' = {} /\ offset' = offset + limit
      /\ pc' = IF HasNext THEN "count" ELSE "done"
      /\ UNCHANGED <<listing, tableVars, limit, total, start, moved, late>>
  BY DEF Answer
<1>3. /\ Still' = Still /\ Rows' = Rows /\ KeysApart' /\ \A r : Ahead(r)' = Ahead(r)
  BY <1>0, <1>2, HandlerLeavesTable
<1>4. listing \in Listings /\ page \subseteq Rows /\ offset \in Nat /\ limit \in Nat /\ total \in Nat
  BY <1>0 DEF ReadTypeOK
<1>5. seen' \subseteq seen \union page /\ seen \subseteq seen'
  <2>1. \A r \in page : \A e \in Entries(r, ok[r]) : e.row = r BY <1>4, EntriesOfRow
  <2> QED BY <1>1, <2>1
<1>6. \A r \in Still : r \in page => r \in seen'
  <2>1. ASSUME NEW r \in Still, r \in page PROVE r \in seen'
    <3>1. listing.entries = "position" => holding[r] # {} BY <1>0, StillRow
    <3>2. /\ \A e \in Entries(r, ok[r]) : e.row = r
          /\ Entries(r, ok[r]) # {}
      BY <1>4, <3>1, EntriesOfRow
    <3>3. PICK e \in Entries(r, ok[r]) : e.row = r BY <3>2
    <3> QED BY <1>1, <2>1, <3>3
  <2> QED BY <2>1
<1>7. ReadTypeOK'
  <2>1. seen' \subseteq Rows BY <1>0, <1>4, <1>5 DEF ReadTypeOK
  <2> QED BY <1>0, <1>2, <1>3, <1>4, <2>1 DEF ReadTypeOK, tableVars
<1>8. Counted' BY <1>0, <1>2 DEF Counted, tableVars
<1>9. PageHeld' BY <1>2 DEF PageHeld
<1>10. NonePassed'
  <2>1. ASSUME NEW r \in Still \ seen' PROVE Cardinality(Ahead(r)) >= offset'
    <3>1. r \in Still \ seen /\ r \notin page BY <1>5, <1>6
    <3> QED BY <1>0, <1>2, <3>1 DEF NonePassed
  <2> QED BY <1>2, <1>3, <2>1 DEF NonePassed
<1>11. LastMissed'
  <2>1. ASSUME ~HasNext PROVE Cardinality(Still \ seen') <= late
    <3>1. offset + limit >= total BY <1>4, <2>1 DEF HasNext
    <3>2. Cardinality((Still \ seen) \ page) <= late BY <1>0, <1>2, <3>1 DEF LastMissed
    <3>3. Still \ seen' = (Still \ seen) \ page BY <1>5, <1>6
    <3> QED BY <3>2, <3>3
  <2> QED BY <1>2, <1>3, <2>1 DEF LastMissed
<1> QED BY <1>3, <1>7, <1>8, <1>9, <1>10, <1>11 DEF ReadInv

LEMMA ReadInitInv == ReadInit => ReadInv
<1> SUFFICES ASSUME ReadInit PROVE ReadInv OBVIOUS
<1>1. /\ listing \in Listings /\ rows \in 0..MaxRows /\ writes = 0
      /\ key \in [1..rows -> IF listing.by = "amount" THEN Amounts ELSE 1..rows]
      /\ listing.by # "amount" => \A r \in 1..rows : key[r] = r
      /\ holding \in [1..rows -> NewHoldings]
      /\ limit \in {ClampLimit(l) : l \in AskedLimits}
      /\ pc = "count" /\ offset = 0 /\ total = 0 /\ page = {} /\ seen = {}
      /\ start = 1..rows /\ moved = {} /\ late = 0
  BY DEF ReadInit
<1>2. rows \in Nat /\ MaxRows \in Nat /\ MaxWrites \in Nat BY <1>1, BoundsAssumption
<1>3. limit \in Nat \ {0}
  <2>1. PICK l \in AskedLimits : limit = ClampLimit(l) BY <1>1
  <2>2. l \in Nat /\ DefaultLimit \in Nat \ {0} /\ MaxLimit \in Nat \ {0} BY LimitAssumption
  <2> QED BY <2>1, <2>2 DEF ClampLimit
<1>4. key \in [Rows -> Int]
  <2>1. \A r \in 1..rows : key[r] \in Int
    <3>1. CASE listing.by = "amount" BY <1>1, <3>1, BoundsAssumption
    <3>2. CASE listing.by # "amount" BY <1>1, <1>2, <3>2
    <3> QED BY <3>1, <3>2
  <2> QED BY <1>1, <2>1 DEF Rows
<1>5. holding \in [Rows -> SUBSET {0, 1}]
  BY <1>1, HoldingsAssumption DEF NewHoldings, Rows
<1>6. ReadTypeOK BY <1>1, <1>2, <1>3, <1>4, <1>5 DEF ReadTypeOK, Rows
<1>7. KeysApart
  <2>1. ASSUME listing.by # "amount"
        PROVE  /\ \A r \in Rows : key[r] <= rows + writes
               /\ \A q, r \in Rows : key[q] = key[r] => q = r
    <3>1. \A r \in Rows : key[r] = r BY <1>1, <2>1 DEF Rows
    <3>2. \A r \in Rows : r <= rows + writes BY <1>1, <1>2 DEF Rows
    <3> QED BY <3>1, <3>2
  <2> QED BY <1>1, <2>1 DEF KeysApart
<1>8. Counted BY <1>1, <1>2 DEF Counted
<1>9. PageHeld BY <1>1 DEF PageHeld
<1>10. NonePassed
  <2>1. \A r \in Still \ seen : Cardinality(Ahead(r)) \in Nat BY <1>6, AheadFinite
  <2> QED BY <1>1, <2>1 DEF NonePassed
<1>11. LastMissed BY <1>1 DEF LastMissed
<1> QED BY <1>6, <1>7, <1>8, <1>9, <1>10, <1>11 DEF ReadInv

-----------------------------------------------------------------------------
\* ReadInv holds in every state a walk through a listing reaches, however many
\* rows are inserted and written meanwhile, and whatever limit is asked for.
THEOREM ReadInvariant == ReadSpec => []ReadInv
<1>1. ReadInv /\ [ReadNext]_readVars => ReadInv'
  <2> SUFFICES ASSUME ReadInv, [ReadNext]_readVars PROVE ReadInv' OBVIOUS
  <2>1. CASE Insert BY <2>1, InsertPreserves
  <2>2. CASE \E r \in Rows : Upsert(r) BY <2>2, UpsertPreserves
  <2>3. CASE Count BY <2>3, CountPreserves
  <2>4. CASE Select BY <2>4, SelectPreserves
  <2>5. CASE ReadFails BY <2>5, ReadFailsPreserves
  <2>6. CASE Answer BY <2>6, AnswerPreserves
  <2>7. CASE UNCHANGED readVars
    <3>1. UNCHANGED <<listing, tableVars, pc, limit, offset, total, page, seen, start, moved, late>>
      BY <2>7 DEF readVars
    <3>2. /\ Still' = Still /\ Rows' = Rows /\ \A r : Ahead(r)' = Ahead(r)
          /\ KeysApart => KeysApart'
      BY <3>1, HandlerLeavesTable
    <3>3. (ReadTypeOK /\ Counted /\ PageHeld)' BY <3>1, <3>2
      DEF ReadInv, ReadTypeOK, Counted, PageHeld, tableVars
    <3>4. (NonePassed /\ LastMissed)' BY <3>1, <3>2 DEF ReadInv, NonePassed, LastMissed
    <3> QED BY <3>2, <3>3, <3>4 DEF ReadInv
  <2> QED BY <2>1, <2>2, <2>3, <2>4, <2>5, <2>6, <2>7 DEF ReadNext
<1> QED BY <1>1, ReadInitInv, PTL DEF ReadSpec

\* Rows that come and rows that move never let the walk pass over a row that stays.
THEOREM NothingSlips == ReadSpec => []NothingSlipsPast
<1>1. ReadInv => NothingSlipsPast
  BY DEF ReadInv, NonePassed, NothingSlipsPast, Ahead
<1> QED BY <1>1, ReadInvariant, PTL

\* A walk that has ended misses no more of the rows that stayed than were inserted
\* between its last COUNT and that page's SELECT.
THEOREM MissedWereLate == ReadSpec => []MissedAreLate
<1>1. ReadInv => MissedAreLate BY DEF ReadInv, LastMissed, MissedAreLate
<1> QED BY <1>1, ReadInvariant, PTL
=============================================================================
