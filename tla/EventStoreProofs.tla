-------------------------- MODULE EventStoreProofs --------------------------
(***************************************************************************)
(* Proofs about EventStore for every chain, any keys and any number of     *)
(* deliveries.                                                             *)
(*                                                                         *)
(* PrefixPersisted is not inductive.  A step adds a statement to `stored`, *)
(* so the ones before it must be there already (Walked); it shows a        *)
(* position or announces a pool, so what a stored statement wrote must     *)
(* still be there (Kept); and a row is counted once a delivery, so the     *)
(* event at work was counted at most once in each earlier one (Counted).   *)
(***************************************************************************)
EXTENDS EventStore, TLAPS

USE ChainAssumption, MaxDeliveriesAssumption DEF ChainAssumption, MaxDeliveriesAssumption

\* What the delivery at work has passed is stored.
Walked == InEvent => WalkedTo(at.tx, at.event, at.step)

Prefix == \A x \in stored : WalkedTo(x[1], x[2], x[3])

\* No later step takes away what a stored statement wrote.
Kept ==
  \A x \in stored :
    LET e == <<x[1], x[2]>>
        st == Program(e)[x[3]]
    IN /\ x[3] \in Writes(e)
       /\ st.op = "insert" => rows[e] > 0
       /\ st.op = "signature" => bySig[st.table][x[1]] # 0
       /\ st.op = "pool" => KeyOf(e) \in pools

\* A delivery adds one row per event at most, and none before it gets there.
Counted ==
  \A e \in Events :
    /\ rows[e] <= deliveries
    /\ (e[1] = at.tx /\ (at.event < e[2] \/ (at.event = e[2] /\ at.step = 1)))
         => rows[e] < deliveries

StoreInv ==
  /\ TypeOK
  /\ Walked
  /\ Prefix
  /\ Kept
  /\ Counted
  /\ PositionsHaveEvents
  /\ announced \subseteq pools

-----------------------------------------------------------------------------
(* The chain and the programs of its events.                               *)

LEMMA ChainShape ==
  ASSUME NEW t \in Txs
  PROVE  /\ t \in Nat \ {0}
         /\ Len(Chain[t]) \in Nat
         /\ DOMAIN Chain[t] = 1..Len(Chain[t])
         /\ \A i \in 1..Len(Chain[t]) : Chain[t][i] \in [kind : Kinds, key : Keys]
<1> DEFINE Event1 == [kind : Kinds, key : Keys]
<1>1. Chain \in Seq(Seq(Event1))
  BY DEF ChainAssumption
<1> HIDE DEF Event1
<1>2. Chain[t] \in Seq(Event1) /\ t \in Nat \ {0}
  BY <1>1 DEF Txs
<1>3. \A i \in 1..Len(Chain[t]) : Chain[t][i] \in Event1
  BY <1>2
<1> QED BY <1>2, <1>3 DEF Event1

LEMMA EventShape ==
  /\ \A t, i : <<t, i>> \in Events <=> t \in Txs /\ i \in DOMAIN Chain[t]
  /\ \A e \in Events : e = <<e[1], e[2]>> /\ e[1] \in Txs /\ e[2] \in 1..Len(Chain[e[1]])
<1>1. \A t, i : <<t, i>> \in Events <=> t \in Txs /\ i \in DOMAIN Chain[t]
  BY DEF Events
<1>2. ASSUME NEW e \in Events
      PROVE  e = <<e[1], e[2]>> /\ e[1] \in Txs /\ e[2] \in 1..Len(Chain[e[1]])
  BY ChainShape DEF Events
<1> QED BY <1>1, <1>2

LEMMA KeyShape == ASSUME NEW e \in Events PROVE KeyOf(e) \in Keys
  BY EventShape, ChainShape DEF KeyOf

\* An event has two statements at most.  The first writes the row the second
\* one needs: the event of a position, the pool the webhook is told about.
LEMMA ProgramShape ==
  ASSUME NEW e \in Events
  PROVE  /\ Len(Program(e)) \in 0..2
         /\ DOMAIN Program(e) = 1..Len(Program(e))
         /\ Writes(e) \subseteq 1..Len(Program(e))
         /\ \A s \in 1..Len(Program(e)) :
              LET st == Program(e)[s] IN
              /\ st.op \in {"insert", "signature", "latest", "pool", "webhook"}
              /\ st.op \in {"insert", "signature", "pool"} => s = 1
              /\ st.op = "signature" =>
                   st.table \in SignatureTables /\ st = BySignature(st.table)
              /\ st.op = "latest" =>
                   /\ s = 2
                   /\ st.table \in LatestTables /\ st = Latest(st.table)
                   /\ 1 \in Writes(e)
                   /\ Program(e)[1] = IF st.table = "user_borrow_positions"
                                      THEN BySignature("user_position_updated_events")
                                      ELSE Insert
              /\ st.op = "webhook" =>
                   s = 2 /\ 1 \in Writes(e) /\ Program(e)[1].op = "pool"
<1> DEFINE kind == Chain[e[1]][e[2]].kind
<1>1. kind \in Kinds
  BY EventShape, ChainShape
<1>2. \/ kind \in {"swap", "mint", "burn"} /\ Program(e) = <<Insert>>
      \/ kind = "collateral" /\ Program(e) = <<BySignature("adjust_collateral_events")>>
      \/ kind = "debt" /\ Program(e) = <<BySignature("adjust_debt_events")>>
      \/ kind = "liquidated" /\ Program(e) = <<BySignature("user_position_liquidated_events")>>
      \/ kind = "position" /\ Program(e) = <<BySignature("user_position_updated_events"),
                                            Latest("user_borrow_positions")>>
      \/ kind = "lp" /\ Program(e) = <<Insert, Latest("user_liquidity_positions")>>
      \/ kind = "pair" /\ Program(e) = <<Pool, Webhook>>
      \/ kind = "log" /\ Program(e) = <<>>
  BY <1>1 DEF Program, Statements, Kinds, UpsertSwapEvent, UpsertMintEvent, UpsertBurnEvent,
     UpsertAdjustCollateralEvent, UpsertAdjustDebtEvent, UpsertUserPositionLiquidatedEvent,
     UpsertUserPositionUpdatedEvent, UpsertUserLiquidityPositionUpdatedEvent,
     ProcessPairCreatedEvent, LogOnly
<1> HIDE DEF kind
<1> QED BY <1>2 DEF Writes, Insert, BySignature, Latest, Pool, Webhook,
                    SignatureTables, LatestTables

-----------------------------------------------------------------------------
(* The position of the delivery.                                           *)

\* The part of TypeOK about it.
AtOK ==
  /\ at \in {Idle} \cup [tx : Txs, event : Nat \ {0}, step : Nat \ {0}]
  /\ at.tx # 0 => /\ at.event <= Len(Chain[at.tx]) + 1
                  /\ at.event <= Len(Chain[at.tx]) =>
                       at.step <= Len(Program(<<at.tx, at.event>>)) + 1
                  /\ at.event > Len(Chain[at.tx]) => at.step = 1

LEMMA AtShape ==
  ASSUME AtOK, at.tx # 0
  PROVE  /\ at.tx \in Txs
         /\ at.event \in Nat \ {0} /\ at.step \in Nat \ {0}
         /\ at = [tx |-> at.tx, event |-> at.event, step |-> at.step]
  BY DEF AtOK, Idle

LEMMA InEventShape ==
  ASSUME AtOK, InEvent
  PROVE  /\ Event \in Events /\ at.event \in 1..Len(Chain[at.tx])
         /\ at.step \in 1..(Len(Program(Event)) + 1)
         /\ at.tx \in Txs
<1>1. at.tx \in Txs /\ at.event \in Nat \ {0} /\ at.step \in Nat \ {0} /\ at.event <= Len(Chain[at.tx])
  BY AtShape DEF InEvent
<1>2. at.event \in DOMAIN Chain[at.tx] /\ at.event \in 1..Len(Chain[at.tx])
  BY <1>1, ChainShape
<1>3. Event \in Events
  BY <1>1, <1>2, EventShape DEF Event
<1>4. Len(Program(Event)) \in Nat
  BY <1>3, ProgramShape
<1> QED BY <1>1, <1>2, <1>3, <1>4 DEF AtOK, Event, InEvent

\* The statement that runs.
LEMMA RunningShape ==
  ASSUME AtOK, NEW op, Running(op)
  PROVE  /\ Event \in Events /\ at.event \in 1..Len(Chain[at.tx]) /\ at.tx \in Txs
         /\ at.step \in 1..Len(Program(Event))
         /\ at.step \in {1, 2}
         /\ Program(Event)[at.step].op = op
         /\ op # "webhook" <=> at.step \in Writes(Event)
<1>1. InEvent /\ at.step <= Len(Program(Event)) /\ Program(Event)[at.step].op = op
  BY DEF Running
<1>2. /\ Event \in Events /\ at.event \in 1..Len(Chain[at.tx]) /\ at.tx \in Txs
      /\ at.step \in 1..(Len(Program(Event)) + 1)
  BY <1>1, InEventShape
<1>3. Len(Program(Event)) \in 0..2 /\ DOMAIN Program(Event) = 1..Len(Program(Event))
  BY <1>2, ProgramShape
<1> QED BY <1>1, <1>2, <1>3 DEF Writes

LEMMA StepDoneKeepsAt ==
  ASSUME AtOK, NEW op, Running(op), StepDone
  PROVE  AtOK' /\ at' = [tx |-> at.tx, event |-> at.event, step |-> at.step + 1]
<1>1. /\ at.tx \in Txs /\ at.tx # 0
      /\ at.event \in Nat \ {0} /\ at.step \in Nat \ {0}
      /\ at = [tx |-> at.tx, event |-> at.event, step |-> at.step]
  BY AtShape DEF Running, InEvent
<1>2. at' = [tx |-> at.tx, event |-> at.event, step |-> at.step + 1]
  BY <1>1 DEF StepDone
<1>3. at.step \in 1..Len(Program(Event)) /\ Len(Program(Event)) \in 0..2
  BY RunningShape, ProgramShape
<1>4. at.event \in 1..Len(Chain[at.tx]) /\ Len(Chain[at.tx]) \in Nat
  BY RunningShape, ChainShape
<1> QED BY <1>1, <1>2, <1>3, <1>4 DEF AtOK, Event

-----------------------------------------------------------------------------
(* The statements stored.                                                  *)

\* A statement that succeeds keeps the stored ones a prefix.
LEMMA SucceededKeepsPrefix ==
  ASSUME AtOK, Walked, Prefix, NEW op, Running(op), op # "webhook", StepDone, Succeeded
  PROVE  Walked' /\ Prefix'
<1>1. InEvent /\ WalkedTo(at.tx, at.event, at.step)
  BY DEF Running, Walked
<1>2. at' = [tx |-> at.tx, event |-> at.event, step |-> at.step + 1]
  BY StepDoneKeepsAt
<1>3. stored' = stored \cup {<<at.tx, at.event, at.step>>}
  BY DEF Succeeded
<1>4. /\ at.step \in Nat /\ at.event \in Nat /\ Event \in Events
      /\ Writes(Event) \subseteq Nat
  BY RunningShape, ProgramShape
<1>5. ASSUME NEW t, NEW i, NEW s, WalkedTo(t, i, s) PROVE WalkedTo(t, i, s)'
  BY <1>3, <1>5 DEF WalkedTo
<1>6. ASSUME NEW j \in 1..at.event, NEW r \in Writes(<<at.tx, j>>), j < at.event \/ r < at.step + 1
      PROVE  <<at.tx, j, r>> \in stored'
  <2>1. CASE j < at.event \/ r < at.step
    BY <1>1, <1>3, <2>1 DEF WalkedTo
  <2>2. CASE j = at.event /\ r = at.step
    BY <1>3, <2>2
  <2>3. j < at.event \/ (j = at.event /\ r \in Nat)
    BY <1>4 DEF Event
  <2> QED BY <1>4, <1>6, <2>1, <2>2, <2>3
<1>7. Walked'
  BY <1>2, <1>6 DEF Walked, WalkedTo, Writes, Program
<1>8. ASSUME NEW x \in stored' PROVE WalkedTo(x[1], x[2], x[3])'
  <2>1. CASE x \in stored
    BY <2>1, <1>5 DEF Prefix
  <2>2. CASE x = <<at.tx, at.event, at.step>>
    BY <2>2, <1>1, <1>5
  <2> QED BY <1>3, <2>1, <2>2
<1> QED BY <1>7, <1>8 DEF Prefix

\* So does every step that stores nothing and leaves no statement behind.
LEMMA PrefixStays ==
  ASSUME Prefix, UNCHANGED stored
  PROVE  Prefix'
  BY DEF Prefix, WalkedTo

\* The first statement of the event at work is behind the second.
LEMMA FirstIsStored ==
  ASSUME AtOK, Walked, NEW op, Running(op), at.step = 2, 1 \in Writes(Event)
  PROVE  <<at.tx, at.event, 1>> \in stored
<1>1. WalkedTo(at.tx, at.event, 2) /\ at.event \in Nat \ {0}
  BY RunningShape DEF Running, Walked
<1>2. at.event \in 1..at.event /\ 1 < 2 /\ 1 \in Writes(<<at.tx, at.event>>)
  BY <1>1 DEF Event
<1> QED BY <1>1, <1>2 DEF WalkedTo

LEMMA StoredShape ==
  ASSUME TypeOK, NEW x \in stored
  PROVE  /\ <<x[1], x[2]>> \in Events /\ x[1] \in Txs /\ x[3] \in {1, 2}
         /\ x = <<x[1], x[2], x[3]>>
<1>1. PICK e \in Events, s \in 1..2 : x = <<e[1], e[2], s>>
  BY DEF TypeOK
<1> QED BY <1>1, EventShape

-----------------------------------------------------------------------------
(* The invariant, initially and at the steps that do not write.            *)

LEMMA StoreInit == Init => StoreInv
<1> SUFFICES ASSUME Init PROVE StoreInv
  OBVIOUS
<1>1. at = Idle /\ at.tx = 0 /\ stored = {} /\ announced = {} /\ deliveries = 0
  BY DEF Init, Idle
<1>2. TypeOK
  BY <1>1 DEF Init, TypeOK, Idle, None
<1>3. Walked /\ Prefix /\ Kept
  BY <1>1 DEF Walked, InEvent, Prefix, Kept
<1>4. Counted
  <2>1. \A e \in Events : rows[e] = 0 /\ e[1] # 0
    BY EventShape, ChainShape DEF Init
  <2> QED BY <1>1, <2>1 DEF Counted
<1>5. PositionsHaveEvents
  BY DEF Init, PositionsHaveEvents, LatestTables
<1> QED BY <1>1, <1>2, <1>3, <1>4, <1>5 DEF StoreInv

\* What a step leaves alone of the tables and the stored statements keeps what
\* the invariant says of them.
LEMMA TablesStay ==
  ASSUME Kept, PositionsHaveEvents, announced \subseteq pools, Prefix,
         UNCHANGED <<tables, stored>>
  PROVE  Kept' /\ PositionsHaveEvents' /\ (announced \subseteq pools)' /\ Prefix'
<1>1. UNCHANGED rows /\ UNCHANGED bySig /\ UNCHANGED latest /\ UNCHANGED pools /\ UNCHANGED announced
  BY DEF tables
<1> QED BY <1>1, PrefixStays DEF Kept, PositionsHaveEvents, Program, KeyOf

\* A delivery that leaves its transaction goes to the next one from the start.
LEMMA IdleStep ==
  ASSUME StoreInv, at' = Idle, UNCHANGED <<tables, deliveries, stored>>,
         UNCHANGED <<last, ordered>>, clean' \in BOOLEAN, settled' \subseteq Txs
  PROVE  StoreInv'
<1>1. at'.tx = 0
  BY DEF Idle
<1>2. TypeOK'
  BY <1>1 DEF StoreInv, TypeOK, tables
<1>3. Walked'
  BY <1>1 DEF Walked, InEvent
<1>4. Counted'
  <2>1. \A e \in Events : rows[e] <= deliveries /\ e[1] # 0
    BY EventShape, ChainShape DEF StoreInv, Counted
  <2> QED BY <1>1, <2>1 DEF Counted, tables
<1> QED BY <1>2, <1>3, <1>4, TablesStay DEF StoreInv

LEMMA DeliverStep ==
  ASSUME StoreInv, NEW t \in Txs, Deliver(t)
  PROVE  StoreInv'
<1>1. at' = [tx |-> t, event |-> 1, step |-> 1] /\ deliveries' = deliveries + 1
      /\ UNCHANGED tables /\ UNCHANGED stored
  BY DEF Deliver
<1>2. deliveries \in Nat /\ deliveries' \in 0..MaxDeliveries
  BY DEF Deliver, StoreInv, TypeOK
<1>3. Len(Chain[t]) \in Nat /\ t # 0
  BY ChainShape
<1>4. 1 <= Len(Chain[t]) => Len(Program(<<t, 1>>)) \in Nat
  BY <1>3, ChainShape, EventShape, ProgramShape
<1>5. AtOK'
  BY <1>1, <1>3, <1>4 DEF AtOK
<1>6. TypeOK'
  BY <1>1, <1>2, <1>5 DEF Deliver, StoreInv, TypeOK, AtOK, tables
<1>7. Walked'
  <2>1. ASSUME InEvent', NEW j \in 1..1, NEW r \in Writes(<<t, j>>), j < 1 \/ r < 1
        PROVE  FALSE
    <3>1. <<t, 1>> \in Events /\ j = 1
      BY <1>1, <1>3, <2>1, ChainShape, EventShape DEF InEvent
    <3> QED BY <2>1, <3>1, ProgramShape
  <2>2. at'.tx = t /\ at'.event = 1 /\ at'.step = 1
    BY <1>1
  <2> QED BY <2>1, <2>2 DEF Walked, WalkedTo, Writes, Program
<1>8. Counted'
  <2>1. \A e \in Events : rows[e] \in Nat /\ rows[e] <= deliveries
    BY DEF StoreInv, Counted, TypeOK
  <2> QED BY <1>1, <1>2, <2>1 DEF Counted, tables
<1> QED BY <1>1, <1>6, <1>7, <1>8, TablesStay DEF StoreInv

LEMMA NextEventStep ==
  ASSUME StoreInv, NextEvent
  PROVE  StoreInv'
<1>0. AtOK
  BY DEF StoreInv, TypeOK, AtOK
<1>1. /\ at.tx \in Txs /\ at.tx # 0 /\ at.event \in Nat \ {0}
      /\ at' = [tx |-> at.tx, event |-> at.event + 1, step |-> 1]
      /\ InEvent /\ at.step > Len(Program(Event)) /\ UNCHANGED tables /\ UNCHANGED history
  BY <1>0, AtShape DEF NextEvent, InEvent
<1>2. at.event \in 1..Len(Chain[at.tx]) /\ Len(Chain[at.tx]) \in Nat /\ Event \in Events
      /\ at.step \in Nat
  BY <1>0, <1>1, InEventShape, ChainShape, AtShape
<1>3. at.event + 1 <= Len(Chain[at.tx]) => <<at.tx, at.event + 1>> \in Events
  BY <1>1, <1>2, ChainShape, EventShape
<1>4. AtOK'
  BY <1>1, <1>2, <1>3, ProgramShape DEF AtOK
<1>5. TypeOK'
  BY <1>1, <1>4 DEF StoreInv, TypeOK, AtOK, tables, history
<1>6. Walked'
  <2> SUFFICES ASSUME InEvent', NEW j \in 1..(at.event + 1), NEW r \in Writes(<<at.tx, j>>),
                      j < at.event + 1 \/ r < 1
               PROVE  <<at.tx, j, r>> \in stored
    BY <1>1 DEF Walked, WalkedTo, history, Writes, Program
  <2>1. <<at.tx, at.event + 1>> \in Events
    BY <1>1, <1>3 DEF InEvent
  <2>2. CASE j = at.event + 1
    <3>1. r \in 1..Len(Program(<<at.tx, at.event + 1>>))
      BY <2>1, <2>2, ProgramShape
    <3> QED BY <1>2, <2>2, <3>1
  <2>3. CASE j = at.event
    <3>1. r \in 1..Len(Program(Event)) /\ Len(Program(Event)) \in Nat
      BY <1>2, <2>3, ProgramShape DEF Event
    <3>2. r < at.step /\ j \in 1..at.event
      BY <1>1, <1>2, <2>3, <3>1
    <3> QED BY <1>1, <2>3, <3>2 DEF StoreInv, Walked, WalkedTo
  <2>4. CASE j < at.event
    BY <1>1, <2>4 DEF StoreInv, Walked, WalkedTo
  <2> QED BY <1>2, <2>2, <2>3, <2>4
<1>7. Counted'
  <2> SUFFICES ASSUME NEW e \in Events
               PROVE  /\ rows[e] <= deliveries
                      /\ (e[1] = at.tx /\ (at.event + 1 < e[2] \/ at.event + 1 = e[2]))
                           => rows[e] < deliveries
    BY <1>1 DEF Counted, tables, history
  <2>1. e[2] \in Nat
    BY EventShape, ChainShape
  <2> QED BY <1>1, <2>1 DEF StoreInv, Counted
<1> QED BY <1>1, <1>5, <1>6, <1>7, TablesStay DEF StoreInv, history

-----------------------------------------------------------------------------
(* The statements.                                                         *)

LEMMA SucceededTypes ==
  ASSUME TypeOK, NEW op, Running(op), op # "webhook", Succeeded
  PROVE  stored' \subseteq {<<e[1], e[2], s>> : e \in Events, s \in 1..2}
<1>1. AtOK
  BY DEF TypeOK, AtOK
<1>2. Event \in Events /\ at.step \in 1..2
  BY <1>1, RunningShape
<1>3. stored' = stored \cup {<<Event[1], Event[2], at.step>>}
  BY DEF Succeeded, Event
<1> QED BY <1>2, <1>3 DEF TypeOK

LEMMA TypesStay ==
  ASSUME TypeOK, NEW op, Running(op), op # "webhook", StepDone, Succeeded,
         UNCHANGED <<deliveries, last, ordered, clean, settled>>,
         rows' \in [Events -> 0..MaxDeliveries],
         bySig' \in [SignatureTables -> [Txs -> Nat]],
         latest' \in [LatestTables -> [Keys -> Events \cup {None}]],
         pools' \subseteq Keys, announced' \subseteq Keys
  PROVE  TypeOK'
<1>1. AtOK
  BY DEF TypeOK, AtOK
<1>2. AtOK'
  BY <1>1, StepDoneKeepsAt
<1>3. stored' \subseteq {<<e[1], e[2], s>> : e \in Events, s \in 1..2}
  BY SucceededTypes
<1> QED BY <1>2, <1>3 DEF TypeOK, AtOK

LEMMA CountedStays ==
  ASSUME AtOK, Counted, NEW op, Running(op), StepDone, UNCHANGED <<rows, deliveries>>
  PROVE  Counted'
<1>1. at' = [tx |-> at.tx, event |-> at.event, step |-> at.step + 1] /\ at.step \in 1..2
  BY StepDoneKeepsAt, RunningShape
<1> QED BY <1>1 DEF Counted

\* What a statement wrote stays; the new one is the event at work's.
LEMMA KeptByStep ==
  ASSUME TypeOK, Kept, NEW op, Running(op), op # "webhook", Succeeded,
         \A e \in Events : rows[e] > 0 => rows'[e] > 0,
         \A b \in SignatureTables, t \in Txs : bySig[b][t] # 0 => bySig'[b][t] # 0,
         pools \subseteq pools',
         op = "insert" => rows'[Event] > 0,
         op = "signature" => bySig'[Table][at.tx] # 0,
         op = "pool" => KeyOf(Event) \in pools'
  PROVE  Kept'
<1>1. AtOK
  BY DEF TypeOK, AtOK
<1>2. /\ Event \in Events /\ at.step \in 1..Len(Program(Event))
      /\ Program(Event)[at.step].op = op /\ at.step \in Writes(Event)
  BY <1>1, RunningShape
<1> SUFFICES ASSUME NEW x \in stored'
             PROVE  LET e == <<x[1], x[2]>>
                        st == Program(e)[x[3]]
                    IN /\ x[3] \in Writes(e)
                       /\ st.op = "insert" => rows'[e] > 0
                       /\ st.op = "signature" => bySig'[st.table][x[1]] # 0
                       /\ st.op = "pool" => KeyOf(e) \in pools'
  BY DEF Kept, Program, KeyOf, Writes
<1> DEFINE e == <<x[1], x[2]>>
           st == Program(e)[x[3]]
<1>3. CASE x = <<at.tx, at.event, at.step>>
  <2>1. e = Event /\ st = Program(Event)[at.step] /\ x[1] = at.tx /\ x[3] = at.step
    BY <1>3 DEF Event
  <2> QED BY <1>2, <2>1 DEF Table
<1>4. CASE x \in stored
  <2>1. e \in Events /\ x[1] \in Txs
    BY <1>4, StoredShape
  <2>2. /\ x[3] \in Writes(e)
        /\ st.op = "insert" => rows[e] > 0
        /\ st.op = "signature" => bySig[st.table][x[1]] # 0
        /\ st.op = "pool" => KeyOf(e) \in pools
    BY <1>4 DEF Kept
  <2>3. st.op = "signature" => st.table \in SignatureTables
    BY <2>1, <2>2, ProgramShape
  <2> QED BY <2>1, <2>2, <2>3
<1> QED BY <1>3, <1>4 DEF Succeeded

LEMMA InsertStep ==
  ASSUME StoreInv, InsertRow
  PROVE  StoreInv'
<1>1. /\ TypeOK /\ AtOK /\ Walked /\ Prefix /\ Kept /\ Counted /\ PositionsHaveEvents
      /\ announced \subseteq pools
  BY DEF StoreInv, TypeOK, AtOK
<1>2. /\ Running("insert") /\ StepDone /\ Succeeded
      /\ rows' = [rows EXCEPT ![Event] = @ + 1]
      /\ UNCHANGED <<bySig, latest, pools, announced, deliveries, last, ordered, clean, settled>>
  BY DEF InsertRow
<1>3. /\ Event \in Events /\ at.step \in 1..Len(Program(Event))
      /\ Program(Event)[at.step].op = "insert"
  BY <1>1, <1>2, RunningShape
<1>4. at.step = 1
  BY <1>3, ProgramShape
<1>5. /\ rows \in [Events -> 0..MaxDeliveries] /\ deliveries \in 0..MaxDeliveries
      /\ rows[Event] < deliveries
  <2>1. rows \in [Events -> 0..MaxDeliveries] /\ deliveries \in 0..MaxDeliveries
    BY <1>1 DEF TypeOK
  <2>2. Event[1] = at.tx /\ Event[2] = at.event
    BY DEF Event
  <2>3. rows[Event] < deliveries
    BY <1>1, <1>3, <1>4, <2>2 DEF Counted
  <2> QED BY <2>1, <2>3
<1>6. /\ rows' \in [Events -> 0..MaxDeliveries]
      /\ \A e \in Events : rows'[e] = IF e = Event THEN rows[e] + 1 ELSE rows[e]
  BY <1>2, <1>3, <1>5
<1>7. AtOK' /\ at' = [tx |-> at.tx, event |-> at.event, step |-> at.step + 1]
  BY <1>1, <1>2, StepDoneKeepsAt
<1>8. TypeOK'
  <2>1. /\ rows \in [Events -> 0..MaxDeliveries] /\ bySig \in [SignatureTables -> [Txs -> Nat]]
        /\ latest \in [LatestTables -> [Keys -> Events \cup {None}]]
        /\ pools \subseteq Keys /\ announced \subseteq Keys
    BY <1>1 DEF TypeOK
  <2> QED BY <1>1, <1>2, <1>6, <2>1, TypesStay
<1>9. Walked' /\ Prefix'
  BY <1>1, <1>2, SucceededKeepsPrefix
<1>10. \A e \in Events : rows[e] \in Nat /\ rows'[e] >= rows[e]
  BY <1>5, <1>6
<1>11. Kept'
  <2>1. rows'[Event] > 0
    BY <1>3, <1>5, <1>6
  <2> QED BY <1>1, <1>2, <1>10, <1>6, <2>1, KeptByStep
<1>12. Counted'
  <2> SUFFICES ASSUME NEW e \in Events
               PROVE  /\ rows'[e] <= deliveries
                      /\ (e[1] = at.tx /\ at.event < e[2]) => rows'[e] < deliveries
    BY <1>2, <1>4, <1>7 DEF Counted
  <2>1. CASE e = Event
    BY <1>5, <1>6, <1>3, <1>1, <2>1, RunningShape, <1>2 DEF Event
  <2>2. CASE e # Event
    BY <1>1, <1>6, <2>2 DEF Counted
  <2> QED BY <2>1, <2>2
<1>13. PositionsHaveEvents'
  <2>1. \A k \in Keys : latest["user_liquidity_positions"][k] \in Events \cup {None}
    BY <1>1 DEF TypeOK, LatestTables
  <2> QED BY <1>1, <1>2, <1>10, <2>1 DEF PositionsHaveEvents
<1> QED BY <1>1, <1>2, <1>8, <1>9, <1>11, <1>12, <1>13 DEF StoreInv

LEMMA SignatureStep ==
  ASSUME StoreInv, UpsertBySignature
  PROVE  StoreInv'
<1>1. /\ TypeOK /\ AtOK /\ Walked /\ Prefix /\ Kept /\ Counted /\ PositionsHaveEvents
      /\ announced \subseteq pools
  BY DEF StoreInv, TypeOK, AtOK
<1>2. /\ Running("signature") /\ StepDone /\ Succeeded
      /\ bySig' = [bySig EXCEPT ![Table][at.tx] = at.event]
      /\ UNCHANGED <<rows, latest, pools, announced, deliveries, last, ordered, clean, settled>>
  BY DEF UpsertBySignature
<1>3. /\ Event \in Events /\ at.step \in 1..Len(Program(Event)) /\ at.tx \in Txs
      /\ at.event \in Nat \ {0} /\ Program(Event)[at.step].op = "signature"
  BY <1>1, <1>2, RunningShape
<1>4. Table \in SignatureTables
  BY <1>3, ProgramShape DEF Table
<1>5. bySig \in [SignatureTables -> [Txs -> Nat]]
  BY <1>1 DEF TypeOK
<1>6. /\ bySig' \in [SignatureTables -> [Txs -> Nat]]
      /\ \A b \in SignatureTables, t \in Txs :
           bySig'[b][t] = IF b = Table /\ t = at.tx THEN at.event ELSE bySig[b][t]
  BY <1>2, <1>3, <1>4, <1>5
<1>8. TypeOK'
  <2>1. /\ rows \in [Events -> 0..MaxDeliveries] /\ bySig \in [SignatureTables -> [Txs -> Nat]]
        /\ latest \in [LatestTables -> [Keys -> Events \cup {None}]]
        /\ pools \subseteq Keys /\ announced \subseteq Keys
    BY <1>1 DEF TypeOK
  <2> QED BY <1>1, <1>2, <1>6, <2>1, TypesStay
<1>9. Walked' /\ Prefix'
  BY <1>1, <1>2, SucceededKeepsPrefix
<1>10. \A b \in SignatureTables, t \in Txs : bySig[b][t] # 0 => bySig'[b][t] # 0
  BY <1>3, <1>6
<1>11. Kept'
  <2>1. bySig'[Table][at.tx] # 0
    BY <1>3, <1>4, <1>6
  <2> QED BY <1>1, <1>2, <1>10, <2>1, KeptByStep
<1>12. Counted'
  BY <1>1, <1>2, CountedStays
<1>13. PositionsHaveEvents'
  <2>1. \A k \in Keys : LET p == latest["user_borrow_positions"][k] IN p # None => p[1] \in Txs
    BY <1>1, EventShape DEF TypeOK, LatestTables
  <2> QED BY <1>1, <1>2, <1>10, <2>1 DEF PositionsHaveEvents, SignatureTables
<1> QED BY <1>1, <1>2, <1>8, <1>9, <1>11, <1>12, <1>13 DEF StoreInv

LEMMA LatestStep ==
  ASSUME StoreInv, UpsertLatest
  PROVE  StoreInv'
<1>1. /\ TypeOK /\ AtOK /\ Walked /\ Prefix /\ Kept /\ Counted /\ PositionsHaveEvents
      /\ announced \subseteq pools
  BY DEF StoreInv, TypeOK, AtOK
<1>2. /\ Running("latest") /\ StepDone /\ Succeeded
      /\ latest' = [latest EXCEPT ![Table][KeyOf(Event)] = Event]
      /\ UNCHANGED <<rows, bySig, pools, announced, deliveries, last, ordered, clean, settled>>
  BY DEF UpsertLatest
<1>3. /\ Event \in Events /\ at.step \in 1..Len(Program(Event)) /\ KeyOf(Event) \in Keys
      /\ Program(Event)[at.step].op = "latest"
  BY <1>1, <1>2, RunningShape, KeyShape
<1>4. /\ Table \in LatestTables /\ at.step = 2 /\ 1 \in Writes(Event)
      /\ Program(Event)[1] = IF Table = "user_borrow_positions"
                             THEN BySignature("user_position_updated_events")
                             ELSE Insert
  BY <1>3, ProgramShape DEF Table
<1>5. latest \in [LatestTables -> [Keys -> Events \cup {None}]]
  BY <1>1 DEF TypeOK
<1>6. /\ latest' \in [LatestTables -> [Keys -> Events \cup {None}]]
      /\ \A b \in LatestTables, k \in Keys :
           latest'[b][k] = IF b = Table /\ k = KeyOf(Event) THEN Event ELSE latest[b][k]
  BY <1>2, <1>3, <1>4, <1>5
<1>8. TypeOK'
  <2>1. /\ rows \in [Events -> 0..MaxDeliveries] /\ bySig \in [SignatureTables -> [Txs -> Nat]]
        /\ latest \in [LatestTables -> [Keys -> Events \cup {None}]]
        /\ pools \subseteq Keys /\ announced \subseteq Keys
    BY <1>1 DEF TypeOK
  <2> QED BY <1>1, <1>2, <1>6, <2>1, TypesStay
<1>9. Walked' /\ Prefix'
  BY <1>1, <1>2, SucceededKeepsPrefix
<1>10. Kept'
  BY <1>1, <1>2, KeptByStep
<1>11. Counted'
  BY <1>1, <1>2, CountedStays
<1>12. <<at.tx, at.event, 1>> \in stored
  BY <1>1, <1>2, <1>4, FirstIsStored
<1>13. /\ Table = "user_borrow_positions" => bySig["user_position_updated_events"][Event[1]] # 0
       /\ Table # "user_borrow_positions" => rows[Event] > 0
  <2>1. LET st == Program(<<at.tx, at.event>>)[1] IN
          /\ st.op = "insert" => rows[<<at.tx, at.event>>] > 0
          /\ st.op = "signature" => bySig[st.table][at.tx] # 0
    BY <1>1, <1>12 DEF Kept
  <2>2. Event = <<at.tx, at.event>> /\ Event[1] = at.tx
    BY DEF Event
  <2> QED BY <1>4, <2>1, <2>2 DEF BySignature, Insert
<1>14. PositionsHaveEvents'
  BY <1>1, <1>2, <1>6, <1>13 DEF PositionsHaveEvents, LatestTables
<1> QED BY <1>1, <1>2, <1>8, <1>9, <1>10, <1>11, <1>14 DEF StoreInv

LEMMA PoolStep ==
  ASSUME StoreInv, UpsertPool
  PROVE  StoreInv'
<1>1. /\ TypeOK /\ AtOK /\ Walked /\ Prefix /\ Kept /\ Counted /\ PositionsHaveEvents
      /\ announced \subseteq pools
  BY DEF StoreInv, TypeOK, AtOK
<1>2. /\ Running("pool") /\ StepDone /\ Succeeded /\ pools' = pools \cup {KeyOf(Event)}
      /\ UNCHANGED <<rows, bySig, latest, announced, deliveries, last, ordered, clean, settled>>
  BY DEF UpsertPool
<1>3. KeyOf(Event) \in Keys
  BY <1>1, <1>2, RunningShape, KeyShape
<1>5. TypeOK'
  <2>1. /\ rows \in [Events -> 0..MaxDeliveries] /\ bySig \in [SignatureTables -> [Txs -> Nat]]
        /\ latest \in [LatestTables -> [Keys -> Events \cup {None}]]
        /\ pools \subseteq Keys /\ announced \subseteq Keys
    BY <1>1 DEF TypeOK
  <2> QED BY <1>1, <1>2, <1>3, <2>1, TypesStay
<1>6. Walked' /\ Prefix'
  BY <1>1, <1>2, SucceededKeepsPrefix
<1>7. Kept'
  BY <1>1, <1>2, KeptByStep
<1>8. Counted'
  BY <1>1, <1>2, CountedStays
<1>9. PositionsHaveEvents'
  BY <1>1, <1>2 DEF PositionsHaveEvents
<1> QED BY <1>1, <1>2, <1>5, <1>6, <1>7, <1>8, <1>9 DEF StoreInv

LEMMA WebhookStep ==
  ASSUME StoreInv, PostWebhook
  PROVE  StoreInv'
<1>1. /\ TypeOK /\ AtOK /\ Walked /\ Prefix /\ Kept /\ Counted /\ PositionsHaveEvents
      /\ announced \subseteq pools
  BY DEF StoreInv, TypeOK, AtOK
<1>2. /\ Running("webhook") /\ StepDone
      /\ announced' \in {announced, announced \cup {KeyOf(Event)}}
      /\ UNCHANGED <<rows, bySig, latest, pools>> /\ UNCHANGED history
  BY DEF PostWebhook
<1>3. /\ Event \in Events /\ at.step \in 1..Len(Program(Event)) /\ KeyOf(Event) \in Keys
      /\ Program(Event)[at.step].op = "webhook" /\ at.step \notin Writes(Event)
      /\ at.event \in Nat /\ InEvent
  BY <1>1, <1>2, RunningShape, KeyShape DEF Running
<1>4. /\ at.step = 2 /\ 1 \in Writes(Event) /\ Program(Event)[1].op = "pool"
      /\ Writes(Event) \subseteq Nat
  BY <1>3, ProgramShape
<1>5. <<at.tx, at.event, 1>> \in stored
  BY <1>1, <1>2, <1>4, FirstIsStored
<1>6. KeyOf(Event) \in pools
  BY <1>1, <1>4, <1>5 DEF Kept, Event
<1>7. AtOK' /\ at' = [tx |-> at.tx, event |-> at.event, step |-> at.step + 1]
  BY <1>1, <1>2, StepDoneKeepsAt
<1>8. TypeOK'
  BY <1>1, <1>2, <1>3, <1>7 DEF TypeOK, AtOK, history
<1>9. Walked'
  <2> SUFFICES ASSUME NEW j \in 1..at.event, NEW r \in Writes(<<at.tx, j>>),
                      j < at.event \/ r < at.step + 1
               PROVE  <<at.tx, j, r>> \in stored
    BY <1>2, <1>7 DEF Walked, WalkedTo, history, Writes, Program
  <2>1. j < at.event \/ (j = at.event /\ r \in Nat /\ r # at.step)
    <3>1. CASE j = at.event
      <4>1. r \in Writes(Event)
        BY <3>1 DEF Event
      <4> QED BY <1>3, <1>4, <3>1, <4>1
    <3>2. j \in Nat /\ j <= at.event
      BY <1>3
    <3> QED BY <1>3, <3>1, <3>2
  <2>2. j < at.event \/ r < at.step
    BY <1>4, <2>1
  <2> QED BY <1>1, <1>3, <2>2 DEF Walked, WalkedTo
<1>10. Kept' /\ Prefix'
  BY <1>1, <1>2, PrefixStays DEF Kept, history, Program, Writes, KeyOf
<1>11. Counted'
  BY <1>1, <1>2, CountedStays DEF history
<1>12. PositionsHaveEvents' /\ (announced \subseteq pools)'
  BY <1>1, <1>2, <1>6 DEF PositionsHaveEvents
<1> QED BY <1>8, <1>9, <1>10, <1>11, <1>12 DEF StoreInv

-----------------------------------------------------------------------------

LEMMA StoreStep ==
  ASSUME StoreInv, [Next]_vars
  PROVE  StoreInv'
<1>0. /\ at.tx # 0 => at.tx \in Txs
      /\ clean \in BOOLEAN /\ settled \subseteq Txs
  BY AtShape DEF StoreInv, TypeOK, AtOK
<1>1. ASSUME NEW t \in Txs, Deliver(t) PROVE StoreInv'
  BY <1>1, DeliverStep
<1>2. CASE InsertRow
  BY <1>2, InsertStep
<1>3. CASE UpsertBySignature
  BY <1>3, SignatureStep
<1>4. CASE UpsertLatest
  BY <1>4, LatestStep
<1>5. CASE UpsertPool
  BY <1>5, PoolStep
<1>6. CASE PostWebhook
  BY <1>6, WebhookStep
<1>7. CASE NextEvent
  BY <1>7, NextEventStep
<1>8. CASE Complete
  BY <1>0, <1>8, IdleStep DEF Complete
<1>9. CASE StatementFails \/ Dropped
  BY <1>0, <1>9, IdleStep DEF StatementFails, Dropped, CutShort
<1>10. CASE UNCHANGED vars
  <2>1. UNCHANGED at /\ UNCHANGED tables /\ UNCHANGED history
    BY <1>10 DEF vars
  <2>2. TypeOK' /\ Counted'
    BY <2>1 DEF StoreInv, TypeOK, Counted, tables, history
  <2>3. Walked'
    BY <2>1 DEF StoreInv, Walked, WalkedTo, InEvent, history, Writes, Program
  <2> QED BY <2>1, <2>2, <2>3, TablesStay DEF StoreInv, history
<1> QED BY <1>1, <1>2, <1>3, <1>4, <1>5, <1>6, <1>7, <1>8, <1>9, <1>10 DEF Next

\* Every variable of the store keeps its type, for any chain and any number of
\* deliveries: a table never holds more rows of an event than it was delivered.
THEOREM TypeCorrect == Spec => []TypeOK
<1>1. StoreInv => TypeOK
  BY DEF StoreInv
<1> QED BY <1>1, StoreInit, StoreStep, PTL DEF Spec

\* What the database holds of a transaction is a prefix of its statements, and
\* nothing it shows refers to a row that is missing (processors.rs, database.rs),
\* for any chain, whatever is delivered again, out of order or cut short.
THEOREM PrefixIsPersisted == Spec => []PrefixPersisted
<1>1. StoreInv => PrefixPersisted
  BY DEF StoreInv, Prefix, PrefixPersisted
<1> QED BY <1>1, StoreInit, StoreStep, PTL DEF Spec

-----------------------------------------------------------------------------
(* SettledIsComplete: what the delivery at work has passed is in the        *)
(* tables, and only a delivery of the same transaction overwrites a row of  *)
(* the transaction.                                                         *)

Passed(j, r) == j < at.event \/ (j = at.event /\ r < at.step)

PassedIsPresent ==
  at.tx # 0 =>
    /\ at.tx \notin settled
    /\ \A j \in DOMAIN Chain[at.tx] : \A r \in Writes(<<at.tx, j>>) :
         Passed(j, r) => Present(at.tx, j, r)

SettledInv == SettledIsComplete /\ PassedIsPresent

\* A statement of another transaction, or a later one of the same, takes nothing
\* away of what is present.
LEMMA PresentStays ==
  ASSUME TypeOK, NEW op, Running(op), NEW t \in Txs, NEW i \in DOMAIN Chain[t],
         NEW s \in Writes(<<t, i>>), Present(t, i, s), t = at.tx => i <= at.event,
         InsertRow \/ UpsertBySignature \/ UpsertLatest \/ UpsertPool \/ PostWebhook
  PROVE  Present(t, i, s)'
<1> DEFINE e == <<t, i>>
           st == Program(e)[s]
<1>1. /\ e \in Events /\ KeyOf(e) \in Keys /\ s \in 1..Len(Program(e))
      /\ st.op = "signature" => st.table \in SignatureTables /\ st = BySignature(st.table)
      /\ st.op = "latest" => st.table \in LatestTables
  BY EventShape, KeyShape, ProgramShape
<1>2. /\ Event \in Events /\ Event[1] # 0 /\ KeyOf(Event) \in Keys /\ at.tx \in Txs
      /\ at.event \in Nat \ {0} /\ at.step \in 1..Len(Program(Event))
      /\ DOMAIN Program(Event) = 1..Len(Program(Event))
  <2>1. AtOK
    BY DEF TypeOK, AtOK
  <2>2. Event \in Events /\ at.tx \in Txs /\ at.event \in 1..Len(Chain[at.tx])
        /\ at.step \in 1..Len(Program(Event))
    BY <2>1, RunningShape
  <2>3. Event[1] = at.tx /\ at.tx # 0
    BY <2>2, ChainShape DEF Event
  <2> QED BY <2>2, <2>3, KeyShape, ProgramShape
<1>3. /\ rows \in [Events -> 0..MaxDeliveries] /\ bySig \in [SignatureTables -> [Txs -> Nat]]
      /\ latest \in [LatestTables -> [Keys -> Events \cup {None}]]
  BY DEF TypeOK
<1>4. ASSUME st.op = "insert" PROVE rows'[e] > 0
  <2>1. rows[e] > 0
    BY <1>4 DEF Present
  <2>2. rows' = [rows EXCEPT ![Event] = @ + 1] \/ rows' = rows
    BY DEF InsertRow, UpsertBySignature, UpsertLatest, UpsertPool, PostWebhook
  <2>3. ASSUME NEW f \in Events, rows[f] > 0 PROVE rows'[f] > 0
    <3>1. rows[f] \in Nat
      BY <1>3
    <3>2. rows'[f] = rows[f] + 1 \/ rows'[f] = rows[f]
      BY <1>3, <2>2
    <3> QED BY <2>3, <3>1, <3>2
  <2> HIDE DEF e
  <2> QED BY <1>1, <2>1, <2>3
<1>5. ASSUME st.op = "signature"
      PROVE  LET holder == Program(<<t, bySig'[st.table][t]>>)
             IN bySig'[st.table][t] >= i /\ \E r \in DOMAIN holder : holder[r] = st
  <2>1. LET holder == Program(<<t, bySig[st.table][t]>>)
        IN bySig[st.table][t] >= i /\ \E r \in DOMAIN holder : holder[r] = st
    BY <1>5 DEF Present
  <2>2. CASE UpsertBySignature
    <3>1. bySig' = [bySig EXCEPT ![Table][at.tx] = at.event] /\ Running("signature")
      BY <2>2 DEF UpsertBySignature
    <3>2. Table \in SignatureTables /\ Program(Event)[at.step] = BySignature(Table)
      <4>1. Program(Event)[at.step].op = "signature"
        BY <3>1 DEF Running
      <4> QED BY <1>2, <4>1, ProgramShape DEF Table
    <3>3. CASE st.table = Table /\ t = at.tx
      <4>1. bySig'[st.table][t] = at.event
        BY <1>1, <1>2, <1>3, <3>1, <3>2, <3>3
      <4>2. st = Program(Event)[at.step] /\ Event = <<t, at.event>>
        BY <1>1, <1>5, <3>2, <3>3 DEF Event
      <4> QED BY <1>2, <3>3, <4>1, <4>2
    <3>4. CASE ~(st.table = Table /\ t = at.tx)
      <4>1. bySig'[st.table][t] = bySig[st.table][t]
        BY <1>1, <1>2, <1>3, <1>5, <3>1, <3>2, <3>4
      <4> QED BY <2>1, <4>1
    <3> QED BY <3>3, <3>4
  <2>3. CASE bySig' = bySig
    BY <2>1, <2>3
  <2> QED BY <2>2, <2>3 DEF InsertRow, UpsertLatest, UpsertPool, PostWebhook
<1>6. ASSUME st.op = "latest" PROVE latest'[st.table][KeyOf(e)] # None
  <2>1. latest[st.table][KeyOf(e)] # None
    BY <1>6 DEF Present
  <2>2. CASE UpsertLatest
    <3>1. latest' = [latest EXCEPT ![Table][KeyOf(Event)] = Event] /\ Running("latest")
      BY <2>2 DEF UpsertLatest
    <3>2. Table \in LatestTables
      <4>1. Program(Event)[at.step].op = "latest"
        BY <3>1 DEF Running
      <4> QED BY <1>2, <4>1, ProgramShape DEF Table
    <3>3. Event # None
      BY <1>2 DEF None
    <3> QED BY <1>1, <1>2, <1>3, <1>6, <2>1, <3>1, <3>2, <3>3
  <2>3. CASE latest' = latest
    BY <2>1, <2>3
  <2> QED BY <2>2, <2>3 DEF InsertRow, UpsertBySignature, UpsertPool, PostWebhook
<1>7. ASSUME st.op = "pool" PROVE KeyOf(e) \in pools'
  <2>1. KeyOf(e) \in pools
    BY <1>7 DEF Present
  <2> QED BY <2>1 DEF InsertRow, UpsertBySignature, UpsertLatest, UpsertPool, PostWebhook
<1> QED BY <1>4, <1>5, <1>6, <1>7 DEF Present, Program, KeyOf

\* What the statement that succeeds writes is present.
LEMMA NewIsPresent ==
  ASSUME TypeOK, NEW op, Running(op), NEW t \in Txs, NEW i \in DOMAIN Chain[t],
         NEW s \in Writes(<<t, i>>), t = at.tx, i = at.event, s = at.step,
         InsertRow \/ UpsertBySignature \/ UpsertLatest \/ UpsertPool \/ PostWebhook
  PROVE  Present(t, i, s)'
<1> DEFINE e == <<t, i>>
           st == Program(e)[s]
<1>1. /\ e \in Events /\ KeyOf(e) \in Keys /\ s \in DOMAIN Program(e) /\ e = Event
      /\ st.op = "signature" => st.table \in SignatureTables
      /\ st.op = "latest" => st.table \in LatestTables
      /\ st.op # "webhook" /\ i \in Nat \ {0} /\ t # 0
  BY EventShape, KeyShape, ProgramShape, ChainShape DEF Event, Writes
<1>2. /\ rows \in [Events -> 0..MaxDeliveries] /\ bySig \in [SignatureTables -> [Txs -> Nat]]
      /\ latest \in [LatestTables -> [Keys -> Events \cup {None}]]
  BY DEF TypeOK
<1>3. CASE InsertRow
  <2>1. st.op = "insert" /\ rows' = [rows EXCEPT ![e] = @ + 1]
    BY <1>1, <1>3 DEF InsertRow, Running
  <2>2. rows[e] \in Nat /\ rows'[e] = rows[e] + 1
    BY <1>1, <1>2, <2>1
  <2>3. rows'[e] > 0
    BY <2>2
  <2> QED BY <2>1, <2>3 DEF Present, Program, KeyOf
<1>4. CASE UpsertBySignature
  <2>1. st.op = "signature" /\ bySig' = [bySig EXCEPT ![st.table][t] = i]
    BY <1>1, <1>4 DEF UpsertBySignature, Running, Table
  <2>2. bySig'[st.table][t] = i
    BY <1>1, <1>2, <2>1
  <2>3. LET holder == Program(<<t, bySig'[st.table][t]>>)
        IN bySig'[st.table][t] >= i /\ \E r \in DOMAIN holder : holder[r] = st
    BY <1>1, <2>2
  <2> QED BY <2>1, <2>3 DEF Present, Program, KeyOf
<1>5. CASE UpsertLatest
  <2>1. st.op = "latest" /\ latest' = [latest EXCEPT ![st.table][KeyOf(e)] = e]
    BY <1>1, <1>5 DEF UpsertLatest, Running, Table
  <2>2. latest'[st.table][KeyOf(e)] = e /\ e # None
    BY <1>1, <1>2, <2>1 DEF None
  <2> QED BY <2>1, <2>2 DEF Present, Program, KeyOf
<1>6. CASE UpsertPool
  <2>1. st.op = "pool" /\ KeyOf(e) \in pools'
    BY <1>1, <1>6 DEF UpsertPool, Running
  <2> QED BY <2>1 DEF Present, Program, KeyOf
<1>7. CASE PostWebhook
  BY <1>1, <1>7 DEF PostWebhook, Running
<1> QED BY <1>3, <1>4, <1>5, <1>6, <1>7

LEMMA SettledStatement ==
  ASSUME StoreInv, SettledInv,
         InsertRow \/ UpsertBySignature \/ UpsertLatest \/ UpsertPool \/ PostWebhook
  PROVE  SettledInv'
<1>1. TypeOK /\ AtOK /\ settled \subseteq Txs
  BY DEF StoreInv, TypeOK, AtOK
<1>2. PICK op : Running(op) /\ StepDone
  BY DEF InsertRow, UpsertBySignature, UpsertLatest, UpsertPool, PostWebhook
<1>3. settled' = settled
  BY DEF InsertRow, UpsertBySignature, UpsertLatest, UpsertPool, PostWebhook, history
<1>4. /\ at' = [tx |-> at.tx, event |-> at.event, step |-> at.step + 1]
      /\ at.tx \in Txs /\ at.tx # 0 /\ at.event \in Nat /\ at.step \in Nat
      /\ Event \in Events
  BY <1>1, <1>2, StepDoneKeepsAt, RunningShape, ChainShape
<1>5. at.tx \notin settled
  BY <1>4 DEF SettledInv, PassedIsPresent
<1>6. SettledIsComplete'
  <2> SUFFICES ASSUME NEW t \in settled, NEW i \in DOMAIN Chain[t], NEW s \in Writes(<<t, i>>)
               PROVE  Present(t, i, s)'
    BY <1>3 DEF SettledIsComplete, Writes, Program
  <2>1. Present(t, i, s) /\ t \in Txs /\ t # at.tx
    BY <1>1, <1>5 DEF SettledInv, SettledIsComplete
  <2> QED BY <1>1, <1>2, <2>1, PresentStays
<1>7. PassedIsPresent'
  <2>1. ASSUME NEW t \in Txs, t = at.tx, NEW j \in DOMAIN Chain[t], NEW r \in Writes(<<t, j>>),
               j < at.event \/ (j = at.event /\ r < at.step + 1)
        PROVE  Present(t, j, r)'
    <3>1. <<t, j>> \in Events /\ r \in Nat /\ j \in Nat
      BY EventShape, ChainShape, ProgramShape
    <3>2. CASE Passed(j, r)
      <4>1. Present(t, j, r) /\ j <= at.event
        BY <1>4, <2>1, <3>1, <3>2 DEF SettledInv, PassedIsPresent, Passed
      <4> QED BY <1>1, <1>2, <4>1, PresentStays
    <3>3. CASE j = at.event /\ r = at.step
      BY <1>1, <1>2, <2>1, <3>3, NewIsPresent
    <3> QED BY <1>4, <2>1, <3>1, <3>2, <3>3 DEF Passed
  <2>2. /\ at'.tx = at.tx /\ at'.event = at.event /\ at'.step = at.step + 1
    BY <1>4
  <2> QED BY <1>3, <1>4, <1>5, <2>1, <2>2 DEF PassedIsPresent, Passed, Writes, Program
<1> QED BY <1>6, <1>7 DEF SettledInv

LEMMA PresentUnchanged ==
  ASSUME UNCHANGED tables, NEW t, NEW i, NEW s
  PROVE  Present(t, i, s)' = Present(t, i, s)
  BY DEF tables, Present, Program, KeyOf

LEMMA SettledStep ==
  ASSUME StoreInv, SettledInv, [Next]_vars
  PROVE  SettledInv'
<1>0. AtOK
  BY DEF StoreInv, TypeOK, AtOK
<1>1. ASSUME NEW t \in Txs, Deliver(t) PROVE SettledInv'
  <2>1. /\ at' = [tx |-> t, event |-> 1, step |-> 1] /\ settled' = settled \ {t}
        /\ UNCHANGED tables
    BY <1>1 DEF Deliver
  <2>2. SettledIsComplete'
    BY <2>1, PresentUnchanged DEF SettledInv, SettledIsComplete, Writes, Program
  <2>3. ASSUME NEW j \in DOMAIN Chain[t], NEW r \in Writes(<<t, j>>), j < 1 \/ (j = 1 /\ r < 1)
        PROVE  FALSE
    BY <2>3, EventShape, ChainShape, ProgramShape
  <2>4. at'.tx = t /\ at'.event = 1 /\ at'.step = 1
    BY <2>1
  <2>5. PassedIsPresent'
    BY <2>1, <2>3, <2>4 DEF PassedIsPresent, Passed, Writes, Program
  <2> QED BY <2>2, <2>5 DEF SettledInv
<1>2. CASE InsertRow \/ UpsertBySignature \/ UpsertLatest \/ UpsertPool \/ PostWebhook
  BY <1>2, SettledStatement
<1>3. CASE NextEvent
  <2>1. /\ at.tx \in Txs /\ at.tx # 0 /\ at.event \in Nat /\ at.step > Len(Program(Event))
        /\ at' = [tx |-> at.tx, event |-> at.event + 1, step |-> 1]
        /\ UNCHANGED tables /\ UNCHANGED settled /\ Event \in Events /\ at.step \in Nat
    BY <1>0, <1>3, AtShape, InEventShape DEF NextEvent, InEvent, history
  <2>2. ASSUME NEW j \in DOMAIN Chain[at.tx], NEW r \in Writes(<<at.tx, j>>),
               j < at.event + 1 \/ (j = at.event + 1 /\ r < 1)
        PROVE  Passed(j, r)
    <3>1. <<at.tx, j>> \in Events /\ j \in Nat
      BY <2>1, EventShape, ChainShape
    <3>2. r \in 1..Len(Program(<<at.tx, j>>)) /\ Len(Program(<<at.tx, j>>)) \in Nat
      BY <3>1, ProgramShape
    <3>3. CASE j = at.event
      BY <2>1, <3>2, <3>3 DEF Passed, Event
    <3>4. j = at.event \/ j < at.event
      BY <2>1, <2>2, <3>1, <3>2
    <3> QED BY <3>3, <3>4 DEF Passed
  <2>3. at'.tx = at.tx /\ at'.event = at.event + 1 /\ at'.step = 1
    BY <2>1
  <2>4. PassedIsPresent'
    BY <2>1, <2>2, <2>3, PresentUnchanged DEF SettledInv, PassedIsPresent, Passed, Writes, Program
  <2>5. SettledIsComplete'
    BY <2>1, PresentUnchanged DEF SettledInv, SettledIsComplete, Writes, Program
  <2> QED BY <2>4, <2>5 DEF SettledInv
<1>4. CASE Complete
  <2>1. /\ at.tx \in Txs /\ at.event > Len(Chain[at.tx]) /\ at'.tx = 0
        /\ settled' = settled \cup {at.tx} /\ UNCHANGED tables /\ at.event \in Nat /\ at.tx # 0
    BY <1>0, <1>4, AtShape DEF Complete, Idle
  <2>2. ASSUME NEW t \in settled', NEW i \in DOMAIN Chain[t], NEW s \in Writes(<<t, i>>)
        PROVE  Present(t, i, s)'
    <3>0. Present(t, i, s)' = Present(t, i, s)
      BY <2>1, PresentUnchanged
    <3>1. CASE t = at.tx
      <4>1. i < at.event
        BY <2>1, <3>1, ChainShape
      <4> QED BY <2>1, <2>2, <3>0, <3>1, <4>1 DEF SettledInv, PassedIsPresent, Passed
    <3>2. CASE t \in settled
      BY <2>2, <3>0, <3>2 DEF SettledInv, SettledIsComplete
    <3> QED BY <2>1, <2>2, <3>1, <3>2
  <2>3. SettledIsComplete'
    BY <2>2 DEF SettledIsComplete, Writes, Program
  <2> QED BY <2>1, <2>3 DEF SettledInv, PassedIsPresent
<1>5. CASE StatementFails \/ Dropped
  <2>1. at'.tx = 0 /\ settled' = settled /\ UNCHANGED tables
    BY <1>5 DEF StatementFails, Dropped, CutShort, Idle
  <2>2. SettledIsComplete'
    BY <2>1, PresentUnchanged DEF SettledInv, SettledIsComplete, Writes, Program
  <2> QED BY <2>1, <2>2 DEF SettledInv, PassedIsPresent
<1>6. CASE UNCHANGED vars
  <2>1. UNCHANGED at /\ UNCHANGED settled /\ UNCHANGED tables
    BY <1>6 DEF vars, history
  <2>2. SettledIsComplete'
    BY <2>1, PresentUnchanged DEF SettledInv, SettledIsComplete, Writes, Program
  <2>3. PassedIsPresent'
    BY <2>1, PresentUnchanged DEF SettledInv, PassedIsPresent, Passed, Writes, Program
  <2> QED BY <2>2, <2>3 DEF SettledInv
<1> QED BY <1>1, <1>2, <1>3, <1>4, <1>5, <1>6 DEF Next

\* A transaction whose last delivery came to its end is all in the tables, for
\* any chain, whatever other deliveries do before and after.
THEOREM SettledIsAllThere == Spec => []SettledIsComplete
<1>1. Init => SettledInv
  BY DEF Init, SettledInv, SettledIsComplete, PassedIsPresent, Idle
<1>2. SettledInv => SettledIsComplete
  BY DEF SettledInv
<1> QED BY <1>1, <1>2, StoreInit, StoreStep, SettledStep, PTL DEF Spec

-----------------------------------------------------------------------------
(* LatestIsNewest: while transactions come in order and whole, the only     *)
(* events newer than the position shown are those the delivery at work has  *)
(* yet to show, again or for the first time.                                *)

YetToShow(e) ==
  e[1] = at.tx /\ (at.event < e[2] \/ (at.event = e[2] /\ at.step <= 2))

NewestShown ==
  \A b \in LatestTables, k \in Keys :
    /\ latest[b][k] \in EventsOf(b, k) \cup {None}
    /\ \A e \in EventsOf(b, k) : Newer(latest[b][k], e) => YetToShow(e)

LatestInv ==
  clean /\ ordered =>
    /\ at.tx # 0 => last = at.tx
    /\ \A x \in stored : x[1] <= last
    /\ NewestShown

\* An event that shows a position does so in its second statement.
LEMMA EventsOfShape ==
  ASSUME NEW b, NEW k, NEW e \in EventsOf(b, k)
  PROVE  /\ e \in Events /\ KeyOf(e) = k /\ <<e[1], e[2], 1>> \in stored
         /\ Len(Program(e)) = 2
         /\ e[1] \in Nat \ {0} /\ e[2] \in Nat \ {0} /\ e[1] \in Txs /\ e[2] \in 1..Len(Chain[e[1]])
<1>1. e \in Events /\ KeyOf(e) = k /\ <<e[1], e[2], 1>> \in stored
  BY DEF EventsOf
<1>2. PICK s \in DOMAIN Program(e) : Program(e)[s] = Latest(b)
  BY DEF EventsOf
<1>3. Program(e)[s].op = "latest" /\ Program(e)[s].table = b
  BY <1>2 DEF Latest
<1>4. Len(Program(e)) \in 0..2 /\ s \in 1..Len(Program(e)) /\ s = 2
  BY <1>1, <1>2, <1>3, ProgramShape
<1>5. e[1] \in Txs /\ e[2] \in 1..Len(Chain[e[1]]) /\ e[1] \in Nat \ {0}
  BY <1>1, EventShape, ChainShape
<1> QED BY <1>1, <1>3, <1>4, <1>5, ChainShape

LEMMA EventsOfTable ==
  ASSUME NEW b, NEW k, NEW e \in EventsOf(b, k)
  PROVE  Program(e)[2].op = "latest" /\ Program(e)[2].table = b
<1>1. e \in Events
  BY DEF EventsOf
<1>2. PICK s \in DOMAIN Program(e) : Program(e)[s] = Latest(b)
  BY DEF EventsOf
<1>3. Program(e)[s].op = "latest" /\ Program(e)[s].table = b
  BY <1>2 DEF Latest
<1>4. s = 2
  BY <1>1, <1>2, <1>3, ProgramShape
<1> QED BY <1>3, <1>4

\* A stored statement stays stored, and the one of the event at work is added.
LEMMA EventsOfGrows ==
  ASSUME TypeOK, NEW op, Running(op), UNCHANGED stored \/ Succeeded, NEW b, NEW k
  PROVE  /\ EventsOf(b, k) \subseteq EventsOf(b, k)'
         /\ \A e \in EventsOf(b, k)' : e \in EventsOf(b, k) \/ (e = Event /\ at.step = 1)
<1>1. stored \subseteq stored' /\ stored' \subseteq stored \cup {<<at.tx, at.event, at.step>>}
  BY DEF Succeeded
<1>2. EventsOf(b, k)' =
        {e \in Events : /\ KeyOf(e) = k
                        /\ \E s \in DOMAIN Program(e) : Program(e)[s] = Latest(b)
                        /\ <<e[1], e[2], 1>> \in stored'}
  BY DEF EventsOf, KeyOf, Program
<1>3. EventsOf(b, k) \subseteq EventsOf(b, k)'
  BY <1>1, <1>2 DEF EventsOf
<1>4. ASSUME NEW e \in EventsOf(b, k)', e \notin EventsOf(b, k)
      PROVE  e = Event /\ at.step = 1
  <2>1. <<e[1], e[2], 1>> = <<at.tx, at.event, at.step>>
    BY <1>1, <1>2, <1>4 DEF EventsOf
  <2>2. e = <<e[1], e[2]>>
    BY <1>2, <1>4, EventShape
  <2> QED BY <2>1, <2>2 DEF Event
<1> QED BY <1>3, <1>4

LEMMA EventsOfUnchanged ==
  ASSUME UNCHANGED stored, NEW b, NEW k
  PROVE  EventsOf(b, k)' = EventsOf(b, k)
  BY DEF EventsOf, KeyOf, Program

\* The statements that show no position.
LEMMA LatestOtherStatement ==
  ASSUME StoreInv, LatestInv, InsertRow \/ UpsertBySignature \/ UpsertPool \/ PostWebhook
  PROVE  LatestInv'
<1>1. TypeOK /\ AtOK
  BY DEF StoreInv, TypeOK, AtOK
<1>2. PICK op : Running(op) /\ StepDone /\ op # "latest"
  BY DEF InsertRow, UpsertBySignature, UpsertPool, PostWebhook
<1>3. /\ UNCHANGED stored \/ Succeeded
      /\ UNCHANGED latest /\ UNCHANGED last /\ UNCHANGED ordered /\ UNCHANGED clean
  BY DEF InsertRow, UpsertBySignature, UpsertPool, PostWebhook, history
<1>4. /\ at' = [tx |-> at.tx, event |-> at.event, step |-> at.step + 1]
      /\ at.tx \in Txs /\ at.tx \in Nat \ {0} /\ at.event \in Nat /\ at.step \in {1, 2}
      /\ Event \in Events /\ Program(Event)[at.step].op = op
  BY <1>1, <1>2, StepDoneKeepsAt, RunningShape, ChainShape
<1> SUFFICES ASSUME clean, ordered
             PROVE  /\ last = at.tx
                    /\ \A x \in stored' : x[1] <= last
                    /\ NewestShown'
  BY <1>3, <1>4 DEF LatestInv
<1>5. last = at.tx /\ (\A x \in stored : x[1] <= last) /\ NewestShown
  BY <1>4 DEF LatestInv
<1>6. \A x \in stored' : x[1] <= last
  BY <1>3, <1>4, <1>5 DEF Succeeded
<1>7. ASSUME NEW b \in LatestTables, NEW k \in Keys
      PROVE  /\ latest[b][k] \in EventsOf(b, k)' \cup {None}
             /\ \A e \in EventsOf(b, k)' : Newer(latest[b][k], e) => YetToShow(e)'
  <2>1. /\ EventsOf(b, k) \subseteq EventsOf(b, k)'
        /\ \A e \in EventsOf(b, k)' : e \in EventsOf(b, k) \/ (e = Event /\ at.step = 1)
    BY <1>1, <1>2, <1>3, EventsOfGrows
  <2>2. ASSUME NEW e \in EventsOf(b, k)', Newer(latest[b][k], e)
        PROVE  e[1] = at.tx /\ (at.event < e[2] \/ (at.event = e[2] /\ at.step + 1 <= 2))
    <3>1. CASE e = Event /\ at.step = 1
      BY <1>4, <3>1 DEF Event
    <3>2. CASE e \in EventsOf(b, k)
      <4>1. YetToShow(e)
        BY <1>5, <2>2, <3>2 DEF NewestShown
      <4>2. CASE at.event < e[2]
        BY <4>1, <4>2 DEF YetToShow
      <4>3. CASE at.event = e[2]
        <5>1. e = Event
          BY <3>2, <4>1, <4>3, EventsOfShape, EventShape DEF YetToShow, Event
        <5>2. Program(Event)[2].op = "latest"
          BY <3>2, <5>1, EventsOfTable
        <5>3. at.step = 1
          BY <1>2, <1>4, <5>2
        <5> QED BY <4>1, <4>3, <5>3 DEF YetToShow
      <4> QED BY <4>1, <4>2, <4>3 DEF YetToShow
    <3> QED BY <2>1, <2>2, <3>1, <3>2
  <2> QED BY <1>4, <1>5, <2>1, <2>2 DEF NewestShown, YetToShow
<1>8. NewestShown'
  BY <1>3, <1>7 DEF NewestShown, Newer
<1> QED BY <1>5, <1>6, <1>8

LEMMA LatestLatest ==
  ASSUME StoreInv, LatestInv, UpsertLatest
  PROVE  LatestInv'
<1>1. TypeOK /\ AtOK /\ Walked
  BY DEF StoreInv, TypeOK, AtOK
<1>2. /\ Running("latest") /\ StepDone /\ Succeeded
      /\ latest' = [latest EXCEPT ![Table][KeyOf(Event)] = Event]
      /\ UNCHANGED <<last, ordered, clean>>
  BY DEF UpsertLatest
<1>3. /\ at' = [tx |-> at.tx, event |-> at.event, step |-> at.step + 1]
      /\ at.tx \in Txs /\ at.tx \in Nat \ {0} /\ at.event \in Nat
      /\ Event \in Events /\ KeyOf(Event) \in Keys
      /\ at.step \in 1..Len(Program(Event)) /\ Program(Event)[at.step].op = "latest"
  BY <1>1, <1>2, StepDoneKeepsAt, RunningShape, ChainShape, KeyShape
<1>4. Table \in LatestTables /\ at.step = 2 /\ 1 \in Writes(Event)
  BY <1>3, ProgramShape DEF Table
<1> SUFFICES ASSUME clean, ordered
             PROVE  /\ last = at.tx
                    /\ \A x \in stored' : x[1] <= last
                    /\ NewestShown'
  BY <1>2, <1>3 DEF LatestInv
<1>5. last = at.tx /\ (\A x \in stored : x[1] <= last) /\ NewestShown
  BY <1>3 DEF LatestInv
<1>6. \A x \in stored' : x[1] <= last
  BY <1>2, <1>3, <1>5 DEF Succeeded
<1>7. \A b \in LatestTables, k \in Keys :
        latest'[b][k] = IF b = Table /\ k = KeyOf(Event) THEN Event ELSE latest[b][k]
  BY <1>1, <1>2, <1>3, <1>4 DEF TypeOK
<1>8. ASSUME NEW b \in LatestTables, NEW k \in Keys
      PROVE  /\ latest'[b][k] \in EventsOf(b, k)' \cup {None}
             /\ \A e \in EventsOf(b, k)' : Newer(latest'[b][k], e) =>
                  e[1] = at.tx /\ at.event < e[2]
  <2>1. /\ EventsOf(b, k) \subseteq EventsOf(b, k)'
        /\ \A e \in EventsOf(b, k)' : e \in EventsOf(b, k)
    BY <1>1, <1>2, <1>4, EventsOfGrows
  <2>2. CASE b = Table /\ k = KeyOf(Event)
    <3>1. <<at.tx, at.event, 1>> \in stored
      BY <1>1, <1>2, <1>4, FirstIsStored
    <3>2. Event \in EventsOf(b, k)
      <4>1. Program(Event)[2] = Latest(b) /\ 2 \in DOMAIN Program(Event)
        BY <1>3, <1>4, <2>2, ProgramShape DEF Table
      <4> QED BY <1>3, <2>2, <3>1, <4>1 DEF EventsOf, Event
    <3>3. ASSUME NEW e \in EventsOf(b, k), Newer(Event, e)
          PROVE  e[1] = at.tx /\ at.event < e[2]
      <4>1. <<e[1], e[2], 1>> \in stored /\ e[1] \in Nat
        BY EventsOfShape
      <4>2. e[1] <= at.tx
        BY <1>5, <4>1
      <4> QED BY <1>3, <3>3, <4>1, <4>2 DEF Newer, Event
    <3>4. latest'[b][k] = Event
      BY <1>7, <2>2
    <3> QED BY <2>1, <3>2, <3>3, <3>4
  <2>3. CASE ~(b = Table /\ k = KeyOf(Event))
    <3>1. latest'[b][k] = latest[b][k]
      BY <1>7, <2>3
    <3>2. ASSUME NEW e \in EventsOf(b, k), Newer(latest[b][k], e)
          PROVE  e[1] = at.tx /\ at.event < e[2]
      <4>1. YetToShow(e)
        BY <1>5, <3>2 DEF NewestShown
      <4>2. e # Event
        <5>1. KeyOf(e) = k /\ Program(e)[2].table = b
          BY EventsOfShape, EventsOfTable
        <5> QED BY <1>4, <2>3, <5>1 DEF Table
      <4>3. e = <<e[1], e[2]>>
        BY EventsOfShape, EventShape
      <4> QED BY <4>1, <4>2, <4>3 DEF YetToShow, Event
    <3> QED BY <1>5, <2>1, <3>1, <3>2 DEF NewestShown
  <2> QED BY <2>2, <2>3
<1>9. NewestShown'
  BY <1>3, <1>8 DEF NewestShown, Newer, YetToShow
<1> QED BY <1>5, <1>6, <1>9

\* A step that stores and shows nothing needs only that what was yet to show is
\* so still.
LEMMA NewestStays ==
  ASSUME NewestShown, UNCHANGED stored, UNCHANGED latest,
         \A b \in LatestTables, k \in Keys : \A e \in EventsOf(b, k) :
           Newer(latest[b][k], e) /\ YetToShow(e) => YetToShow(e)'
  PROVE  NewestShown'
<1> SUFFICES ASSUME NEW b \in LatestTables, NEW k \in Keys
             PROVE  /\ latest[b][k] \in EventsOf(b, k)' \cup {None}
                    /\ \A e \in EventsOf(b, k)' : Newer(latest[b][k], e) => YetToShow(e)'
  BY DEF NewestShown, Newer
<1>1. EventsOf(b, k)' = EventsOf(b, k)
  BY EventsOfUnchanged
<1> QED BY <1>1 DEF NewestShown

LEMMA LatestStepInv ==
  ASSUME StoreInv, LatestInv, [Next]_vars
  PROVE  LatestInv'
<1>0. AtOK /\ TypeOK
  BY DEF StoreInv, TypeOK, AtOK
<1>1. ASSUME NEW t \in Txs, Deliver(t) PROVE LatestInv'
  <2>1. /\ at.tx = 0 /\ at'.tx = t /\ last' = t /\ UNCHANGED stored /\ UNCHANGED latest
        /\ clean' = clean /\ ordered' = (ordered /\ last <= t) /\ t \in Nat
    BY <1>1, ChainShape DEF Deliver, Idle, tables
  <2> SUFFICES ASSUME clean, ordered, last <= t
               PROVE  (\A x \in stored : x[1] <= t) /\ NewestShown'
    BY <2>1 DEF LatestInv
  <2>2. (\A x \in stored : x[1] <= last) /\ NewestShown
    BY DEF LatestInv
  <2>3. ASSUME NEW x \in stored PROVE x[1] <= t
    <3>1. x[1] \in Txs
      BY <1>0, StoredShape
    <3>2. x[1] \in Nat
      BY <3>1, ChainShape
    <3>3. last \in Nat
      BY <1>0, ChainShape DEF TypeOK
    <3> QED BY <2>1, <2>2, <3>2, <3>3
  <2>4. \A b \in LatestTables, k \in Keys : \A e \in EventsOf(b, k) : ~YetToShow(e)
    BY <2>1, EventsOfShape DEF YetToShow
  <2> QED BY <2>1, <2>2, <2>3, <2>4, NewestStays
<1>2. CASE InsertRow \/ UpsertBySignature \/ UpsertPool \/ PostWebhook
  BY <1>2, LatestOtherStatement
<1>3. CASE UpsertLatest
  BY <1>3, LatestLatest
<1>4. CASE NextEvent
  <2>1. /\ at.tx # 0 /\ at.event \in Nat /\ at.step \in Nat /\ at.step > Len(Program(Event))
        /\ at' = [tx |-> at.tx, event |-> at.event + 1, step |-> 1]
        /\ UNCHANGED latest /\ UNCHANGED <<stored, last, clean, ordered>>
    BY <1>0, <1>4, AtShape DEF NextEvent, InEvent, history, tables
  <2> SUFFICES ASSUME clean, ordered PROVE NewestShown'
    BY <2>1 DEF LatestInv
  <2>2. ASSUME NEW b, NEW k, NEW e \in EventsOf(b, k), YetToShow(e)
        PROVE  YetToShow(e)'
    <3>1. e \in Events /\ Len(Program(e)) = 2 /\ e[2] \in Nat
      BY EventsOfShape
    <3>2. CASE at.event = e[2]
      <4>1. e = Event
        BY <2>2, <3>1, <3>2, EventShape DEF YetToShow, Event
      <4>2. at.step > 2
        BY <2>1, <3>1, <4>1
      <4>3. at.step <= 2
        BY <2>1, <2>2, <3>2 DEF YetToShow
      <4> QED BY <2>1, <4>2, <4>3
    <3>3. CASE at.event < e[2]
      BY <2>1, <2>2, <3>1, <3>3 DEF YetToShow
    <3> QED BY <2>2, <3>2, <3>3 DEF YetToShow
  <2> QED BY <2>1, <2>2, NewestStays DEF LatestInv
<1>5. CASE Complete
  <2>1. /\ at.tx # 0 /\ at.event > Len(Chain[at.tx]) /\ at'.tx = 0 /\ at.event \in Nat
        /\ UNCHANGED latest /\ UNCHANGED <<stored, last, clean, ordered>>
    BY <1>0, <1>5, AtShape DEF Complete, Idle, tables
  <2> SUFFICES ASSUME clean, ordered PROVE NewestShown'
    BY <2>1 DEF LatestInv
  <2>2. ASSUME NEW b, NEW k, NEW e \in EventsOf(b, k), YetToShow(e)
        PROVE  FALSE
    <3>1. e[2] \in 1..Len(Chain[e[1]]) /\ e[2] \in Nat /\ e[1] \in Txs
      BY EventsOfShape
    <3>2. e[1] = at.tx /\ at.event <= e[2]
      BY <2>1, <2>2, <3>1 DEF YetToShow
    <3>3. Len(Chain[at.tx]) \in Nat /\ e[2] <= Len(Chain[at.tx])
      BY <3>1, <3>2, ChainShape
    <3> QED BY <2>1, <3>1, <3>2, <3>3
  <2> QED BY <2>1, <2>2, NewestStays DEF LatestInv
<1>6. CASE StatementFails \/ Dropped
  BY <1>6 DEF StatementFails, Dropped, CutShort, LatestInv
<1>7. CASE UNCHANGED vars
  <2>1. UNCHANGED at /\ UNCHANGED latest /\ UNCHANGED <<stored, last, clean, ordered>>
    BY <1>7 DEF vars, tables, history
  <2>2. \A e : YetToShow(e)' <=> YetToShow(e)
    BY <2>1 DEF YetToShow
  <2> QED BY <2>1, <2>2, NewestStays DEF LatestInv
<1> QED BY <1>1, <1>2, <1>3, <1>4, <1>5, <1>6, <1>7 DEF Next

LEMMA LatestInit == Init => LatestInv
<1> SUFFICES ASSUME Init PROVE LatestInv
  OBVIOUS
<1>1. at.tx = 0 /\ stored = {}
  BY DEF Init, Idle
<1>2. \A b, k : EventsOf(b, k) = {}
  BY <1>1 DEF EventsOf
<1>3. \A b \in LatestTables, k \in Keys : latest[b][k] = None
  BY DEF Init
<1> QED BY <1>1, <1>2, <1>3 DEF LatestInv, NewestShown

\* As long as transactions are delivered in order and whole, the latest position
\* of a key is that of the newest event stored for it, for any chain and keys.
THEOREM LatestIsTheNewest == Spec => []LatestIsNewest
<1>1. StoreInv /\ LatestInv => LatestIsNewest
  <2> SUFFICES ASSUME LatestInv, clean, ordered, at = Idle,
                      NEW b \in LatestTables, NEW k \in Keys
               PROVE  /\ \A e \in EventsOf(b, k) : ~Newer(latest[b][k], e)
                      /\ EventsOf(b, k) # {} => latest[b][k] \in EventsOf(b, k)
    BY DEF LatestIsNewest
  <2>1. /\ latest[b][k] \in EventsOf(b, k) \cup {None}
        /\ \A e \in EventsOf(b, k) : Newer(latest[b][k], e) => YetToShow(e)
    BY DEF LatestInv, NewestShown
  <2>2. \A e \in EventsOf(b, k) : ~YetToShow(e)
    BY EventsOfShape DEF YetToShow, Idle
  <2>3. ASSUME NEW e \in EventsOf(b, k) PROVE Newer(None, e)
    <3>1. e[1] \in Nat \ {0}
      BY EventsOfShape
    <3>2. 0 < e[1]
      BY <3>1
    <3> QED BY <3>2 DEF Newer, None
  <2> QED BY <2>1, <2>2, <2>3
<1> QED BY <1>1, StoreInit, StoreStep, LatestInit, LatestStepInv, PTL DEF Spec
=============================================================================
