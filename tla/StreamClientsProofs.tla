------------------------- MODULE StreamClientsProofs -------------------------
(***************************************************************************)
(* Proofs about StreamClients for any number of clients, any ring and any  *)
(* threshold.                                                              *)
(***************************************************************************)
EXTENDS StreamClients, TLAPS

\* While a client is connected, lag_count is exactly what is missing between
\* the last message it was given and the one its receiver reads next.
GapInv ==
  \A c \in Clients : conn[c] = "on" =>
    /\ next[c] <= sent + 1
    /\ lag[c] = next[c] - last[c] - 1
    /\ lag[c] <= MaxLag

USE ReadersAssumption, CapacityAssumption, MaxLagAssumption, MaxSentAssumption
    DEF ReadersAssumption, CapacityAssumption, MaxLagAssumption, MaxSentAssumption

LEMMA OldestRange ==
  ASSUME sent \in 0..MaxSent
  PROVE  /\ Oldest \in 1..(MaxSent + 1)
         /\ Oldest <= sent + 1
  BY DEF Oldest, Max0

LEMMA Start == Init => TypeOK /\ GapInv
  BY DEF Init, TypeOK, GapInv

-----------------------------------------------------------------------------
(* What the steps of one client change.                                    *)

LEMMA SubscribeStep ==
  ASSUME TypeOK, GapInv, NEW c \in Clients, Subscribe(c)
  PROVE  (TypeOK /\ GapInv)'
<1>1. /\ conn' = [conn EXCEPT ![c] = "on"] /\ next' = [next EXCEPT ![c] = sent + 1]
      /\ lag' = [lag EXCEPT ![c] = 0] /\ last' = [last EXCEPT ![c] = sent]
      /\ UNCHANGED <<server, sent>>
  BY DEF Subscribe
<1>2. TypeOK'
  BY <1>1 DEF TypeOK
<1>3. GapInv'
  BY <1>1 DEF TypeOK, GapInv
<1> QED BY <1>2, <1>3

LEMMA DeliverStep ==
  ASSUME TypeOK, GapInv, NEW c \in Clients, Deliver(c)
  PROVE  (TypeOK /\ GapInv)'
<1>1. /\ next' = [next EXCEPT ![c] = next[c] + 1]
      /\ lag' = [lag EXCEPT ![c] = 0] /\ last' = [last EXCEPT ![c] = next[c]]
      /\ UNCHANGED <<server, sent, conn>>
  BY DEF Deliver
<1>2. next[c] \in 1..sent /\ sent \in 0..MaxSent
  BY DEF Deliver, TypeOK
<1>3. TypeOK'
  BY <1>1, <1>2 DEF TypeOK
<1>4. GapInv'
  BY <1>1, <1>2 DEF TypeOK, GapInv
<1> QED BY <1>3, <1>4

LEMMA OvertakenStep ==
  ASSUME TypeOK, GapInv, NEW c \in Clients, Overtaken(c)
  PROVE  (TypeOK /\ GapInv)'
<1> DEFINE skipped == Oldest - next[c]
<1>1. /\ conn[c] = "on" /\ next[c] < Oldest
      /\ next' = [next EXCEPT ![c] = Oldest]
      /\ lag' = [lag EXCEPT ![c] = lag[c] + skipped]
      /\ conn' = [conn EXCEPT ![c] = IF lag'[c] > MaxLag THEN "exhausted" ELSE "on"]
      /\ UNCHANGED <<server, sent, last>>
  BY DEF Overtaken
<1>2. Oldest \in 1..(MaxSent + 1) /\ Oldest <= sent + 1
  BY OldestRange DEF TypeOK
<1>3. next[c] \in 1..(MaxSent + 1) /\ lag[c] \in Nat /\ last[c] \in 0..MaxSent
  BY DEF TypeOK
<1>4. skipped \in Nat
  BY <1>1, <1>2, <1>3
<1> HIDE DEF skipped
<1>5. TypeOK'
  BY <1>1, <1>2, <1>3, <1>4 DEF TypeOK
<1>6. ASSUME NEW d \in Clients, conn'[d] = "on"
      PROVE  /\ next'[d] <= sent + 1
             /\ lag'[d] = next'[d] - last[d] - 1
             /\ lag'[d] <= MaxLag
  <2>1. CASE d = c
    <3>1. lag[c] = next[c] - last[c] - 1
      BY <1>1 DEF GapInv
    <3>2. next'[c] = Oldest /\ lag'[c] = lag[c] + skipped
      BY <1>1 DEF TypeOK
    <3>3. ~(lag'[c] > MaxLag)
      BY <1>1, <1>6, <2>1 DEF TypeOK
    <3> QED BY <1>2, <1>3, <1>4, <2>1, <3>1, <3>2, <3>3 DEF skipped
  <2>2. CASE d # c
    BY <1>1, <1>6, <2>2 DEF TypeOK, GapInv
  <2> QED BY <2>1, <2>2
<1> QED BY <1>1, <1>5, <1>6 DEF GapInv

LEMMA OtherSteps ==
  ASSUME TypeOK, GapInv,
         Broadcast \/ Signal \/ Stop \/ (\E c \in Clients : Leave(c)) \/ UNCHANGED vars
  PROVE  (TypeOK /\ GapInv)'
<1>1. CASE Broadcast
  BY <1>1 DEF Broadcast, clientVars, TypeOK, GapInv
<1>2. CASE Signal \/ Stop \/ UNCHANGED vars
  BY <1>2 DEF Signal, Stop, vars, clientVars, TypeOK, GapInv
<1>3. ASSUME NEW c \in Clients, Leave(c) PROVE (TypeOK /\ GapInv)'
  BY <1>3 DEF Leave, TypeOK, GapInv
<1> QED BY <1>1, <1>2, <1>3

LEMMA Step ==
  ASSUME TypeOK, GapInv, [Next]_vars
  PROVE  (TypeOK /\ GapInv)'
  BY SubscribeStep, DeliverStep, OvertakenStep, OtherSteps DEF Next, Read

-----------------------------------------------------------------------------

\* The variables of the server and of its clients keep their types; no stream
\* reads ahead of what was broadcast.
THEOREM TypeCorrect == Spec => []TypeOK
<1>1. TypeOK /\ GapInv /\ [Next]_vars => (TypeOK /\ GapInv)'
  BY Step
<1> QED BY <1>1, Start, PTL DEF Spec

LEMMA GapStep ==
  ASSUME TypeOK, GapInv, [Next]_vars,
         NEW c \in Clients, last'[c] # last[c], conn[c] = "on"
  PROVE  last[c] < last'[c] /\ last'[c] - last[c] - 1 <= MaxLag
<1>1. Deliver(c)
  <2>1. ~UNCHANGED last
    OBVIOUS
  <2>2. PICK d \in Clients : Subscribe(d) \/ Deliver(d)
    BY <2>1 DEF Next, Read, Broadcast, Signal, Stop, Overtaken, Leave, vars, clientVars
  <2>3. d = c
    BY <2>2 DEF Subscribe, Deliver, TypeOK
  <2>4. ~Subscribe(c)
    BY DEF Subscribe
  <2> QED BY <2>2, <2>3, <2>4
<1>2. last'[c] = next[c]
  BY <1>1 DEF Deliver, TypeOK
<1>3. /\ lag[c] = next[c] - last[c] - 1 /\ lag[c] <= MaxLag
      /\ lag[c] \in Nat /\ next[c] \in Nat /\ last[c] \in Nat
  BY DEF GapInv, TypeOK
<1> QED BY <1>2, <1>3

\* No client is given a message after a gap of more than MaxLag, however many
\* times it was overtaken in between.
THEOREM GapsStayBounded == Spec => GapsAreBounded
<1>1. TypeOK /\ GapInv /\ [Next]_vars => (TypeOK /\ GapInv)'
  BY Step
<1>2. TypeOK /\ GapInv /\ [Next]_vars =>
        [\A c \in Clients : last'[c] # last[c] /\ conn[c] = "on" =>
           last[c] < last'[c] /\ last'[c] - last[c] - 1 <= MaxLag]_vars
  BY GapStep
<1> QED BY <1>1, <1>2, Start, PTL DEF Spec, GapsAreBounded
=============================================================================
