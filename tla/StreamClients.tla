---------------------------- MODULE StreamClients ----------------------------
(***************************************************************************)
(* The gRPC server's clients (grpc_server.rs): what the listener           *)
(* broadcasts is numbered 1, 2, ... and kept in a ring of the newest       *)
(* Capacity messages.  Every client's stream reads the ring at its own     *)
(* pace.  A stream that has been overtaken is told how many messages it    *)
(* skipped; it adds them up, goes on in silence, and ends the connection   *)
(* once the sum exceeds MaxLag.  Delivering a message sets the sum to 0.   *)
(***************************************************************************)
EXTENDS Naturals

CONSTANTS
  Clients,
  Readers,     \* the clients that go on reading while they are connected
  Capacity,    \* messages the broadcast channel keeps
  MaxLag,      \* MAX_LAG_THRESHOLD
  MaxSent      \* messages broadcast (bound)

ASSUME ReadersAssumption == Readers \subseteq Clients
ASSUME CapacityAssumption == Capacity \in Nat \ {0}
ASSUME MaxLagAssumption == MaxLag \in Nat
ASSUME MaxSentAssumption == MaxSent \in Nat

VARIABLES
  server,   \* "serving", "draining" (a signal came), "stopped"
  sent,     \* number of the newest message
  conn,     \* conn[c]: "off", "on", "exhausted" (ended for being too slow)
  next,     \* next[c]: number of the message the receiver reads next
  lag,      \* lag[c]: lag_count
  last      \* history: last[c], the last message delivered, or the newest one
            \* when c subscribed

clientVars == <<conn, next, lag, last>>
vars       == <<server, sent, clientVars>>

TypeOK ==
  /\ server \in {"serving", "draining", "stopped"}
  /\ sent \in 0..MaxSent
  /\ conn \in [Clients -> {"off", "on", "exhausted"}]
  /\ next \in [Clients -> 1..(MaxSent + 1)]
  /\ lag \in [Clients -> Nat]
  /\ last \in [Clients -> 0..MaxSent]

Init ==
  /\ server = "serving"
  /\ sent = 0
  /\ conn = [c \in Clients |-> "off"]
  /\ next = [c \in Clients |-> 1]
  /\ lag = [c \in Clients |-> 0]
  /\ last = [c \in Clients |-> 0]

Max0(a, b) == IF a < b THEN b ELSE a

\* The oldest message the ring still holds.
Oldest == Max0(1, sent + 1 - Capacity)

-----------------------------------------------------------------------------

\* emit_swap: the listener task goes on while the server drains.
Broadcast ==
  /\ server # "stopped"
  /\ sent < MaxSent
  /\ sent' = sent + 1
  /\ UNCHANGED <<server, clientVars>>

\* stream_swaps_updates: a new stream starts behind the newest message.  After the
\* signal no connection is accepted, but a new stream on one that is open may be:
\* until its peer has heard that the server is going away.
Subscribe(c) ==
  /\ server # "stopped"
  /\ conn[c] # "on"
  /\ conn' = [conn EXCEPT ![c] = "on"]
  /\ next' = [next EXCEPT ![c] = sent + 1]
  /\ lag' = [lag EXCEPT ![c] = 0]
  /\ last' = [last EXCEPT ![c] = sent]
  /\ UNCHANGED <<server, sent>>

\* Ok: the message goes to the client, and any lag is forgotten.
Deliver(c) ==
  /\ conn[c] = "on"
  /\ Oldest <= next[c] /\ next[c] <= sent
  /\ next' = [next EXCEPT ![c] = @ + 1]
  /\ lag' = [lag EXCEPT ![c] = 0]
  /\ last' = [last EXCEPT ![c] = next[c]]
  /\ UNCHANGED <<server, sent, conn>>

\* Faulty variants: only what was skipped this time counts; the stream starts
\* again behind the newest message.
OvertakenForgets(c) ==
  /\ conn[c] = "on"
  /\ next[c] < Oldest
  /\ next' = [next EXCEPT ![c] = Oldest]
  /\ lag' = [lag EXCEPT ![c] = Oldest - next[c]]
  /\ conn' = [conn EXCEPT ![c] = IF lag'[c] > MaxLag THEN "exhausted" ELSE "on"]
  /\ UNCHANGED <<server, sent, last>>

OvertakenResubscribes(c) ==
  /\ conn[c] = "on"
  /\ next[c] < Oldest
  /\ next' = [next EXCEPT ![c] = sent + 1]
  /\ lag' = [lag EXCEPT ![c] = @ + (sent + 1 - next[c])]
  /\ conn' = [conn EXCEPT ![c] = IF lag'[c] > MaxLag THEN "exhausted" ELSE "on"]
  /\ UNCHANGED <<server, sent, last>>

\* Lagged(skipped): the receiver goes on with the oldest message there is, and
\* the client is told nothing unless it is cut off.
Overtaken(c) ==
  /\ conn[c] = "on"
  /\ next[c] < Oldest
  /\ next' = [next EXCEPT ![c] = Oldest]
  /\ lag' = [lag EXCEPT ![c] = @ + (Oldest - next[c])]
  /\ conn' = [conn EXCEPT ![c] = IF lag'[c] > MaxLag THEN "exhausted" ELSE "on"]
  /\ UNCHANGED <<server, sent, last>>

Read(c) == Deliver(c) \/ Overtaken(c)

\* A client may leave at any time.
Leave(c) ==
  /\ conn[c] = "on"
  /\ conn' = [conn EXCEPT ![c] = "off"]
  /\ UNCHANGED <<server, sent, next, lag, last>>

\* shutdown_signal: the server is to stop; the streams that are open stay open.
Signal ==
  /\ server = "serving"
  /\ server' = "draining"
  /\ UNCHANGED <<sent, clientVars>>

\* serve_with_shutdown returns when the last stream has ended.
Stop ==
  /\ server = "draining"
  /\ \A c \in Clients : conn[c] # "on"
  /\ server' = "stopped"
  /\ UNCHANGED <<sent, clientVars>>

Next ==
  \/ Broadcast \/ Signal \/ Stop
  \/ \E c \in Clients : Subscribe(c) \/ Read(c) \/ Leave(c)

(***************************************************************************)
(* Fairness: the stream of a client that reads is polled again and again.  *)
(* Nobody is bound to leave.                                               *)
(***************************************************************************)
Spec     == Init /\ [][Next]_vars
FairSpec == Spec /\ \A c \in Readers : WF_vars(Read(c))

-----------------------------------------------------------------------------
(* Properties.                                                             *)

\* Between two messages that reach a client one after the other, at most MaxLag
\* are missing, however the skips add up: a client that lost more is cut off
\* before it is given another.
GapsAreBounded ==
  [][\A c \in Clients : last'[c] # last[c] /\ conn[c] = "on" =>
       last[c] < last'[c] /\ last'[c] - last[c] - 1 <= MaxLag]_vars

\* Every message broadcast to a client that reads is followed by a delivery, of
\* that message or of a newer one, unless the client leaves or is cut off first:
\* a client is never left waiting in silence, however often it is overtaken and
\* however the broadcasts go on.
ReadersKeepUp ==
  \A c \in Readers, n \in 1..MaxSent :
    (conn[c] = "on" /\ sent >= n) ~> (conn[c] # "on" \/ last[c] >= n)
=============================================================================
