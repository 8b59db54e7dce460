--------------------------- MODULE OnceOnlyDelivery ---------------------------
(***************************************************************************)
(* What a crawler of the chain promises about the transactions it finds:   *)
(* each one, after it was confirmed and at no other time, is either given  *)
(* to the pipeline or given up, and only one of the two, once.  The order  *)
(* is left open.  Transactions are numbered in the order of confirmation.  *)
(***************************************************************************)
EXTENDS Naturals, Sequences

VARIABLES
  confirmed,   \* number of transactions confirmed so far
  given,       \* the transactions given to the pipeline, oldest first
  gone         \* the transactions given up

Init == confirmed \in Nat /\ given = <<>> /\ gone = {}

Open(s) ==
  /\ s \in 1..confirmed
  /\ \A i \in 1..Len(given) : given[i] # s
  /\ s \notin gone

Confirm == confirmed' = confirmed + 1 /\ UNCHANGED <<given, gone>>

Give(s) ==
  /\ Open(s)
  /\ given' = Append(given, s)
  /\ UNCHANGED <<confirmed, gone>>

GiveUp(s) ==
  /\ Open(s)
  /\ gone' = gone \union {s}
  /\ UNCHANGED <<confirmed, given>>

Next == Confirm \/ \E s \in 1..confirmed : Give(s) \/ GiveUp(s)

Spec == Init /\ [][Next]_<<confirmed, given, gone>>
=============================================================================
