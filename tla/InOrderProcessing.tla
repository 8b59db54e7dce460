-------------------------- MODULE InOrderProcessing --------------------------
(***************************************************************************)
(* What a pipeline promises about the updates its datasources put into the *)
(* channel: each is processed at most once, in the order it was sent, and  *)
(* none is passed over.  Updates are numbered in the order they are sent.  *)
(***************************************************************************)
EXTENDS Naturals, Sequences

VARIABLES
  produced,   \* number of updates sent so far
  handled     \* the updates processed so far, oldest first

Init == produced = 0 /\ handled = <<>>

Produce == produced' = produced + 1 /\ UNCHANGED handled

Handle ==
  /\ Len(handled) < produced
  /\ handled' = Append(handled, Len(handled) + 1)
  /\ UNCHANGED produced

Next == Produce \/ Handle

Spec == Init /\ [][Next]_<<produced, handled>>
=============================================================================
