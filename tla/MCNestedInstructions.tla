------------------------ MODULE MCNestedInstructions ------------------------
(* Lists of up to six instructions, four levels deep: long enough to come   *)
(* back from the deepest level and to go down again.  Those of up to four   *)
(* also go through the pipes: two instruction pipes, transaction pipes with *)
(* schemas that have gaps, inner nodes and both, and a pipe of each other   *)
(* kind.  There are a swap, with a discriminator of one word, and an event  *)
(* of it, with one of two; both carry one field.  The data are those, with  *)
(* a word left over in the event, and what nobody decodes: nothing, a word  *)
(* of the discriminator, no field, a field that cannot be read, something   *)
(* else.                                                                    *)
EXTENDS TransactionPipe

MCSources == {"ws", "crawler"}

Swap      == [type |-> "Swap", disc |-> <<"swap">>, fields |-> 1]
SwapEvent == [type |-> "SwapEvent", disc |-> <<"event", "swap">>, fields |-> 1]
Both      == <<Swap, SwapEvent>>

ASwap    == <<"swap", "x">>
AnEvent  == <<"event", "swap", "x", "x">>
CutEvent == <<"event", "swap">>

MCUsual == {ASwap, AnEvent, CutEvent}
MCData  == MCUsual \cup {NoData, <<"event">>, <<"swap", Invalid>>, <<"x", "swap", "x">>}

MCCollection == << [program |-> "omnipair", decoder |-> <<Swap>>],
                   [program |-> "events", decoder |-> <<SwapEvent>>] >>
A == <<"omnipair", "Swap">>
B == <<"events", "SwapEvent">>

Gap              == [any |-> TRUE]
Ix(t, nm, inner) == [any |-> FALSE, type |-> t, name |-> nm, inner |-> inner]
Pipe(kind, filters, decoder, schema, null) ==
  [kind |-> kind, filters |-> filters, decoder |-> decoder, schema |-> schema, acceptsNull |-> null]

\* The lists 1 and 2 are the inner nodes of the swaps in 5 and 6.
MCSchemas == <<
  <<Gap, Ix(B, "z", 0)>>,
  <<Ix(B, "z", 0)>>,
  <<Gap, Ix(A, "x", 0), Ix(B, "y", 0)>>,
  <<Gap, Ix(A, "x", 0), Gap, Ix(B, "y", 0)>>,
  <<Ix(A, "x", 1), Gap, Ix(B, "y", 0)>>,
  <<Gap, Ix(A, "x", 2)>>,
  <<Ix(B, "x", 0), Gap>> >>

MCPipes == <<
  Pipe("account", {{"ws"}}, Both, 0, FALSE),
  Pipe("transaction", {}, <<>>, 3, FALSE),
  Pipe("deletion", {}, <<>>, 0, FALSE),
  Pipe("instruction", {{"ws"}, {"ws", "crawler"}}, <<Swap>>, 0, FALSE),
  Pipe("block", {{"ws"}, {"ws", "crawler"}}, <<>>, 0, FALSE),
  Pipe("instruction", {}, Both, 0, FALSE),
  Pipe("transaction", {}, <<>>, 4, FALSE),
  Pipe("transaction", {}, <<>>, 5, FALSE),
  Pipe("transaction", {}, <<>>, 6, FALSE),
  Pipe("transaction", {{"crawler"}}, <<>>, 7, TRUE) >>
=============================================================================
