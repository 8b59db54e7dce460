---------------------------- MODULE UpdateDispatch ----------------------------
(***************************************************************************)
(* Pipeline::process: what becomes of one update.                          *)
(*                                                                         *)
(* A transaction is listed and nested (NestedInstructions) and given to    *)
(* the instruction pipes, tree by tree, and then to the transaction pipes  *)
(* (TransactionPipe says what these make of the trees).  Accounts,         *)
(* deletions and blocks have pipes of their own.  A pipe is skipped if one *)
(* of its filters refuses the datasource; a processor that fails ends the  *)
(* whole update.                                                           *)
(*                                                                         *)
(* process loops over the pipes, at is the position it has reached.  The   *)
(* calls of the pipe there that are still to come are a stack of nodes:    *)
(* InstructionPipe::run calls itself for the nodes below.  The other pipes *)
(* are called with the update itself, node 0.                              *)
(***************************************************************************)
EXTENDS NestedInstructions, InstructionDecoding

CONSTANTS
  Sources,     \* datasource ids
  Data,        \* the data an instruction, or an account, can have
  Usual,       \* the data in a transaction of more than MaxOdd instructions
  Pipes,       \* the pipes: [kind, filters, decoder, schema, acceptsNull]
  MaxPiped,    \* instructions of a transaction that reaches the pipes (bound)
  MaxOdd       \* instructions of a transaction with any data (bound)

Kinds == {"account", "instruction", "transaction", "deletion", "block"}

ASSUME DataAssumption ==
  /\ Usual \subseteq Data /\ NoData \in Data
  /\ \A data \in Data : IsWords(data)
ASSUME PipesAssumption ==
  /\ Len(Pipes) \in Nat /\ DOMAIN Pipes = 1..Len(Pipes)
  /\ \A p \in DOMAIN Pipes :
       /\ Pipes[p].kind \in Kinds
       /\ Pipes[p].filters \subseteq SUBSET Sources
       /\ IsDecoder(Pipes[p].decoder)

VARIABLES
  update,    \* the update being processed: [kind, source, what]
  at,        \* position of the pipe at work among those of the update
  pending,   \* nodes this pipe will be called with, the next one first
  handled,   \* history: the processor calls that succeeded: [at, ix]
  outcome    \* "idle", "running", "done", "failed"

dispatchVars == <<update, at, pending, handled, outcome>>
allVars      == <<vars, dispatchVars>>

NoUpdate == [kind |-> "none", source |-> "none", what |-> <<>>]

DispatchInit ==
  /\ Init
  /\ update = NoUpdate
  /\ at = 0
  /\ pending = <<>>
  /\ handled = <<>>
  /\ outcome = "idle"

-----------------------------------------------------------------------------
(* Trees and pipes.                                                        *)

\* The members of a set of numbers, the smallest first.
InOrder(S) ==
  [i \in 1..Cardinality(S) |-> CHOOSE m \in S : Cardinality({q \in S : q <= m}) = i]
Below(v)   == InOrder(Children(v))

\* The builder keeps a list of pipes for each kind.  The function that takes no
\* filters adds a pipe with none, which lets everything pass.
Attached(kind) == InOrder({p \in DOMAIN Pipes : Pipes[p].kind = kind})

AccountPipes         == Attached("account")
AccountDeletionPipes == Attached("deletion")
BlockDetailsPipes    == Attached("block")
InstructionPipes     == Attached("instruction")
TransactionPipes     == Attached("transaction")

\* The pipes an update of a kind goes through, in this order.
PipesOf ==
  [account     |-> AccountPipes,
   deletion    |-> AccountDeletionPipes,
   block       |-> BlockDetailsPipes,
   transaction |-> InstructionPipes \o TransactionPipes]

\* The pipe at a position, and the one at work.
PipeAt(i) == Pipes[PipesOf[update.kind][i]]
Here      == PipeAt(at)

\* DatasourceFilter, the same for every kind of update: all must let it pass.
Admits(pipe) == \A allowed \in pipe.filters : update.source \in allowed

\* What process calls a pipe with: the roots of the trees, or the update.
Calls(pipe) == IF pipe.kind = "instruction" THEN Below(0) ELSE <<0>>

-----------------------------------------------------------------------------
(* Pipeline::process.                                                      *)

\* An update leaves the channel.  A transaction's list is complete and nested;
\* the builder and the path stack are gone.  Without account keys, hence without
\* instructions, it has no fee payer and is an error.
Arrive(kind, source, what) ==
  /\ outcome = "idle"
  /\ heights \in {"runtime", "unknown"}
  /\ IF kind = "transaction" THEN n <= MaxPiped ELSE n = 0
  /\ update' = [kind |-> kind, source |-> source, what |-> what]
  /\ \/ outcome' = "running"
     \/ kind = "transaction" /\ n = 0 /\ outcome' = "failed"
  /\ gen' = [v \in 0..MaxLen |-> 0]
  /\ level' = [l \in Levels |-> NoPointer]
  /\ pathStack' = [l \in Levels |-> 0]
  /\ prev' = 0
  /\ UNCHANGED <<heights, n, height, path, tops, parent, at, pending, handled>>

\* What comes with an update: the data of the instructions, or of the account.
Contents(kind) ==
  CASE kind = "transaction" -> [Listed -> IF n <= MaxOdd THEN Data ELSE Usual]
    [] kind = "account"     -> [1..1 -> Data]
    [] OTHER                -> {<<>>}

\* The loop comes to the next pipe.
NextPipe ==
  /\ outcome = "running" /\ pending = <<>>
  /\ at < Len(PipesOf[update.kind])
  /\ at' = at + 1
  /\ pending' = Calls(PipeAt(at + 1))
  /\ UNCHANGED <<vars, update, handled, outcome>>

Calling == outcome = "running" /\ pending # <<>>

\* A pipe's processor is called only with what its decoder can decode.
Decodes(pipe, ix) ==
  /\ pipe.kind = "instruction" => DecodeWith(pipe.decoder, update.what[ix]) # None
  /\ pipe.kind = "account" => DecodeWith(pipe.decoder, update.what[1]) # None

\* The processor's turn, if it is called at all.
Hand ==
  handled' = IF Decodes(Here, Head(pending))
             THEN Append(handled, [at |-> at, ix |-> Head(pending)]) ELSE handled

\* process asks the filters of the pipe before it calls it.  (They look at the
\* datasource only, so what passes at a tree's root passes in the whole tree.)
FilteredOut ==
  /\ Calling /\ ~Admits(Here)
  /\ pending' = Tail(pending)
  /\ UNCHANGED <<vars, update, at, handled, outcome>>

\* Faulty variant: the nodes below wait until the other trees are done.
RunInstructionBreadthFirst ==
  /\ Calling /\ Admits(Here) /\ Here.kind = "instruction"
  /\ Hand
  /\ pending' = Tail(pending) \o Below(Head(pending))
  /\ UNCHANGED <<vars, update, at, outcome>>

\* InstructionPipe::run on a node: the processor, then the nodes below.
RunInstruction ==
  /\ Calling /\ Admits(Here) /\ Here.kind = "instruction"
  /\ Hand
  /\ pending' = Below(Head(pending)) \o Tail(pending)
  /\ UNCHANGED <<vars, update, at, outcome>>

\* TransactionPipe, AccountPipe, AccountDeletionPipe and BlockDetailsPipe: one
\* call, with the update.
RunWhole ==
  /\ Calling /\ Admits(Here) /\ Here.kind # "instruction"
  /\ Hand
  /\ pending' = Tail(pending)
  /\ UNCHANGED <<vars, update, at, outcome>>

\* Any processor may fail: `?` ends the walk and process.
ProcessorFails ==
  /\ Calling /\ Admits(Here) /\ Decodes(Here, Head(pending))
  /\ outcome' = "failed"
  /\ UNCHANGED <<vars, update, at, pending, handled>>

\* The last pipe has returned: the kind's counter, whose failure is also `?`.
Count ==
  /\ outcome = "running" /\ pending = <<>>
  /\ at = Len(PipesOf[update.kind])
  /\ outcome' \in {"done", "failed"}
  /\ UNCHANGED <<vars, update, at, pending, handled>>

Listing == outcome = "idle" /\ Next /\ UNCHANGED dispatchVars

DispatchNext ==
  \/ Listing
  \/ \E kind \in DOMAIN PipesOf, source \in Sources :
       \E what \in Contents(kind) : Arrive(kind, source, what)
  \/ NextPipe \/ FilteredOut \/ RunInstruction \/ RunWhole
  \/ ProcessorFails \/ Count

DispatchSpec == DispatchInit /\ [][DispatchNext]_allVars

-----------------------------------------------------------------------------
(* Properties.  The references look at the flat list of instructions only, *)
(* never at the tree.                                                      *)

\* What a pipe should see of the update: all of it that it decodes.
Expects(pipe, ix) ==
  CASE pipe.kind = "instruction" -> ix \in Listed /\ Understands(pipe.decoder, update.what[ix])
    [] pipe.kind = "account"     -> ix = 0 /\ Understands(pipe.decoder, update.what[1])
    [] OTHER                     -> ix = 0
AllDue ==
  {c \in [at : DOMAIN PipesOf[update.kind], ix : {0} \cup Listed] :
     Admits(PipeAt(c.at)) /\ Expects(PipeAt(c.at), c.ix)}

\* In the order of the pipes, and of execution within each.
Before(c, d) == c.at < d.at \/ (c.at = d.at /\ c.ix < d.ix)

\* Every pipe is given what its filters and decoder let through, each
\* instruction once and in execution order although it is found by walking
\* trees; a pipe starts when those before it have finished; only a failing
\* processor leaves something out, and then everything that comes after.
HandedOverInOrder ==
  outcome # "idle" =>
    LET calls == Range(handled)
        due   == AllDue
    IN
    /\ calls \subseteq due
    /\ \A i, j \in DOMAIN handled : i < j => Before(handled[i], handled[j])
    /\ \A c \in due : (\E d \in calls : Before(c, d)) => c \in calls
    /\ outcome = "done" => calls = due
=============================================================================
