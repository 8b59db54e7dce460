--------------------------- MODULE TransactionPipe ---------------------------
(***************************************************************************)
(* TransactionPipe::run: what a transaction pipe gives its processor.      *)
(*                                                                         *)
(* The pipe parses the trees with a collection of decoders, matches the    *)
(* parsed trees against a schema and flattens them again.  It changes      *)
(* nothing: the list and the data are functions of the update, which       *)
(* UpdateDispatch hands over.                                              *)
(*                                                                         *)
(* The code's recursive functions are recursive functions here.  Each has  *)
(* an operator that is one call of it, whose first argument gives the      *)
(* results of the calls it makes.                                          *)
(***************************************************************************)
EXTENDS UpdateDispatch

CONSTANTS
  Collection,  \* the transaction pipes' collection: [program, decoder]s
  Schemas      \* the lists of schema nodes, [any] or [any, type, name, inner]

ASSUME CollectionAssumption ==
  /\ IsWords(Collection)
  /\ \A i \in DOMAIN Collection :
       /\ IsDecoder(Collection[i].decoder)
       /\ \A j \in DOMAIN Collection[i].decoder :
            <<Collection[i].program, Collection[i].decoder[j].type>> # None

\* A node's inner instructions are an earlier list, or the empty one (0).  A
\* pipe has the list that is its schema's root, or no schema (0).
ASSUME SchemasAssumption ==
  /\ IsWords(Schemas)
  /\ \A s \in DOMAIN Schemas :
       /\ IsWords(Schemas[s])
       /\ \A i \in DOMAIN Schemas[s] :
            Schemas[s][i].any \in BOOLEAN /\ (~Schemas[s][i].any => Schemas[s][i].inner \in 0..(s - 1))
  /\ \A p \in DOMAIN Pipes : Pipes[p].schema \in {0} \cup DOMAIN Schemas

-----------------------------------------------------------------------------
(* parse_instructions and unnest_parsed_instructions.                      *)

\* What the collection takes data for; and the instruction m.
TypeOf    == [data \in Data |-> ParseInstruction(Collection, data)]
Parsed(m) == TypeOf[update.what[m]]

\* The nodes, and 0 for the transaction.
Tree == {0} \cup Listed

\* Faulty variant: what is below an instruction that cannot be decoded is lost.
ParseInstructionsShallow(parsed, v) == SelectSeq(Below(v), LAMBDA m : Parsed(m) # None)

\* An instruction the collection cannot decode is replaced by those below it.
ParseInstructions(parsed, v) ==
  LET below == Below(v)
  IN FlattenSeq([i \in DOMAIN below |->
                   IF Parsed(below[i]) # None THEN <<below[i]>> ELSE parsed[below[i]]])

\* The parsed instructions below v.
ParsedBelow[v \in Tree] == ParseInstructions(ParsedBelow, v)

\* Heights count from 0 here, and only the decoded callers.
UnnestParsed(unnested, v, height0) ==
  LET ixs == ParsedBelow[v]
  IN FlattenSeq([i \in DOMAIN ixs |->
       <<[ix |-> ixs[i], height |-> height0, index |-> i]>> \o unnested[ixs[i]][height0 + 1]])

\* The parsed instructions in one list.
Unnest[v \in Tree] == [height0 \in Nat |-> UnnestParsed(Unnest, v, height0)]

-----------------------------------------------------------------------------
(* match_nodes.  Its result is {} for None, otherwise the one map from     *)
(* the names of nodes to instructions.                                     *)

\* How far the call for a list of nodes and the instructions below a caller has
\* come, in both, and its flag any.
Positions ==
  [schema : DOMAIN Schemas, caller : Tree, node : Nat \ {0}, ix : Nat \ {0}, any : BOOLEAN]

FirstPosition(s, v) == [schema |-> s, caller |-> v, node |-> 1, ix |-> 1, any |-> FALSE]

NoNames == [name \in {} |-> 0]

\* The values of the second map overwrite those of the first.
MergeHashmaps(a, b) ==
  [name \in DOMAIN a \cup DOMAIN b |-> IF name \in DOMAIN b THEN b[name] ELSE a[name]]

\* The call for the inner instructions of a node, if it has any.
MatchInner(match, s, m) == IF s = 0 THEN {NoNames} ELSE match[FirstPosition(s, m)]

\* The instruction is of the node's type: its name goes into the map, with what
\* the inner nodes give; a failure there, or later, is final.
MatchedThen(match, x, any) ==
  LET node == Schemas[x.schema][x.node]
      m    == ParsedBelow[x.caller][x.ix]
  IN {MergeHashmaps(MergeHashmaps([name \in {node.name} |-> m], inner), rest) :
        rest  \in match[[x EXCEPT !.node = @ + 1, !.ix = @ + 1, !.any = any]],
        inner \in MatchInner(match, node.inner, m)}

\* Faulty variant: Any stays in force after a match.
MatchedKeepsAny(match, x) == MatchedThen(match, x, TRUE)

Matched(match, x) == MatchedThen(match, x, FALSE)

\* Faulty variant: an Any covers one instruction at most.
SkippedOnce(match, x) == IF x.any THEN match[[x EXCEPT !.ix = @ + 1, !.any = FALSE]] ELSE {}

\* It is not: after an Any the instruction is skipped.
Skipped(match, x) == IF x.any THEN match[[x EXCEPT !.ix = @ + 1]] ELSE {}

MatchNodes(match, x) ==
  LET nodes == Schemas[x.schema]
      ixs   == ParsedBelow[x.caller]
  IN IF x.node > Len(nodes) THEN {NoNames}
     ELSE IF nodes[x.node].any THEN match[[x EXCEPT !.node = @ + 1, !.any = TRUE]]
     ELSE IF x.ix > Len(ixs) THEN {}
     ELSE IF Parsed(ixs[x.ix]) = nodes[x.node].type THEN Matched(match, x)
     ELSE Skipped(match, x)

Match[x \in Positions] == MatchNodes(Match, x)

\* matches_schema: the map goes through JSON, where None is null: an output
\* type that accepts null turns a mismatch into data.
MatchSchema(pipe) ==
  LET match == IF pipe.schema = 0 THEN {} ELSE Match[FirstPosition(pipe.schema, 0)]
  IN IF match = {} /\ pipe.schema # 0 /\ pipe.acceptsNull THEN {NoNames} ELSE match

\* TransactionPipe::run: what the processor of a pipe is given.
Given(pipe) == [list |-> Unnest[0][0], data |-> MatchSchema(pipe)]

-----------------------------------------------------------------------------
(* Properties.  The references below look at the flat list of instructions *)
(* and their heights only, never at the tree.                              *)

\* The transaction pipe whose processor has just been called.
JustCalled ==
  {pipe \in {PipeAt(handled[i].at) : i \in {Len(handled)} \ {0}} :
     /\ pipe.kind = "transaction"
     /\ outcome = "running" /\ handled[Len(handled)].at = at}
Decodable == {m \in Listed : \E i \in DOMAIN Collection : Understands(Collection[i].decoder, update.what[m])}

\* The instructions that called m, directly or not.
Callers(m) == {q \in 1..(m - 1) : \A r \in (q + 1)..m : height[r] > height[q]}

\* A transaction pipe's processor gets the decodable instructions in execution
\* order, each with the number of decodable instructions that called it, although
\* they went through a tree from which the undecodable ones were cut out.
UnnestedAsExecuted ==
  \A pipe \in JustCalled :
    LET list == Given(pipe).list IN
    /\ [k \in DOMAIN list |-> list[k].ix] = InOrder(Decodable)
    /\ \A k \in DOMAIN list :
         list[k].height = Cardinality(Callers(list[k].ix) \cap Decodable)

\* The decodable instructions whose nearest decodable caller is v (0: none), and
\* the place of one of them.
CalledBy(v) ==
  {m \in Decodable : {q \in {0} \cup (Callers(m) \cap Decodable) : q >= v} = {v}}
Place(v, m) == Cardinality({q \in CalledBy(v) : q <= m})

\* The nodes of a list that are instructions; the lists a list consists of, and
\* the names in them.
Steps(s) == {i \in DOMAIN Schemas[s] : ~Schemas[s][i].any}
Parts[s \in DOMAIN Schemas] ==
  {s} \cup UNION {Parts[t] : t \in {Schemas[s][i].inner : i \in Steps(s)} \ {0}}
OwnNames(s) == {Schemas[s][i].name : i \in Steps(s)}
Names(s)    == UNION {OwnNames(t) : t \in Parts[s]}

\* What is named by a step: itself and its inner nodes.  "A unique name
\* identifier for the instruction node within the schema" (schema.rs).
NamedBy(node) == {node.name} \cup (IF node.inner = 0 THEN {} ELSE Names(node.inner))
ASSUME NamesAssumption ==
  \A s \in DOMAIN Schemas : \A i, j \in Steps(s) :
    /\ i # j => NamedBy(Schemas[s][i]) \cap NamedBy(Schemas[s][j]) = {}
    /\ Schemas[s][i].inner # 0 => Schemas[s][i].name \notin Names(Schemas[s][i].inner)

\* f assigns the nodes of a list to instructions called by v as the list demands:
\* of the right types, in order, and without a gap unless there is an Any in it.
FitsNodes(s, v, f) ==
  LET nodes    == Schemas[s]
      m(i)     == f[nodes[i].name]
      place(i) == Place(v, m(i))
  IN \A i \in Steps(s) :
       /\ m(i) \in CalledBy(v) /\ Parsed(m(i)) = nodes[i].type
       /\ \A j \in Steps(s) : j < i => place(j) < place(i)
       /\ i = 1 => place(i) = 1
       /\ i - 1 \in Steps(s) => place(i) = place(i - 1) + 1

\* And so for the lists of inner nodes, among what their instruction called.
Fits(s, f) ==
  /\ FitsNodes(s, 0, f)
  /\ \A t \in Parts[s] : \A i \in Steps(t) :
       LET node == Schemas[t][i] IN node.inner # 0 => FitsNodes(node.inner, f[node.name], f)

\* Data found by a schema are instructions that stand in the transaction as the
\* schema says, for every node of it.
NoFalseMatch ==
  \A pipe \in JustCalled : pipe.schema # 0 /\ ~pipe.acceptsNull =>
    \A f \in Given(pipe).data : DOMAIN f = Names(pipe.schema) /\ Fits(pipe.schema, f)

\* No data means that nothing in the transaction fits, if what the schema says
\* of a node after an Any is its type only: it has no inner nodes, and another
\* Any or nothing follows it.  (Otherwise the first instruction of the type
\* decides, although a later one may fit.)
Definite(s) ==
  \A t \in Parts[s] : \A i \in Steps(t) : i - 1 \in DOMAIN Schemas[t] \ Steps(t) =>
    Schemas[t][i].inner = 0 /\ i + 1 \notin Steps(t)
NoFalseMiss ==
  \A pipe \in JustCalled :
    pipe.schema # 0 /\ Given(pipe).data = {} /\ Definite(pipe.schema) =>
      ~(\E f \in [Names(pipe.schema) -> Decodable] : Fits(pipe.schema, f))
=============================================================================
