------------------------- MODULE NestedInstructions -------------------------
(***************************************************************************)
(* How carbon turns the instructions of a transaction into the trees that  *)
(* InstructionPipe::run walks (transformers.rs, instruction.rs).           *)
(*                                                                         *)
(* process_instructions lists the instructions with their stack heights    *)
(* and computes an absolute path for each; UnsafeNestedBuilder::build      *)
(* then nests the list by height through raw pointers to the last node of  *)
(* every level.  Both go once through the list, so a step here is one      *)
(* instruction in both.                                                    *)
(*                                                                         *)
(* Node m is the m-th instruction.  Vector v is the inner_instructions of  *)
(* node v, and vector 0 the builder's own.  A push may move the elements   *)
(* of a vector: its generation goes up, and a pointer taken before is      *)
(* dangling.  (The elements keep their own inner vectors where they are.)  *)
(***************************************************************************)
EXTENDS Integers, Sequences, FiniteSets, FiniteSetsExt, SequencesExt

CONSTANTS
  MaxDepth,   \* MAX_INSTRUCTION_STACK_DEPTH
  MaxLen      \* instructions in the transaction (bound)

ASSUME MaxDepthAssumption == MaxDepth \in Nat /\ MaxDepth >= 2
ASSUME MaxLenAssumption == MaxLen \in Nat

VARIABLES
  heights,    \* what the stack heights look like: see Modes
  n,          \* instructions listed so far
  height,     \* height[m]: stack height of node m (0: no such node yet)
  parent,     \* parent[m]: the vector node m was pushed to (m: none, dropped)
  path,       \* path[m]: absolute_path
  tops,       \* top-level instructions listed so far (i + 1)
  pathStack,  \* path_stack of the inner instructions being listed
  prev,       \* prev_height
  gen,        \* gen[v]: generation of vector v's buffer
  level       \* level[l]: pointer to the last node of level l

listVars == <<height, path, tops, pathStack, prev>>
treeVars == <<parent, gen, level>>
vars == <<heights, n, listVars, treeVars>>

Nodes  == 1..MaxLen
Levels == 1..MaxDepth
Listed == 1..n

\* "runtime": the heights of a calling sequence, as the runtime records it;
\* "unknown": an old transaction without them (None, read as 1);
\* "any": From<InstructionsWithMetadata> is public and takes any list.
Modes == {"runtime", "unknown", "any"}

NoPointer == [node |-> 0, gen |-> 0]

TypeOK ==
  /\ heights \in Modes
  /\ n \in 0..MaxLen
  /\ height \in [Nodes -> 0..MaxDepth]
  /\ parent \in [Nodes -> 0..MaxLen]
  /\ path \in [Nodes -> Seq(Nat)]
  /\ tops \in Nat
  /\ pathStack \in [Levels -> Nat]
  /\ prev \in 0..MaxDepth
  /\ gen \in [0..MaxLen -> Nat]
  /\ level \in [Levels -> [node : 0..MaxLen, gen : Nat]]

Init ==
  /\ heights \in Modes
  /\ n = 0
  /\ height = [m \in Nodes |-> 0]
  /\ parent = [m \in Nodes |-> 0]
  /\ path = [m \in Nodes |-> <<>>]
  /\ tops = 0
  /\ pathStack = [l \in Levels |-> 0]
  /\ prev = 0
  /\ gen = [v \in 0..MaxLen |-> 0]
  /\ level = [l \in Levels |-> NoPointer]

-----------------------------------------------------------------------------
(* UnsafeNestedBuilder::build, one instruction of height h.                *)

\* Faulty variant: the pointers below height h stay.
ClearedNothing(h) == level

\* The pointers below height h are forgotten.
Cleared(h) == [l \in Levels |-> IF l > h THEN NoPointer ELSE level[l]]

\* Node n + 1 goes to the end of vector v, which moves if moved = 1.
PushTo(v, h, moved) ==
  /\ parent' = [parent EXCEPT ![n + 1] = v]
  /\ gen' = [gen EXCEPT ![v] = @ + moved]
  /\ level' = [Cleared(h) EXCEPT ![h] = [node |-> n + 1, gen |-> gen[v] + moved]]

\* No parent: the instruction is dropped (the pointers are cleared all the same).
DropOrphan(h) ==
  /\ parent' = [parent EXCEPT ![n + 1] = n + 1]
  /\ level' = Cleared(h)
  /\ UNCHANGED gen

\* Faulty variant: a level keeps its first pointer.
NestKeepsPointer(h) ==
  \/ h = 1 /\ PushTo(0, h, 0)
  \/ /\ h # 1 /\ level[h - 1] # NoPointer
     /\ parent' = [parent EXCEPT ![n + 1] = level[h - 1].node]
     /\ \E moved \in {0, 1} :
          /\ gen' = [gen EXCEPT ![level[h - 1].node] = @ + moved]
          /\ level' = [Cleared(h) EXCEPT ![h] = IF @ = NoPointer
               THEN [node |-> n + 1, gen |-> gen[level[h - 1].node] + moved] ELSE @]

\* The builder's vector was allocated for every instruction of height 1 and
\* never moves; the inner vectors start empty and may move at every push.
Nest(h) ==
  \/ h = 1 /\ PushTo(0, h, 0)
  \/ /\ h # 1 /\ level[h - 1] # NoPointer
     /\ \E moved \in {0, 1} : PushTo(level[h - 1].node, h, moved)
  \/ h # 1 /\ level[h - 1] = NoPointer /\ DropOrphan(h)

-----------------------------------------------------------------------------
(* process_instructions.                                                   *)

\* A top-level instruction, and a fresh path stack for the inner ones.
TopLevel ==
  /\ n < MaxLen
  /\ n' = n + 1
  /\ height' = [height EXCEPT ![n + 1] = 1]
  /\ path' = [path EXCEPT ![n + 1] = <<tops>>]
  /\ tops' = tops + 1
  /\ pathStack' = [l \in Levels |-> IF l = 1 THEN tops ELSE 0]
  /\ prev' = 0
  /\ Nest(1)
  /\ UNCHANGED heights

\* The heights an inner instruction can have.  A runtime's first one is 2 (the
\* top-level one called it), and a call goes one level down at a time.
InnerHeights ==
  CASE heights = "runtime" -> {h \in 2..MaxDepth : h <= (IF prev = 0 THEN 1 ELSE prev) + 1}
    [] heights = "unknown" -> {1}
    [] heights = "any"     -> Levels

\* Faulty variant: a deeper call goes on counting.
StackKeepsCounting(h) == [pathStack EXCEPT ![h] = IF h > prev /\ prev = 0 THEN 0 ELSE @ + 1]

\* Going deeper starts at 0; staying or coming back counts on.
StackAt(h) == [pathStack EXCEPT ![h] = IF h > prev THEN 0 ELSE @ + 1]

\* An inner instruction of the top-level instruction listed last.
Inner(h) ==
  /\ heights # "any" => 0 < tops
  /\ n < MaxLen
  /\ n' = n + 1
  /\ height' = [height EXCEPT ![n + 1] = h]
  /\ pathStack' = StackAt(h)
  /\ path' = [path EXCEPT ![n + 1] = [l \in 1..h |-> StackAt(h)[l]]]
  /\ prev' = h
  /\ Nest(h)
  /\ UNCHANGED <<heights, tops>>

Next == TopLevel \/ \E h \in InnerHeights : Inner(h)

Spec == Init /\ [][Next]_vars

-----------------------------------------------------------------------------
(* Properties.                                                             *)

Dropped     == {m \in Listed : parent[m] = m}
Kept        == Listed \ Dropped
Children(v) == {m \in Kept : parent[m] = v}

\* Every pointer the builder holds, and so every one it will dereference,
\* points into the current buffer of its vector, at that vector's last node.
\* The comment in build argues from vectors that never grow; the inner ones do.
PointersLive ==
  \A l \in Levels : level[l] # NoPointer =>
    LET m == level[l].node IN
      /\ m \in Kept
      /\ height[m] = l
      /\ level[l].gen = gen[parent[m]]
      /\ \A c \in Children(parent[m]) : c <= m

\* The tree is the one the heights say, also for lists no runtime records, whose
\* heights jump or start in the middle: build neither hands an instruction to a
\* caller that has returned nor drops one whose caller is there.
\*
\* The reference: node q governs node m if it is exactly one level up, was not
\* dropped itself, and everything between the two is at least as deep as m.  A
\* node is pushed to the one that governs it, and dropped if there is none.
Governs(q, m) ==
  /\ q \in Kept /\ q < m
  /\ height[q] = height[m] - 1
  /\ \A r \in (q + 1)..(m - 1) : height[r] >= height[m]
Placed(m) ==
  \/ height[m] = 1 /\ parent[m] = 0
  \/ height[m] > 1 /\ \E q \in Listed : Governs(q, m) /\ parent[m] = q
  \/ height[m] > 1 /\ ~(\E q \in Listed : Governs(q, m)) /\ m \in Dropped
TreeMatchesHeights == \A m \in Listed : Placed(m)

\* The heights of a real transaction lose no instruction, whether they are
\* recorded or not.
NothingDropped == heights # "any" => Dropped = {}

\* The path computed while listing is the node's place in the tree computed
\* while nesting: its parent's path and the number of siblings before it.
PathsArePlaces ==
  heights = "runtime" =>
    \A m \in Listed :
      LET before == Cardinality({c \in Children(parent[m]) : c < m})
      IN path[m] = (IF parent[m] = 0 THEN <<>> ELSE path[parent[m]]) \o <<before>>
=============================================================================
