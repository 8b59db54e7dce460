---------------------- MODULE NestedInstructionsProofs ----------------------
(* Theorems about NestedInstructions, UpdateDispatch and TransactionPipe,   *)
(* for every depth, length, choice of pipes, collection and schemas.        *)
(*                                                                          *)
(* In order: the tree (IInv), the dispatch to the pipes (DispatchInv), and  *)
(* what a transaction pipe makes of the tree: the list of its decodable     *)
(* instructions, and the data its schema finds.                             *)
EXTENDS TransactionPipe, SequenceTheorems, FiniteSetTheorems, WellFoundedInduction, TLAPS

USE MaxDepthAssumption, MaxLenAssumption DEF MaxDepthAssumption, MaxLenAssumption

\* What every listed node satisfies: its parent is a kept node one level up.
Shape ==
  \A m \in Listed :
    /\ height[m] \in Levels
    /\ parent[m] <= m
    /\ parent[m] = 0 <=> height[m] = 1
    /\ parent[m] \in 1..(m - 1) =>
         parent[m] \in Kept /\ height[parent[m]] = height[m] - 1

\* The pointer of level l exists exactly if some kept node of that height has
\* had only deeper ones after it, and points to that node.
Nearest(l, q) ==
  /\ q \in Kept
  /\ height[q] = l
  /\ \A r \in (q + 1)..n : height[r] > l
LevelsAreNearest ==
  \A l \in Levels :
    /\ level[l] # NoPointer => \E q \in Listed : level[l].node = q /\ Nearest(l, q)
    /\ \A q \in Listed : Nearest(l, q) => level[l] # NoPointer
PrefixClosed ==
  \A l \in 2..MaxDepth : level[l - 1] = NoPointer => level[l] = NoPointer

\* A call sequence leaves a pointer at every level down to the last height.
Spine ==
  /\ heights = "runtime" /\ tops > 0 =>
       \A l \in 1..(IF prev = 0 THEN 1 ELSE prev) : level[l] # NoPointer
  /\ heights = "unknown" => \A m \in Listed : height[m] = 1

TreeInv == Shape /\ PointersLive /\ LevelsAreNearest /\ PrefixClosed /\ TreeMatchesHeights
IInv    == TypeOK /\ TreeInv /\ Spine /\ NothingDropped

-----------------------------------------------------------------------------
LEMMA InitIInv == Init => IInv
<1> SUFFICES ASSUME Init PROVE IInv
  OBVIOUS
<1> USE DEF Init
<1>1. Listed = {} /\ Kept = {} /\ Dropped = {}
  BY DEF Listed, Kept, Dropped
<1>2. TypeOK
  BY DEF TypeOK, Nodes, Levels, NoPointer, Modes
<1>3. \A l \in Levels : level[l] = NoPointer
  OBVIOUS
<1>4. TreeInv
  <2>1. Shape /\ TreeMatchesHeights
    BY <1>1 DEF Shape, TreeMatchesHeights
  <2>2. PointersLive
    BY <1>3 DEF PointersLive
  <2>3. LevelsAreNearest
    BY <1>1, <1>3 DEF LevelsAreNearest
  <2>4. PrefixClosed
    BY <1>3 DEF PrefixClosed, Levels
  <2> QED
    BY <2>1, <2>2, <2>3, <2>4 DEF TreeInv
<1>5. Spine /\ NothingDropped
  BY <1>1 DEF Spine, NothingDropped
<1> QED
  BY <1>2, <1>4, <1>5 DEF IInv

-----------------------------------------------------------------------------
(* One step of the builder, for an instruction of any height.               *)

\* What the lemmas below assume of a step: node n + 1 of height h is nested.
Step(h) ==
  /\ h \in Levels
  /\ n < MaxLen
  /\ n' = n + 1
  /\ height' = [height EXCEPT ![n + 1] = h]
  /\ Nest(h)

\* The vector a step pushes to: that of the governing node, or none.
LEMMA NestCases ==
  ASSUME NEW h, TypeOK, TreeInv, Step(h)
  PROVE  \/ /\ h = 1
            /\ \E moved \in {0, 1} : PushTo(0, h, moved)
         \/ /\ h # 1
            /\ level[h - 1] # NoPointer
            /\ \E v \in Listed, moved \in {0, 1} : Nearest(h - 1, v) /\ PushTo(v, h, moved)
         \/ /\ h # 1
            /\ level[h - 1] = NoPointer
            /\ level[h] = NoPointer
            /\ \A q \in Listed : ~Nearest(h - 1, q)
            /\ DropOrphan(h)
<1>1. h \in 1..MaxDepth
  BY DEF Step, Levels
<1>2. CASE h = 1 /\ PushTo(0, h, 0)
  BY <1>2
<1>3. CASE h # 1 /\ level[h - 1] # NoPointer /\ \E moved \in {0, 1} : PushTo(level[h - 1].node, h, moved)
  <2>1. h - 1 \in Levels
    BY <1>1, <1>3 DEF Levels
  <2>2. \E q \in Listed : level[h - 1].node = q /\ Nearest(h - 1, q)
    BY <2>1, <1>3 DEF TreeInv, LevelsAreNearest
  <2> QED
    BY <1>3, <2>2
<1>4. CASE h # 1 /\ level[h - 1] = NoPointer /\ DropOrphan(h)
  <2>1. h - 1 \in Levels /\ h \in 2..MaxDepth
    BY <1>1, <1>4 DEF Levels
  <2>2. level[h] = NoPointer
    BY <2>1, <1>4 DEF TreeInv, PrefixClosed
  <2>3. \A q \in Listed : ~Nearest(h - 1, q)
    BY <2>1, <1>4 DEF TreeInv, LevelsAreNearest
  <2> QED
    BY <1>4, <2>2, <2>3
<1> QED
  BY <1>2, <1>3, <1>4 DEF Step, Nest

\* What a step leaves alone, and what is new, if node n + 1 gets parent v.
LEMMA Frame ==
  ASSUME NEW h \in Levels, NEW v \in 0..MaxLen, TypeOK, n < MaxLen, n' = n + 1,
         height' = [height EXCEPT ![n + 1] = h],
         parent' = [parent EXCEPT ![n + 1] = v]
  PROVE  /\ Listed' = Listed \cup {n + 1}
         /\ n + 1 \notin Listed
         /\ \A m \in Listed : parent'[m] = parent[m] /\ height'[m] = height[m]
         /\ parent'[n + 1] = v
         /\ height'[n + 1] = h
         /\ \A m \in Listed : m \in Kept' <=> m \in Kept
         /\ n + 1 \in Kept' <=> v # n + 1
<1>1. n \in 0..MaxLen /\ n + 1 \in Nodes /\ Listed \subseteq Nodes
  BY DEF TypeOK, Nodes, Listed
<1>2. Listed' = Listed \cup {n + 1} /\ n + 1 \notin Listed
  BY <1>1 DEF Listed
<1>3. height \in [Nodes -> 0..MaxDepth] /\ parent \in [Nodes -> 0..MaxLen]
  BY DEF TypeOK
<1>4. \A m \in Listed : parent'[m] = parent[m] /\ height'[m] = height[m]
  BY <1>1, <1>2, <1>3
<1>5. parent'[n + 1] = v /\ height'[n + 1] = h
  BY <1>1, <1>3
<1> QED
  BY <1>2, <1>4, <1>5 DEF Kept, Dropped

\* The pointers after a push, and after an orphan.
LEMMA PushLevels ==
  ASSUME NEW h \in Levels, NEW v \in 0..MaxLen, NEW moved \in {0, 1}, TypeOK, PushTo(v, h, moved)
  PROVE  /\ \A l \in Levels : l < h => level'[l] = level[l]
         /\ \A l \in Levels : l > h => level'[l] = NoPointer
         /\ level'[h] = [node |-> n + 1, gen |-> gen[v] + moved]
         /\ \A w \in 0..MaxLen : w # v => gen'[w] = gen[w]
         /\ gen'[v] = gen[v] + moved
         /\ gen' \in [0..MaxLen -> Nat]
<1>0. gen \in [0..MaxLen -> Nat]
  BY DEF TypeOK
<1>1. gen \in [0..MaxLen -> Nat] /\ Levels \subseteq Nat
  BY <1>0 DEF Levels
<1>2. \A w \in 0..MaxLen : w # v => gen'[w] = gen[w]
  BY <1>1 DEF PushTo
<1>3. gen'[v] = gen[v] + moved /\ gen' \in [0..MaxLen -> Nat]
  BY <1>1 DEF PushTo
<1>4. level'[h] = [node |-> n + 1, gen |-> gen[v] + moved]
  BY DEF PushTo, Cleared
<1>5. \A l \in Levels : l # h => level'[l] = Cleared(h)[l]
  BY DEF PushTo, Cleared
<1>6. \A l \in Levels : Cleared(h)[l] = IF l > h THEN NoPointer ELSE level[l]
  BY DEF Cleared
<1>7. \A l \in Levels : l < h => l # h /\ ~(l > h)
  BY <1>1
<1>8. \A l \in Levels : l > h => l # h
  BY <1>1
<1> QED
  BY <1>2, <1>3, <1>4, <1>5, <1>6, <1>7, <1>8

LEMMA OrphanLevels ==
  ASSUME NEW h \in Levels, TypeOK, DropOrphan(h)
  PROVE  /\ \A l \in Levels : l <= h => level'[l] = level[l]
         /\ \A l \in Levels : l > h => level'[l] = NoPointer
         /\ gen' = gen
<1>1. Levels \subseteq Nat
  BY DEF Levels
<1>2. \A l \in Levels : level'[l] = IF l > h THEN NoPointer ELSE level[l]
  BY DEF DropOrphan, Cleared
<1>3. \A l \in Levels : l <= h => ~(l > h)
  BY <1>1
<1> QED
  BY <1>2, <1>3 DEF DropOrphan

\* For the nodes listed before, nothing about who governs whom changes.
LEMMA OldNodes ==
  ASSUME NEW h \in Levels, NEW v \in 0..MaxLen, TypeOK, Shape, TreeMatchesHeights,
         n < MaxLen, n' = n + 1,
         height' = [height EXCEPT ![n + 1] = h],
         parent' = [parent EXCEPT ![n + 1] = v]
  PROVE  \A m \in Listed : Placed(m)'
<1> SUFFICES ASSUME NEW m \in Listed PROVE Placed(m)'
  OBVIOUS
<1>0. n \in Nat /\ m \in 1..n /\ Listed = 1..n
  BY DEF TypeOK, Listed
<1>1. /\ Listed' = Listed \cup {n + 1}
      /\ \A k \in Listed : parent'[k] = parent[k] /\ height'[k] = height[k]
      /\ \A k \in Listed : k \in Kept' <=> k \in Kept
  BY Frame
<1>2. ASSUME NEW q \in Listed
      PROVE  Governs(q, m)' <=> Governs(q, m)
  <2>1. \A r \in (q + 1)..(m - 1) : r \in Listed
    BY <1>2, <1>0
  <2> QED
    BY <1>2, <2>1, <1>1 DEF Governs
<1>3. \A q \in Listed' : Governs(q, m)' => q \in Listed
  <2>1. ~((n + 1) < m)
    BY <1>0
  <2> QED
    BY <2>1, <1>1 DEF Governs
<1>4. (\E q \in Listed' : Governs(q, m)') <=> \E q \in Listed : Governs(q, m)
  BY <1>1, <1>2, <1>3
<1>5. \A q \in Listed : Governs(q, m) /\ parent[m] = q =>
        q \in Listed' /\ Governs(q, m)' /\ parent'[m] = q
  BY <1>1, <1>2
<1>6. m \in Dropped => m \in Dropped'
  BY <1>1 DEF Dropped
<1> QED
  BY <1>1, <1>4, <1>5, <1>6 DEF TreeMatchesHeights, Placed

LEMMA PushPreserves ==
  ASSUME NEW h \in Levels, NEW v \in 0..MaxLen, NEW moved \in {0, 1}, NEW k, k = n + 1,
         TypeOK, TreeInv, n < MaxLen, n' = n + 1,
         height' = [height EXCEPT ![n + 1] = h],
         PushTo(v, h, moved),
         \/ h = 1 /\ v = 0
         \/ h # 1 /\ v \in Listed /\ Nearest(h - 1, v)
  PROVE  TreeInv'
<1>0. /\ n \in Nat /\ h \in 1..MaxDepth /\ h \in Nat /\ v \in Nat
      /\ Levels = 1..MaxDepth /\ Listed = 1..n
  BY DEF TypeOK, Levels, Listed
<1>t. /\ parent' = [parent EXCEPT ![n + 1] = v]
      /\ v # n + 1
  BY <1>0 DEF PushTo
<1>1. /\ Listed' = Listed \cup {n + 1}
      /\ n + 1 \notin Listed
      /\ \A m \in Listed : parent'[m] = parent[m] /\ height'[m] = height[m]
      /\ parent'[n + 1] = v
      /\ height'[n + 1] = h
      /\ \A m \in Listed : m \in Kept' <=> m \in Kept
      /\ n + 1 \in Kept'
  BY <1>t, Frame
<1>2. /\ \A l \in Levels : l < h => level'[l] = level[l]
      /\ \A l \in Levels : l > h => level'[l] = NoPointer
      /\ level'[h] = [node |-> n + 1, gen |-> gen[v] + moved]
      /\ \A w \in 0..MaxLen : w # v => gen'[w] = gen[w]
      /\ gen'[v] = gen[v] + moved
  BY PushLevels, ZenonT(30)
<1>3. level'[h] # NoPointer /\ level'[h].node = k
  BY <1>2, <1>0 DEF NoPointer
<1>4. \A m \in Listed : height[m] \in Levels /\ parent[m] \in Nat /\ parent[m] <= m
  <2>1. \A m \in Listed : m \in Nodes
    BY DEF TypeOK, Listed, Nodes
  <2>2. \A m \in Nodes : parent[m] \in Nat
    BY DEF TypeOK
  <2> QED
    BY <2>1, <2>2 DEF TreeInv, Shape
<1>5. v # 0 => v \in Kept /\ v \in Listed /\ height[v] = h - 1 /\ \A r \in (v + 1)..n : height[r] > h - 1
  BY DEF Nearest
<1>5a. v = 0 <=> h = 1
  BY <1>0
<1>6. Shape'
  <2> SUFFICES ASSUME NEW m \in Listed'
               PROVE  (/\ height[m] \in Levels
                       /\ parent[m] <= m
                       /\ parent[m] = 0 <=> height[m] = 1
                       /\ parent[m] \in 1..(m - 1) =>
                            parent[m] \in Kept /\ height[parent[m]] = height[m] - 1)'
    BY DEF Shape, Levels
  <2>1. CASE m = n + 1
    BY <2>1, <1>0, <1>1, <1>5, <1>5a DEF Levels
  <2>2. CASE m \in Listed
    <3>1. parent[m] \in 1..(m - 1) => parent[m] \in Listed
      BY <2>2, <1>0
    <3> QED
      BY <2>2, <3>1, <1>1 DEF TreeInv, Shape, Levels
  <2> QED
    BY <2>1, <2>2, <1>1
<1>7. LevelsAreNearest'
  <2> SUFFICES ASSUME NEW l \in Levels
               PROVE  /\ level'[l] # NoPointer => \E q \in Listed' : level'[l].node = q /\ Nearest(l, q)'
                      /\ \A q \in Listed' : Nearest(l, q)' => level'[l] # NoPointer
    BY DEF LevelsAreNearest, Levels, NoPointer
  <2>1. CASE l < h
    <3>1. ASSUME NEW q \in Listed PROVE Nearest(l, q)' <=> Nearest(l, q)
      <4>1. q \in Nat /\ (q + 1)..(n + 1) = ((q + 1)..n) \cup {n + 1} /\ (q + 1)..n \subseteq Listed
        BY <3>1, <1>0
      <4> QED
        BY <4>1, <3>1, <2>1, <1>1 DEF Nearest
    <3>2. ~Nearest(l, k)'
      BY <2>1, <1>0, <1>1 DEF Nearest
    <3>3. level[l] # NoPointer => \E q \in Listed : level[l].node = q /\ Nearest(l, q)
      BY DEF TreeInv, LevelsAreNearest
    <3>4. \A q \in Listed : Nearest(l, q) => level[l] # NoPointer
      BY DEF TreeInv, LevelsAreNearest
    <3>5. level'[l] = level[l]
      BY <2>1, <1>2
    <3> QED
      BY <3>1, <3>2, <3>3, <3>4, <3>5, <1>1
  <2>2. CASE l = h
    <3>1. Nearest(h, k)'
      <4>1. \A r \in (k + 1)..n' : height'[r] > h
        BY <1>0
      <4>2. k \in Kept' /\ height'[k] = h
        BY <1>1
      <4> QED
        BY <4>1, <4>2 DEF Nearest
    <3>2. k \in Listed' /\ level'[l].node = k
      BY <2>2, <1>1, <1>3
    <3> QED
      BY <2>2, <3>1, <3>2, <1>3
  <2>3. CASE l > h
    <3>1. \A q \in Listed : ~Nearest(l, q)'
      <4> SUFFICES ASSUME NEW q \in Listed, Nearest(l, q)' PROVE FALSE
        OBVIOUS
      <4>1. n + 1 \in (q + 1)..(n + 1)
        BY <1>0
      <4>2. height'[n + 1] > l
        BY <4>1 DEF Nearest
      <4> QED
        BY <4>2, <2>3, <1>0, <1>1
    <3>2. ~Nearest(l, k)'
      BY <2>3, <1>0, <1>1 DEF Nearest
    <3> QED
      BY <2>3, <3>1, <3>2, <1>1, <1>2
  <2> QED
    BY <2>1, <2>2, <2>3, <1>0
<1>8. PrefixClosed'
  <2> SUFFICES ASSUME NEW l \in 2..MaxDepth, level'[l - 1] = NoPointer PROVE level'[l] = NoPointer
    BY DEF PrefixClosed, NoPointer
  <2>0. l \in Levels /\ l - 1 \in Levels
    BY <1>0
  <2>1. CASE l < h
    BY <2>1, <2>0, <1>2, <1>0 DEF TreeInv, PrefixClosed
  <2>2. CASE l = h
    <3>1. h - 1 \in Levels /\ v \in Listed /\ Nearest(h - 1, v)
      BY <2>2, <2>0
    <3>2. level[h - 1] # NoPointer
      BY <3>1 DEF TreeInv, LevelsAreNearest
    <3>3. level'[h - 1] = level[h - 1]
      BY <3>1, <1>2, <1>0
    <3> QED
      BY <2>2, <3>2, <3>3
  <2>3. CASE l > h
    BY <2>3, <2>0, <1>2
  <2> QED
    BY <2>1, <2>2, <2>3, <1>0
<1>9. PointersLive'
  <2> SUFFICES ASSUME NEW l \in Levels, level'[l] # NoPointer,
                      NEW m, m = level'[l].node
               PROVE  /\ m \in Kept'
                      /\ height'[m] = l
                      /\ level'[l].gen = gen'[parent'[m]]
                      /\ \A c \in Children(parent[m])' : c <= m
    BY DEF PointersLive, Levels, NoPointer
  <2>1. CASE l < h
    <3>1. /\ level'[l] = level[l] /\ level[l] # NoPointer
          /\ m \in Kept /\ m \in Listed /\ height[m] = l
          /\ level[l].gen = gen[parent[m]]
          /\ \A c \in Children(parent[m]) : c <= m
      <4>1. level'[l] = level[l] /\ level[l] # NoPointer /\ m = level[l].node
        BY <2>1, <1>2
      <4>2. PointersLive
        BY DEF TreeInv
      <4>3. /\ m \in Kept /\ height[m] = l
            /\ level[l].gen = gen[parent[m]]
            /\ \A c \in Children(parent[m]) : c <= m
        BY <4>1, <4>2 DEF PointersLive
      <4> QED
        BY <4>1, <4>3 DEF Kept
    <3>2. parent[m] # m /\ parent[m] \in 0..(m - 1)
      <4>1. parent[m] # m
        BY <3>1 DEF Kept, Dropped
      <4>2. m \in Nat /\ parent[m] \in Nat /\ parent[m] <= m
        BY <3>1, <1>0, <1>4
      <4> QED
        BY <4>1, <4>2
    <3>3. parent[m] # v
      <4>1. CASE parent[m] = 0
        BY <4>1, <3>1, <2>1, <1>0, <1>5a DEF TreeInv, Shape
      <4>2. CASE parent[m] \in 1..(m - 1)
        <5>1. height[parent[m]] = l - 1
          BY <4>2, <3>1 DEF TreeInv, Shape
        <5> QED
          BY <5>1, <4>2, <2>1, <1>5, <1>0
      <4> QED
        BY <4>1, <4>2, <3>2, <3>1, <1>0
    <3>4. parent[m] \in 0..MaxLen
      <4>1. parent \in [Nodes -> 0..MaxLen]
        BY DEF TypeOK
      <4>2. m \in Nodes
        BY <3>1, <1>0 DEF Nodes
      <4> QED
        BY <4>1, <4>2
    <3>5. gen'[parent[m]] = gen[parent[m]]
      BY <3>3, <3>4, <1>2
    <3>6. \A c \in Children(parent[m])' : c \in Children(parent[m])
      BY <3>1, <3>3, <1>1 DEF Children, Kept
    <3> QED
      BY <3>1, <3>5, <3>6, <1>1
  <2>2. CASE l = h
    <3>1. m = n + 1
      BY <2>2, <1>3
    <3>2. \A c \in Listed' : c <= n + 1
      BY <1>0, <1>1
    <3>3. \A c \in Children(parent[m])' : c <= m
      BY <3>1, <3>2 DEF Children, Kept
    <3>4. level'[l].gen = gen'[parent'[m]]
      BY <2>2, <3>1, <1>1, <1>2
    <3> QED
      BY <2>2, <3>1, <3>3, <3>4, <1>1
  <2>3. CASE l > h
    BY <2>3, <1>2
  <2> QED
    BY <2>1, <2>2, <2>3, <1>0
<1>10. TreeMatchesHeights'
  <2>1. \A m \in Listed : Placed(m)'
    BY OldNodes, <1>t DEF TreeInv
  <2>2. ASSUME h # 1 PROVE Governs(v, k)'
    <3>1. v \in Listed /\ v \in Kept /\ height[v] = h - 1 /\ \A r \in (v + 1)..n : height[r] > h - 1
      BY <2>2, <1>5, <1>5a
    <3>2. \A r \in (v + 1)..n : height'[r] >= h
      <4>1. \A r \in (v + 1)..n : r \in Listed
        BY <1>0, <3>1
      <4> QED
        BY <4>1, <3>1, <1>0, <1>1, <1>4
    <3>3. k - 1 = n /\ v < k
      BY <1>0, <3>1
    <3> QED
      BY <3>1, <3>2, <3>3, <1>1 DEF Governs
  <2>3. Placed(k)'
    <3>1. CASE h = 1
      BY <3>1, <1>1, <1>5a DEF Placed
    <3>2. CASE h # 1
      <4>1. h > 1
        BY <3>2, <1>0
      <4>2. v \in Listed'
        BY <1>1, <1>5, <1>5a, <3>2
      <4> QED
        BY <4>1, <4>2, <2>2, <3>2, <1>1 DEF Placed
    <3> QED
      BY <3>1, <3>2
  <2> QED
    BY <2>1, <2>3, <1>1 DEF TreeMatchesHeights
<1> QED
  BY <1>6, <1>7, <1>8, <1>9, <1>10 DEF TreeInv

\* An instruction without a parent leaves no pointer below its own height, and
\* no node that governs it.
LEMMA OrphanPreserves ==
  ASSUME NEW h \in Levels, NEW k, k = n + 1,
         TypeOK, TreeInv, n < MaxLen, n' = n + 1,
         height' = [height EXCEPT ![n + 1] = h],
         DropOrphan(h),
         h # 1, level[h - 1] = NoPointer, level[h] = NoPointer,
         \A q \in Listed : ~Nearest(h - 1, q)
  PROVE  TreeInv'
<1>0. /\ n \in Nat /\ h \in 2..MaxDepth /\ h \in Nat /\ k \in 0..MaxLen
      /\ Levels = 1..MaxDepth /\ Listed = 1..n
  BY DEF TypeOK, Levels, Listed
<1>t. parent' = [parent EXCEPT ![n + 1] = k]
  BY DEF DropOrphan
<1>1. /\ Listed' = Listed \cup {k}
      /\ k \notin Listed
      /\ \A m \in Listed : parent'[m] = parent[m] /\ height'[m] = height[m]
      /\ parent'[k] = k
      /\ height'[k] = h
      /\ \A m \in Listed : m \in Kept' <=> m \in Kept
      /\ k \notin Kept'
  BY <1>0, <1>t, Frame
<1>2. /\ \A l \in Levels : l <= h => level'[l] = level[l]
      /\ \A l \in Levels : l > h => level'[l] = NoPointer
      /\ gen' = gen
  BY OrphanLevels
<1>3. \A l \in Levels : level'[l] # NoPointer => l < h /\ level'[l] = level[l]
  BY <1>0, <1>2
<1>4. \A m \in Listed : height[m] \in Levels
  BY DEF TreeInv, Shape
<1>5. \A m \in Listed : parent[m] \in 0..m
  <2>1. \A m \in Listed : m \in Nodes
    BY <1>0 DEF Nodes
  <2>2. parent \in [Nodes -> 0..MaxLen]
    BY DEF TypeOK
  <2>3. \A m \in Listed : parent[m] \in 0..MaxLen
    BY <2>1, <2>2
  <2>4. \A m \in Listed : parent[m] <= m
    BY DEF TreeInv, Shape
  <2> QED
    BY <2>3, <2>4, <1>0
<1>6. Shape'
  <2> SUFFICES ASSUME NEW m \in Listed'
               PROVE  (/\ height[m] \in Levels
                       /\ parent[m] <= m
                       /\ parent[m] = 0 <=> height[m] = 1
                       /\ parent[m] \in 1..(m - 1) =>
                            parent[m] \in Kept /\ height[parent[m]] = height[m] - 1)'
    BY DEF Shape, Levels
  <2>1. CASE m = k
    BY <2>1, <1>0, <1>1 DEF Levels
  <2>2. CASE m \in Listed
    <3>1. parent[m] \in 1..(m - 1) => parent[m] \in Listed
      BY <2>2, <1>0
    <3> QED
      BY <2>2, <3>1, <1>1 DEF TreeInv, Shape, Levels
  <2> QED
    BY <2>1, <2>2, <1>1
<1>7. LevelsAreNearest'
  <2> SUFFICES ASSUME NEW l \in Levels
               PROVE  /\ level'[l] # NoPointer => \E q \in Listed' : level'[l].node = q /\ Nearest(l, q)'
                      /\ \A q \in Listed' : Nearest(l, q)' => level'[l] # NoPointer
    BY DEF LevelsAreNearest, Levels, NoPointer
  <2>1. ~Nearest(l, k)'
    BY <1>1 DEF Nearest
  <2>2. CASE l < h
    <3>1. ASSUME NEW q \in Listed PROVE Nearest(l, q)' <=> Nearest(l, q)
      <4>1. q \in Nat /\ (q + 1)..n' = ((q + 1)..n) \cup {k} /\ (q + 1)..n \subseteq Listed
        BY <3>1, <1>0
      <4> QED
        BY <4>1, <3>1, <2>2, <1>1 DEF Nearest
    <3>2. level[l] # NoPointer => \E q \in Listed : level[l].node = q /\ Nearest(l, q)
      BY DEF TreeInv, LevelsAreNearest
    <3>3. \A q \in Listed : Nearest(l, q) => level[l] # NoPointer
      BY DEF TreeInv, LevelsAreNearest
    <3>4. level'[l] = level[l]
      BY <2>2, <1>0, <1>2
    <3> QED
      BY <2>1, <3>1, <3>2, <3>3, <3>4, <1>1
  <2>3. CASE l >= h
    <3>1. \A q \in Listed : ~Nearest(l, q)'
      <4> SUFFICES ASSUME NEW q \in Listed, Nearest(l, q)' PROVE FALSE
        OBVIOUS
      <4>1. k \in (q + 1)..n'
        BY <1>0
      <4>2. height'[k] > l
        BY <4>1 DEF Nearest
      <4> QED
        BY <4>2, <2>3, <1>0, <1>1
    <3>2. level'[l] = NoPointer
      BY <2>3, <1>0, <1>3
    <3> QED
      BY <2>1, <3>1, <3>2, <1>1
  <2> QED
    BY <2>2, <2>3, <1>0
<1>8. PrefixClosed'
  <2> SUFFICES ASSUME NEW l \in 2..MaxDepth, level'[l - 1] = NoPointer PROVE level'[l] = NoPointer
    BY DEF PrefixClosed, NoPointer
  <2>0. l \in Levels /\ l - 1 \in Levels
    BY <1>0
  <2>1. CASE l < h
    BY <2>1, <2>0, <1>2, <1>0 DEF TreeInv, PrefixClosed
  <2>2. CASE l >= h
    BY <2>2, <2>0, <1>0, <1>3
  <2> QED
    BY <2>1, <2>2, <1>0
<1>9. PointersLive'
  <2> SUFFICES ASSUME NEW l \in Levels, level'[l] # NoPointer,
                      NEW m, m = level'[l].node
               PROVE  /\ m \in Kept'
                      /\ height'[m] = l
                      /\ level'[l].gen = gen'[parent'[m]]
                      /\ \A c \in Children(parent[m])' : c <= m
    BY DEF PointersLive, Levels, NoPointer
  <2>1. /\ level'[l] = level[l] /\ level[l] # NoPointer
        /\ m \in Kept /\ m \in Listed /\ height[m] = l
        /\ level[l].gen = gen[parent[m]]
        /\ \A c \in Children(parent[m]) : c <= m
    BY <1>3 DEF TreeInv, PointersLive, Kept
  <2>2. \A c \in Children(parent[m])' : c \in Children(parent[m])
    BY <2>1, <1>1 DEF Children, Kept
  <2> QED
    BY <2>1, <2>2, <1>1, <1>2
<1>10. TreeMatchesHeights'
  <2>1. \A m \in Listed : Placed(m)'
    BY OldNodes, <1>0, <1>t DEF TreeInv
  <2>2. ASSUME NEW q \in Listed', Governs(q, k)' PROVE FALSE
    <3>1. q \in Listed /\ q \in Kept /\ height[q] = h - 1 /\ \A r \in (q + 1)..(k - 1) : height'[r] >= h
      BY <2>2, <1>0, <1>1 DEF Governs
    <3>2. \A r \in (q + 1)..n : height[r] > h - 1
      <4>1. \A r \in (q + 1)..n : r \in Listed /\ r \in (q + 1)..(k - 1)
        BY <1>0, <3>1
      <4> QED
        BY <4>1, <3>1, <1>0, <1>1, <1>4
    <3> QED
      BY <3>1, <3>2 DEF Nearest
  <2>3. k \in Dropped' /\ height'[k] > 1
    BY <1>0, <1>1 DEF Dropped
  <2>4. Placed(k)'
    BY <2>2, <2>3 DEF Placed
  <2> QED
    BY <2>1, <2>4, <1>1 DEF TreeMatchesHeights
<1> QED
  BY <1>6, <1>7, <1>8, <1>9, <1>10 DEF TreeInv

-----------------------------------------------------------------------------
(* A step of process_instructions with the builder's.                       *)

LEMMA StepPreserves ==
  ASSUME NEW h, TypeOK, TreeInv, Step(h)
  PROVE  TreeInv'
<1>1. PICK k : k = n + 1
  OBVIOUS
<1>2. /\ h \in Levels /\ n < MaxLen /\ n' = n + 1
      /\ height' = [height EXCEPT ![n + 1] = h]
  BY DEF Step
<1>3. CASE h = 1 /\ \E moved \in {0, 1} : PushTo(0, h, moved)
  <2>1. PICK moved \in {0, 1} : PushTo(0, h, moved)
    BY <1>3
  <2>2. 0 \in 0..MaxLen
    OBVIOUS
  <2> QED
    BY <1>1, <1>2, <1>3, <2>1, <2>2, PushPreserves
<1>4. CASE h # 1 /\ \E v \in Listed, moved \in {0, 1} : Nearest(h - 1, v) /\ PushTo(v, h, moved)
  <2>1. Listed \subseteq 0..MaxLen
    BY DEF TypeOK, Listed
  <2> QED
    BY <1>1, <1>2, <1>4, <2>1, PushPreserves
<1>5. CASE /\ h # 1 /\ level[h - 1] = NoPointer /\ level[h] = NoPointer
           /\ \A q \in Listed : ~Nearest(h - 1, q) /\ DropOrphan(h)
  <2>1. DropOrphan(h)
    BY NestCases, <1>5
  <2> QED
    BY <1>1, <1>2, <1>5, <2>1, OrphanPreserves
<1> QED
  BY <1>3, <1>4, <1>5, NestCases

\* The builder's variables keep their types.
LEMMA StepTypes ==
  ASSUME NEW h, TypeOK, TreeInv, Step(h)
  PROVE  /\ n' \in 0..MaxLen
         /\ height' \in [Nodes -> 0..MaxDepth]
         /\ parent' \in [Nodes -> 0..MaxLen]
         /\ gen' \in [0..MaxLen -> Nat]
         /\ level' \in [Levels -> [node : 0..MaxLen, gen : Nat]]
<1>0. /\ h \in Levels /\ n < MaxLen /\ n' = n + 1
      /\ height' = [height EXCEPT ![n + 1] = h]
  BY DEF Step
<1>1. n \in 0..MaxLen /\ n + 1 \in 0..MaxLen /\ n + 1 \in Nodes
  BY <1>0 DEF TypeOK, Nodes
<1>2. /\ height \in [Nodes -> 0..MaxDepth] /\ parent \in [Nodes -> 0..MaxLen]
      /\ gen \in [0..MaxLen -> Nat]
  BY DEF TypeOK
<1>3. level \in [Levels -> [node : 0..MaxLen, gen : Nat]]
  BY DEF TypeOK
<1>4. height' \in [Nodes -> 0..MaxDepth]
  BY <1>0, <1>1, <1>2 DEF Levels
<1>5. Cleared(h) \in [Levels -> [node : 0..MaxLen, gen : Nat]]
  <2>1. NoPointer \in [node : 0..MaxLen, gen : Nat]
    BY DEF NoPointer
  <2> QED
    BY <1>3, <2>1 DEF Cleared
<1>6. ASSUME NEW v \in 0..MaxLen, NEW moved \in {0, 1}, PushTo(v, h, moved)
      PROVE  /\ parent' \in [Nodes -> 0..MaxLen]
             /\ gen' \in [0..MaxLen -> Nat]
             /\ level' \in [Levels -> [node : 0..MaxLen, gen : Nat]]
  <2>1. gen[v] + moved \in Nat
    BY <1>2
  <2>2. [node |-> n + 1, gen |-> gen[v] + moved] \in [node : 0..MaxLen, gen : Nat]
    BY <2>1, <1>1
  <2>3. level' \in [Levels -> [node : 0..MaxLen, gen : Nat]]
    BY <2>2, <1>0, <1>5, <1>6 DEF PushTo
  <2>4. parent' \in [Nodes -> 0..MaxLen]
    BY <1>1, <1>2, <1>6 DEF PushTo
  <2> QED
    BY <2>3, <2>4, <1>0, <1>6, PushLevels
<1>7. ASSUME DropOrphan(h)
      PROVE  /\ parent' \in [Nodes -> 0..MaxLen]
             /\ gen' \in [0..MaxLen -> Nat]
             /\ level' \in [Levels -> [node : 0..MaxLen, gen : Nat]]
  BY <1>1, <1>2, <1>5, <1>7 DEF DropOrphan
<1>8. Listed \subseteq 0..MaxLen
  BY <1>1 DEF Listed
<1>9. \/ \E v \in 0..MaxLen, moved \in {0, 1} : PushTo(v, h, moved)
      \/ DropOrphan(h)
  <2>1. 0 \in 0..MaxLen
    OBVIOUS
  <2> QED
    BY <1>8, <2>1, NestCases
<1>10. n' \in 0..MaxLen
  BY <1>0, <1>1
<1> QED
  BY <1>4, <1>6, <1>7, <1>9, <1>10

\* Neither a recorded nor an unknown height leaves an instruction without parent.
LEMMA CallsArePushed ==
  ASSUME NEW h, TypeOK, TreeInv, Spine, NothingDropped, Step(h), heights # "any",
         h = 1 \/ /\ heights = "runtime" /\ tops > 0
                  /\ h \in 2..((IF prev = 0 THEN 1 ELSE prev) + 1)
  PROVE  /\ Dropped' = {}
         /\ \A l \in Levels : l < h => level'[l] = level[l]
         /\ level'[h] # NoPointer
<1>0. /\ h \in Levels /\ n < MaxLen /\ n' = n + 1
      /\ height' = [height EXCEPT ![n + 1] = h]
  BY DEF Step
<1>1. n \in Nat /\ Listed = 1..n /\ Listed \subseteq 0..MaxLen
  BY DEF TypeOK, Listed
<1>2. \E v \in 0..MaxLen, moved \in {0, 1} : v # n + 1 /\ PushTo(v, h, moved)
  <2>1. CASE h = 1
    <3>1. \E moved \in {0, 1} : PushTo(0, h, moved)
      BY <2>1, NestCases
    <3>2. 0 # n + 1 /\ 0 \in 0..MaxLen
      BY <1>1
    <3> QED
      BY <3>1, <3>2
  <2>2. CASE h # 1
    <3>1. level[h - 1] # NoPointer
      <4>1. heights = "runtime" /\ tops > 0 /\ h \in 2..((IF prev = 0 THEN 1 ELSE prev) + 1)
        BY <2>2
      <4>2. prev \in Nat
        BY DEF TypeOK
      <4>3. h - 1 \in 1..(IF prev = 0 THEN 1 ELSE prev)
        BY <4>1, <4>2
      <4> QED
        BY <4>1, <4>3 DEF Spine
    <3>2. \E v \in Listed, moved \in {0, 1} : PushTo(v, h, moved)
      BY <2>2, <3>1, NestCases
    <3>3. \A v \in Listed : v # n + 1
      BY <1>1
    <3> QED
      BY <3>2, <3>3, <1>1
  <2> QED
    BY <2>1, <2>2
<1>3. PICK v \in 0..MaxLen, moved \in {0, 1} : v # n + 1 /\ PushTo(v, h, moved)
  BY <1>2
<1>4. parent' = [parent EXCEPT ![n + 1] = v]
  BY <1>3 DEF PushTo
<1>5. /\ Listed' = Listed \cup {n + 1}
      /\ \A m \in Listed : m \in Kept' <=> m \in Kept
      /\ n + 1 \in Kept'
  BY <1>0, <1>3, <1>4, Frame
<1>6. Dropped' = {}
  <2>1. \A m \in Listed : m \in Kept
    BY DEF NothingDropped, Kept
  <2> QED
    BY <2>1, <1>5 DEF Kept, Dropped
<1>7. /\ \A l \in Levels : l < h => level'[l] = level[l]
      /\ level'[h] = [node |-> n + 1, gen |-> gen[v] + moved]
  BY <1>0, <1>3, PushLevels
<1>8. level'[h] # NoPointer
  BY <1>1, <1>7 DEF NoPointer
<1> QED
  BY <1>6, <1>7, <1>8

-----------------------------------------------------------------------------
(* The two actions.                                                         *)

\* The path listed for an instruction is a sequence of indices.
LEMMA PathTypes ==
  ASSUME TypeOK, NEW h \in Levels
  PROVE  /\ StackAt(h) \in [Levels -> Nat]
         /\ [l \in 1..h |-> StackAt(h)[l]] \in Seq(Nat)
<1>1. pathStack \in [Levels -> Nat]
  BY DEF TypeOK
<1>2. StackAt(h) \in [Levels -> Nat]
  <2>1. (IF h > prev THEN 0 ELSE pathStack[h] + 1) \in Nat
    BY <1>1
  <2> QED
    BY <1>1, <2>1 DEF StackAt
<1>3. h \in Nat /\ 1..h \subseteq Levels
  BY DEF Levels
<1>4. [l \in 1..h |-> StackAt(h)[l]] \in [1..h -> Nat]
  BY <1>2, <1>3
<1> QED
  BY <1>2, <1>3, <1>4

LEMMA TopLevelPreserves ==
  ASSUME IInv, TopLevel
  PROVE  IInv'
<1>0. /\ TypeOK /\ TreeInv /\ Spine /\ NothingDropped
      /\ 1 \in Levels /\ Step(1) /\ heights' = heights /\ prev' = 0
  BY DEF IInv, TopLevel, Step, Levels
<1>1. TreeInv'
  BY <1>0, StepPreserves
<1>2. TypeOK'
  <2>1. /\ n' \in 0..MaxLen
        /\ height' \in [Nodes -> 0..MaxDepth]
        /\ parent' \in [Nodes -> 0..MaxLen]
        /\ gen' \in [0..MaxLen -> Nat]
        /\ level' \in [Levels -> [node : 0..MaxLen, gen : Nat]]
    BY <1>0, StepTypes
  <2>2. tops \in Nat /\ heights \in Modes /\ path \in [Nodes -> Seq(Nat)]
    BY <1>0 DEF TypeOK
  <2>3. path' \in [Nodes -> Seq(Nat)]
    <3>1. <<tops>> \in Seq(Nat)
      BY <2>2
    <3> QED
      BY <2>2, <3>1 DEF TopLevel
  <2>4. tops' \in Nat /\ pathStack' \in [Levels -> Nat] /\ prev' \in 0..MaxDepth
    BY <2>2 DEF TopLevel
  <2> QED
    BY <1>0, <2>1, <2>2, <2>3, <2>4 DEF TypeOK, Nodes, Levels, Modes
<1>3. heights # "any" => Dropped' = {} /\ level'[1] # NoPointer
  BY <1>0, CallsArePushed
<1>4. heights = "unknown" => \A m \in Listed' : height'[m] = 1
  <2>1. height \in [Nodes -> 0..MaxDepth] /\ n \in 0..MaxLen
    BY <1>0 DEF TypeOK
  <2> QED
    BY <1>0, <2>1 DEF Step, Spine, Listed, Nodes
<1>5. Spine'
  BY <1>0, <1>3, <1>4 DEF Spine, NoPointer
<1>6. NothingDropped'
  BY <1>0, <1>3 DEF NothingDropped
<1> QED
  BY <1>1, <1>2, <1>5, <1>6 DEF IInv

LEMMA InnerPreserves ==
  ASSUME IInv, NEW h \in InnerHeights, Inner(h)
  PROVE  IInv'
<1>0. TypeOK /\ TreeInv /\ Spine /\ NothingDropped /\ heights' = heights /\ tops' = tops
  BY DEF IInv, Inner
<1>a. heights \in {"runtime", "unknown", "any"} /\ prev \in Nat /\ tops \in Nat
  BY <1>0 DEF TypeOK, Modes
<1>b. /\ heights = "runtime" => h \in 2..MaxDepth /\ h <= (IF prev = 0 THEN 1 ELSE prev) + 1
      /\ heights = "unknown" => h = 1
      /\ heights = "any" => h \in Levels
  BY DEF InnerHeights
<1>c. h \in Levels /\ prev' = h /\ prev' # 0
  BY <1>a, <1>b DEF Levels, Inner
<1>d. Step(h)
  BY <1>c DEF Step, Inner
<1>1. TreeInv'
  BY <1>0, <1>d, StepPreserves
<1>2. TypeOK'
  <2>1. /\ n' \in 0..MaxLen
        /\ height' \in [Nodes -> 0..MaxDepth]
        /\ parent' \in [Nodes -> 0..MaxLen]
        /\ gen' \in [0..MaxLen -> Nat]
        /\ level' \in [Levels -> [node : 0..MaxLen, gen : Nat]]
    BY <1>0, <1>d, StepTypes
  <2>2. heights \in Modes /\ path \in [Nodes -> Seq(Nat)]
    BY <1>0 DEF TypeOK
  <2>3. path' \in [Nodes -> Seq(Nat)] /\ pathStack' \in [Levels -> Nat]
    <3>1. /\ StackAt(h) \in [Levels -> Nat]
          /\ [l \in 1..h |-> StackAt(h)[l]] \in Seq(Nat)
      BY <1>0, <1>c, PathTypes
    <3> QED
      BY <2>2, <3>1 DEF Inner
  <2>4. tops' \in Nat /\ prev' \in 0..MaxDepth
    BY <1>0, <1>a, <1>c DEF Levels
  <2> QED
    BY <1>0, <2>1, <2>2, <2>3, <2>4 DEF TypeOK, Nodes, Levels, Modes
<1>3. heights # "any" =>
        /\ Dropped' = {}
        /\ \A l \in Levels : l < h => level'[l] = level[l]
        /\ level'[h] # NoPointer
  <2>1. heights # "any" => 0 < tops
    BY DEF Inner
  <2>2. heights = "runtime" => h \in 2..((IF prev = 0 THEN 1 ELSE prev) + 1)
    BY <1>a, <1>b
  <2>3. heights # "any" => heights = "runtime" \/ heights = "unknown"
    BY <1>a
  <2> QED
    BY <1>0, <1>a, <1>b, <1>d, <2>1, <2>2, <2>3, CallsArePushed
<1>4. heights = "unknown" => \A m \in Listed' : height'[m] = 1
  <2>1. height \in [Nodes -> 0..MaxDepth] /\ n \in 0..MaxLen
    BY <1>0 DEF TypeOK
  <2> QED
    BY <1>0, <1>b, <1>d, <2>1 DEF Step, Spine, Listed, Nodes
<1>5. ASSUME heights = "runtime", tops > 0 PROVE \A l \in 1..h : level'[l] # NoPointer
  <2> SUFFICES ASSUME NEW l \in 1..h, l < h PROVE level[l] # NoPointer
    BY <1>3, <1>5, <1>c DEF Levels
  <2>1. l \in 1..(IF prev = 0 THEN 1 ELSE prev)
    BY <1>a, <1>b, <1>5
  <2> QED
    BY <2>1, <1>0, <1>5 DEF Spine
<1>6. Spine'
  BY <1>0, <1>4, <1>5, <1>c DEF Spine, NoPointer
<1>7. NothingDropped'
  BY <1>0, <1>3 DEF NothingDropped
<1> QED
  BY <1>1, <1>2, <1>6, <1>7 DEF IInv

LEMMA StutterPreserves ==
  ASSUME IInv, UNCHANGED vars
  PROVE  IInv'
<1> USE DEF vars, listVars, treeVars
<1>1. Listed' = Listed /\ Dropped' = Dropped /\ Kept' = Kept
  BY DEF Listed, Dropped, Kept
<1>2. TypeOK' /\ Spine' /\ NothingDropped'
  BY <1>1 DEF IInv, TypeOK, Spine, NothingDropped, Nodes, Levels, Modes, NoPointer
<1>3. Shape' /\ PrefixClosed'
  BY <1>1 DEF IInv, TreeInv, Shape, PrefixClosed, Levels, NoPointer
<1>4. LevelsAreNearest'
  BY <1>1 DEF IInv, TreeInv, LevelsAreNearest, Nearest, Levels, NoPointer
<1>5. PointersLive'
  BY <1>1 DEF IInv, TreeInv, PointersLive, Children, Levels, NoPointer
<1>6. TreeMatchesHeights'
  BY <1>1 DEF IInv, TreeInv, TreeMatchesHeights, Placed, Governs
<1> QED
  BY <1>2, <1>3, <1>4, <1>5, <1>6 DEF IInv, TreeInv

-----------------------------------------------------------------------------
(* Paths.                                                                   *)

NodeAt(l) == level[l].node

\* How many levels of the call at hand are open.
Open == IF prev # 0 THEN prev ELSE IF tops > 0 THEN 1 ELSE 0

Siblings(v, m) == {c \in Children(v) : c < m}

\* Node m is the child of v its path says it is.
PlaceOf(m, v) ==
  /\ parent[m] = v
  /\ path[m] = (IF v = 0 THEN <<>> ELSE path[v]) \o <<Cardinality(Siblings(v, m))>>
InPlace == \A m \in Listed : \E v \in 0..MaxLen : PlaceOf(m, v)

\* The path stack counts the children of the open nodes: q is the one of level l.
Counts(l, q) ==
  /\ path[q] = [i \in 1..l |-> pathStack[i]]
  /\ Cardinality(Children(q)) = IF l < Open THEN pathStack[l + 1] + 1 ELSE 0
StackCounts ==
  /\ tops = 0 => prev = 0
  /\ Cardinality(Children(0)) = tops
  /\ \A l \in 1..Open : \E q \in Listed : NodeAt(l) = q /\ height[q] = l /\ Counts(l, q)

PathInv == heights = "runtime" => InPlace /\ StackCounts

\* One more element at the end of a path.
LEMMA LongerPath ==
  ASSUME NEW f, NEW h \in Nat \ {0}, \A i \in 1..h : f[i] \in Nat
  PROVE  [i \in 1..h |-> f[i]] = [i \in 1..(h - 1) |-> f[i]] \o <<f[h]>>
<1> DEFINE s == [i \in 1..(h - 1) |-> f[i]]
           t == [i \in 1..h |-> f[i]]
           u == s \o <<f[h]>>
<1>1. s \in Seq(Nat) /\ Len(s) = h - 1 /\ \A i \in 1..(h - 1) : s[i] = f[i]
  OBVIOUS
<1>2. <<f[h]>> \in Seq(Nat) /\ Len(<<f[h]>>) = 1 /\ <<f[h]>>[1] = f[h]
  OBVIOUS
<1>3. t \in Seq(Nat) /\ Len(t) = h /\ \A i \in 1..h : t[i] = f[i]
  OBVIOUS
<1> HIDE DEF s, t
<1>4. /\ u \in Seq(Nat) /\ Len(u) = Len(s) + Len(<<f[h]>>)
      /\ \A i \in 1..(Len(s) + Len(<<f[h]>>)) :
           u[i] = IF i <= Len(s) THEN s[i] ELSE <<f[h]>>[i - Len(s)]
  BY <1>1, <1>2, ConcatProperties
<1> HIDE DEF u
<1>5. ASSUME NEW i \in 1..h PROVE t[i] = u[i]
  <2>1. Len(s) + Len(<<f[h]>>) = h
    BY <1>1, <1>2
  <2>2. u[i] = IF i <= h - 1 THEN s[i] ELSE <<f[h]>>[i - (h - 1)]
    BY <1>1, <1>4, <2>1
  <2>3. CASE i <= h - 1
    <3>1. i \in 1..(h - 1)
      BY <2>3
    <3> QED
      BY <1>1, <1>3, <2>2, <2>3, <3>1
  <2>4. CASE i = h
    <3>1. ~(i <= h - 1) /\ i - (h - 1) = 1
      BY <2>4
    <3> QED
      BY <1>2, <1>3, <2>2, <2>4, <3>1
  <2> QED
    BY <2>3, <2>4
<1>6. t = u
  BY <1>1, <1>2, <1>3, <1>4, <1>5, SeqEqual
<1> QED
  BY <1>6 DEF s, t, u

LEMMA ChildrenFinite ==
  ASSUME TypeOK, NEW v
  PROVE  /\ Children(v) \subseteq Listed
         /\ IsFiniteSet(Children(v)) /\ Cardinality(Children(v)) \in Nat
<1>1. n \in Int
  BY DEF TypeOK
<1>2. IsFiniteSet(Listed)
  BY <1>1, FS_Interval DEF Listed
<1>3. Children(v) \subseteq Listed
  BY DEF Children, Kept
<1> QED
  BY <1>2, <1>3, FS_Subset, FS_CardinalityType

\* A recorded call adds one child to one node: to the open node above it, or to
\* the transaction.
LEMMA OneChild ==
  ASSUME NEW h, NEW k, k = n + 1, TypeOK, TreeInv, Step(h), StackCounts,
         h = 1 \/ h \in 2..(Open + 1)
  PROVE  \E v \in 0..MaxLen :
           /\ v \notin {k} /\ (h = 1 => v = 0)
           /\ h # 1 => v \in Listed /\ NodeAt(h - 1) = v
           /\ parent'[k] = v /\ NodeAt(h)' = k /\ height'[k] = h
           /\ k \notin Listed /\ Listed' = Listed \union {k}
           /\ \A m \in Listed : parent'[m] = parent[m] /\ height'[m] = height[m]
           /\ \A l \in Levels : l < h => NodeAt(l)' = NodeAt(l)
           /\ Children(v)' = Children(v) \union {k}
           /\ \A w \in 0..MaxLen : w # v => Children(w)' = Children(w)
           /\ Children(k) = {}
<1>0. /\ h \in Levels /\ n < MaxLen /\ n' = n + 1 /\ n \in Nat /\ Listed = 1..n
      /\ height' = [height EXCEPT ![n + 1] = h]
  BY DEF Step, TypeOK, Listed
<1>1. \E v \in 0..MaxLen, moved \in {0, 1} :
        /\ PushTo(v, h, moved) /\ v # k /\ (h = 1 => v = 0)
        /\ h # 1 => v \in Listed /\ NodeAt(h - 1) = v
  <2>1. CASE h = 1
    <3>1. \E moved \in {0, 1} : PushTo(0, h, moved)
      BY <2>1, NestCases
    <3> QED
      BY <1>0, <2>1, <3>1
  <2>2. CASE h # 1
    <3>1. Open \in Nat /\ h - 1 \in 1..Open
      BY <2>2 DEF TypeOK, Open
    <3>2. PICK q \in Listed : NodeAt(h - 1) = q
      BY <3>1 DEF StackCounts
    <3>3. level[h - 1] # NoPointer
      BY <1>0, <3>2 DEF NodeAt, NoPointer
    <3>4. h - 1 \in Levels /\ h \in Nat
      BY <1>0, <3>1, <2>2 DEF Levels
    <3>5. \E moved \in {0, 1} : PushTo(level[h - 1].node, h, moved)
      BY <2>2, <3>3 DEF Step, Nest
    <3>6. \E moved \in {0, 1} : PushTo(q, h, moved)
      BY <3>2, <3>5 DEF NodeAt
    <3>7. q \in 0..MaxLen /\ q # k
      BY <1>0, <3>2 DEF TypeOK
    <3> QED
      BY <2>2, <3>2, <3>6, <3>7
  <2> QED
    BY <2>1, <2>2
<1>2. PICK v \in 0..MaxLen, moved \in {0, 1} :
        /\ PushTo(v, h, moved) /\ v # k /\ (h = 1 => v = 0)
        /\ h # 1 => v \in Listed /\ NodeAt(h - 1) = v
  BY <1>1
<1>3. parent' = [parent EXCEPT ![n + 1] = v]
  BY <1>2 DEF PushTo
<1>4. /\ Listed' = Listed \cup {k} /\ k \notin Listed
      /\ \A m \in Listed : parent'[m] = parent[m] /\ height'[m] = height[m]
      /\ parent'[k] = v /\ height'[k] = h
      /\ \A m \in Listed : m \in Kept' <=> m \in Kept
      /\ k \in Kept'
  BY <1>0, <1>2, <1>3, Frame
<1>5. /\ \A l \in Levels : l < h => level'[l] = level[l]
      /\ level'[h] = [node |-> n + 1, gen |-> gen[v] + moved]
  BY <1>0, <1>2, PushLevels
<1>6. NodeAt(h)' = k /\ \A l \in Levels : l < h => NodeAt(l)' = NodeAt(l)
  BY <1>5 DEF NodeAt
<1>7. Kept' = Kept \union {k} /\ Kept \subseteq Listed
  BY <1>4 DEF Kept
<1>8. \A c \in Kept : parent'[c] = parent[c]
  BY <1>4, <1>7
<1>9. Children(v)' = Children(v) \union {k}
  BY <1>4, <1>7, <1>8 DEF Children
<1>10. \A w \in 0..MaxLen : w # v => Children(w)' = Children(w)
  BY <1>4, <1>7, <1>8 DEF Children
<1>11. Children(k) = {}
  <2>1. ASSUME NEW c \in Kept PROVE parent[c] # k
    <3>1. c \in 1..n /\ parent[c] <= c
      BY <1>0, <1>7 DEF TreeInv, Shape
    <3>2. parent[c] \in 0..MaxLen
      BY <1>0, <3>1 DEF TypeOK, Nodes
    <3> QED
      BY <1>0, <3>1, <3>2
  <2> QED
    BY <2>1 DEF Children
<1> QED
  BY <1>2, <1>4, <1>6, <1>9, <1>10, <1>11

\* The common part of both actions: what the new path and the new stack must be.
LEMMA ListedInPlace ==
  ASSUME NEW h, NEW k, k = n + 1, TypeOK, TypeOK', TreeInv, Step(h), InPlace, StackCounts,
         h = 1 \/ h \in 2..(Open + 1),
         path' = [path EXCEPT ![k] = [i \in 1..h |-> pathStack'[i]]],
         h = 1 => pathStack'[1] = tops /\ tops' = tops + 1,
         h # 1 => tops' = tops /\ pathStack' = StackAt(h),
         Open' = h, tops' = 0 => prev' = 0
  PROVE  InPlace' /\ StackCounts'
<1>0. /\ h \in Levels /\ h \in Nat \ {0} /\ n < MaxLen /\ n' = n + 1 /\ n \in Nat /\ Listed = 1..n
      /\ tops \in Nat /\ prev \in Nat /\ Open \in Nat /\ 0 \in 0..MaxLen
      /\ pathStack \in [Levels -> Nat] /\ pathStack' \in [Levels -> Nat]
      /\ k \in Nodes /\ path \in [Nodes -> Seq(Nat)] /\ Listed \subseteq Nodes
  <2>1. /\ h \in Levels /\ n < MaxLen /\ n' = n + 1 /\ n \in 0..MaxLen /\ Listed = 1..n
        /\ tops \in Nat /\ prev \in Nat
        /\ pathStack \in [Levels -> Nat] /\ pathStack' \in [Levels -> Nat]
        /\ path \in [Nodes -> Seq(Nat)]
    <3>1. h \in Levels /\ n < MaxLen /\ n' = n + 1 /\ Listed = 1..n
      BY DEF Step, Listed
    <3>2. pathStack \in [Levels -> Nat] /\ path \in [Nodes -> Seq(Nat)] /\ tops \in Nat
      BY DEF TypeOK
    <3>3. prev \in 0..MaxDepth /\ n \in 0..MaxLen
      BY DEF TypeOK
    <3>4. pathStack' \in [Levels -> Nat]
      BY DEF TypeOK, Levels
    <3> QED
      BY <3>1, <3>2, <3>3, <3>4
  <2>2. MaxLen \in Nat /\ MaxDepth \in Nat
    BY MaxDepthAssumption, MaxLenAssumption
  <2>3. h \in Nat \ {0} /\ n \in Nat /\ k \in Nodes /\ 0 \in 0..MaxLen /\ Listed \subseteq Nodes
    <3>1. h \in Nat \ {0}
      BY <2>1, <2>2 DEF Levels
    <3>2. n \in Nat /\ 0 \in 0..MaxLen
      BY <2>1, <2>2
    <3>3. k \in Nodes
      BY <2>1, <2>2, <3>2 DEF Nodes
    <3>4. Listed \subseteq Nodes
      BY <2>1, <2>2, <3>2 DEF Nodes
    <3> QED
      BY <3>1, <3>2, <3>3, <3>4
  <2>4. Open \in Nat
    BY <2>1 DEF Open
  <2> QED
    BY <2>1, <2>3, <2>4
<1>1. PICK v \in 0..MaxLen :
        /\ v \notin {k} /\ (h = 1 => v = 0)
        /\ h # 1 => v \in Listed /\ NodeAt(h - 1) = v
        /\ parent'[k] = v /\ NodeAt(h)' = k /\ height'[k] = h
        /\ k \notin Listed /\ Listed' = Listed \union {k}
        /\ \A m \in Listed : parent'[m] = parent[m] /\ height'[m] = height[m]
        /\ \A l \in Levels : l < h => NodeAt(l)' = NodeAt(l)
        /\ Children(v)' = Children(v) \union {k}
        /\ \A w \in 0..MaxLen : w # v => Children(w)' = Children(w)
        /\ Children(k) = {}
  BY OneChild
<1>2. /\ path'[k] = [i \in 1..h |-> pathStack'[i]]
      /\ \A m \in Listed : path'[m] = path[m]
  BY <1>0, <1>1
<1>3. /\ \A c \in Children(v) : c \in 1..n
      /\ IsFiniteSet(Children(v)) /\ Cardinality(Children(v)) \in Nat
      /\ k \notin Children(v)
  BY <1>0, <1>1, ChildrenFinite
<1>4. Cardinality(Children(v) \union {k}) = Cardinality(Children(v)) + 1
  BY <1>3, FS_AddElement
<1>5. h # 1 => height[v] = h - 1 /\ Counts(h - 1, v)
  <2> SUFFICES ASSUME h # 1 PROVE height[v] = h - 1 /\ Counts(h - 1, v)
    OBVIOUS
  <2>1. h - 1 \in 1..Open
    BY <1>0
  <2>2. PICK q \in Listed : NodeAt(h - 1) = q /\ height[q] = h - 1 /\ Counts(h - 1, q)
    BY <2>1 DEF StackCounts
  <2> QED
    BY <1>1, <2>2
<1>6. pathStack'[h] = Cardinality(Children(v)) /\ \A i \in 1..(h - 1) : pathStack'[i] = pathStack[i]
  <2>1. CASE h = 1
    BY <1>1, <2>1 DEF StackCounts
  <2>2. CASE h # 1
    <3>1. h \in 2..(Open + 1)
      BY <2>2
    <3>2. pathStack'[h] = IF h > prev THEN 0 ELSE pathStack[h] + 1
      BY <1>0, <2>2 DEF StackAt
    <3>3. \A i \in 1..(h - 1) : pathStack'[i] = pathStack[i]
      BY <1>0, <2>2 DEF StackAt, Levels
    <3>4. Cardinality(Children(v)) = IF h - 1 < Open THEN pathStack[h - 1 + 1] + 1 ELSE 0
      BY <1>5, <2>2 DEF Counts
    <3>5. h - 1 < Open <=> ~(h > prev)
      BY <1>0, <3>1 DEF Open
    <3>6. h - 1 + 1 = h
      BY <1>0
    <3> QED
      BY <3>2, <3>3, <3>4, <3>5, <3>6
  <2> QED
    BY <2>1, <2>2
<1>7. InPlace'
  <2>1. ASSUME NEW m \in Listed PROVE \E w \in 0..MaxLen : PlaceOf(m, w)'
    <3>1. PICK w \in 0..MaxLen : PlaceOf(m, w)
      BY DEF InPlace
    <3>2. w = 0 \/ w \in Listed
      <4>1. parent[m] = w /\ parent[m] <= m /\ m \in 1..n
        BY <1>0, <3>1 DEF PlaceOf, TreeInv, Shape
      <4> QED
        BY <1>0, <4>1
    <3>3. Siblings(w, m)' = Siblings(w, m)
      <4>1. ~(k < m)
        BY <1>0
      <4>2. Children(w)' = Children(w) \/ Children(w)' = Children(w) \union {k}
        BY <1>1
      <4> QED
        BY <4>1, <4>2 DEF Siblings
    <3>4. parent'[m] = w
      BY <1>1, <3>1 DEF PlaceOf
    <3>5. w # 0 => path'[w] = path[w]
      BY <1>2, <3>2
    <3>6. path'[m] = (IF w = 0 THEN <<>> ELSE path[w]) \o <<Cardinality(Siblings(w, m))>>
      BY <1>2, <3>1 DEF PlaceOf
    <3>7. path'[m] = (IF w = 0 THEN <<>> ELSE path'[w]) \o <<Cardinality(Siblings(w, m)')>>
      BY <3>3, <3>5, <3>6
    <3>8. PlaceOf(m, w)'
      BY <3>4, <3>7 DEF PlaceOf
    <3> QED
      BY <3>8
  <2>2. PlaceOf(k, v)'
    <3>1. Siblings(v, k)' = Children(v)
      BY <1>0, <1>1, <1>3 DEF Siblings
    <3>2. path'[k] = [i \in 1..(h - 1) |-> pathStack'[i]] \o <<pathStack'[h]>>
      <4>1. \A i \in 1..h : pathStack'[i] \in Nat
        BY <1>0 DEF Levels
      <4> QED
        BY <1>0, <1>2, <4>1, LongerPath
    <3>3. [i \in 1..(h - 1) |-> pathStack'[i]] = IF v = 0 THEN <<>> ELSE path[v]
      <4>1. CASE h = 1
        BY <1>1, <4>1
      <4>2. CASE h # 1
        <5>1. v # 0 /\ path[v] = [i \in 1..(h - 1) |-> pathStack[i]]
          BY <1>0, <1>1, <1>5, <4>2 DEF Counts
        <5> QED
          BY <1>6, <5>1
      <4> QED
        BY <4>1, <4>2
    <3>4. v # 0 => path'[v] = path[v]
      BY <1>1, <1>2
    <3> QED
      BY <1>1, <1>6, <3>1, <3>2, <3>3, <3>4 DEF PlaceOf
  <2> QED
    BY <1>1, <2>1, <2>2 DEF InPlace
<1>8. StackCounts'
  <2>1. Cardinality(Children(0))' = tops'
    <3>1. CASE h = 1
      BY <1>1, <1>4, <3>1 DEF StackCounts
    <3>2. CASE h # 1
      BY <1>0, <1>1, <3>2 DEF StackCounts
    <3> QED
      BY <3>1, <3>2
  <2>2. ASSUME NEW l \in 1..(h - 1)
        PROVE  \E q \in Listed' : NodeAt(l)' = q /\ height'[q] = l /\ Counts(l, q)'
    <3>1. l \in 1..Open /\ l \in Levels /\ l < h /\ h # 1
      BY <1>0 DEF Levels
    <3>2. PICK q \in Listed : NodeAt(l) = q /\ height[q] = l /\ Counts(l, q)
      BY <3>1 DEF StackCounts
    <3>3. q \in Listed' /\ NodeAt(l)' = q /\ height'[q] = l /\ q \in 0..MaxLen
      BY <1>0, <1>1, <3>1, <3>2 DEF Nodes
    <3>4. path'[q] = [i \in 1..l |-> pathStack'[i]]
      <4>1. \A i \in 1..l : pathStack'[i] = pathStack[i]
        BY <1>0, <1>6, <3>1
      <4> QED
        BY <1>2, <3>2, <4>1 DEF Counts
    <3>5. Cardinality(Children(q)') = pathStack'[l + 1] + 1
      <4>1. CASE l = h - 1
        <5>1. q = v /\ l + 1 = h
          BY <1>0, <1>1, <3>1, <3>2, <4>1
        <5> QED
          BY <1>1, <1>4, <1>6, <5>1
      <4>2. CASE l # h - 1
        <5>1. q # v /\ l < Open /\ l + 1 \in 1..(h - 1)
          BY <1>0, <1>5, <3>1, <3>2, <4>2
        <5>2. Children(q)' = Children(q)
          BY <1>1, <3>3, <5>1
        <5> QED
          BY <1>6, <3>2, <5>1, <5>2 DEF Counts
      <4> QED
        BY <4>1, <4>2
    <3>6. l < Open'
      BY <1>0, <3>1
    <3> QED
      BY <3>3, <3>4, <3>5, <3>6 DEF Counts
  <2>3. k \in Listed' /\ NodeAt(h)' = k /\ height'[k] = h /\ Counts(h, k)'
    <3>1. Children(k)' = {}
      <4>1. k \in 0..MaxLen /\ k # v
        BY <1>0, <1>1 DEF Nodes
      <4> QED
        BY <1>1, <4>1
    <3>2. Cardinality(Children(k)') = 0
      BY <3>1, FS_EmptySet
    <3> QED
      BY <1>0, <1>1, <1>2, <3>2 DEF Counts
  <2>4. \A l \in 1..h : \E q \in Listed' : NodeAt(l)' = q /\ height'[q] = l /\ Counts(l, q)'
    <3>1. \A l \in 1..h : l \in 1..(h - 1) \/ l = h
      BY <1>0
    <3> QED
      BY <2>2, <2>3, <3>1
  <2> QED
    BY <2>1, <2>4 DEF StackCounts
<1> QED
  BY <1>7, <1>8

LEMMA PathStep ==
  ASSUME IInv, IInv', PathInv, [Next]_vars
  PROVE  PathInv'
<1> SUFFICES ASSUME heights' = "runtime" PROVE InPlace' /\ StackCounts'
  BY DEF PathInv
<1>0. TypeOK /\ TypeOK' /\ TreeInv
  BY DEF IInv
<1>1. CASE TopLevel
  <2>1. /\ heights = "runtime" /\ Step(1) /\ tops \in Nat
        /\ pathStack' = [l \in Levels |-> IF l = 1 THEN tops ELSE 0] /\ 1 \in Levels
        /\ tops' = tops + 1 /\ prev' = 0
        /\ path' = [path EXCEPT ![n + 1] = <<tops>>]
    BY <1>0, <1>1 DEF TopLevel, Step, Levels, TypeOK
  <2>2. InPlace /\ StackCounts
    BY <2>1 DEF PathInv
  <2>3. pathStack'[1] = tops /\ Open' = 1
    BY <2>1 DEF Open
  <2>4. [i \in 1..1 |-> pathStack'[i]] = <<tops>>
    BY <2>3
  <2>5. path' = [path EXCEPT ![n + 1] = [i \in 1..1 |-> pathStack'[i]]]
    BY <2>1, <2>4
  <2> QED
    BY <1>0, <2>1, <2>2, <2>3, <2>5, ListedInPlace
<1>2. ASSUME NEW h \in InnerHeights, Inner(h) PROVE InPlace' /\ StackCounts'
  <2>1. /\ heights = "runtime" /\ heights' = heights /\ prev \in Nat
        /\ tops > 0 /\ tops \in Nat /\ tops' = tops /\ prev' = h
        /\ pathStack' = StackAt(h)
        /\ path' = [path EXCEPT ![n + 1] = [l \in 1..h |-> StackAt(h)[l]]]
    BY <1>0, <1>2 DEF Inner, TypeOK
  <2>2. h \in 2..MaxDepth /\ h <= (IF prev = 0 THEN 1 ELSE prev) + 1
    BY <2>1 DEF InnerHeights
  <2>3. Step(h) /\ Open' = h /\ h # 1 /\ h \in 2..(Open + 1)
    BY <1>2, <2>1, <2>2 DEF Inner, Step, Levels, Open
  <2>4. InPlace /\ StackCounts
    BY <2>1 DEF PathInv
  <2>5. path' = [path EXCEPT ![n + 1] = [i \in 1..h |-> pathStack'[i]]]
    BY <2>1
  <2>6. h # 1 /\ (h = 1 \/ h \in 2..(Open + 1)) /\ (tops' = 0 => prev' = 0)
    BY <2>1, <2>3
  <2>7. PICK k : k = n + 1
    OBVIOUS
  <2>8. path' = [path EXCEPT ![k] = [i \in 1..h |-> pathStack'[i]]]
    BY <2>5, <2>7
  <2> QED
    BY <1>0, <2>1, <2>3, <2>4, <2>6, <2>7, <2>8, ListedInPlace
<1>3. CASE UNCHANGED vars
  <2>1. /\ heights' = heights /\ tops' = tops /\ prev' = prev /\ n' = n
        /\ path' = path /\ pathStack' = pathStack /\ height' = height
        /\ parent' = parent /\ level' = level
    BY <1>3 DEF vars, listVars, treeVars
  <2>2. Listed' = Listed /\ Kept' = Kept /\ Open' = Open
    BY <1>3 DEF vars, listVars, treeVars, Listed, Kept, Dropped, Open
  <2>3. \A v : Children(v)' = Children(v)
    BY <2>1, <2>2 DEF Children
  <2>4. InPlace /\ StackCounts
    BY <2>1 DEF PathInv
  <2>5. InPlace'
    BY <2>1, <2>2, <2>3, <2>4 DEF InPlace, PlaceOf, Siblings
  <2>6. StackCounts'
    BY <2>1, <2>2, <2>3, <2>4 DEF StackCounts, Counts, NodeAt
  <2> QED
    BY <2>5, <2>6
<1> QED
  BY <1>1, <1>2, <1>3 DEF Next

LEMMA InitPaths ==
  ASSUME Init
  PROVE  PathInv
<1> SUFFICES InPlace /\ StackCounts
  BY DEF PathInv
<1>1. Listed = {} /\ Open = 0 /\ Children(0) = {}
  BY DEF Init, Listed, Open, Children, Kept
<1>2. Cardinality(Children(0)) = 0 /\ tops = 0 /\ prev = 0
  BY <1>1, FS_EmptySet DEF Init
<1>3. InPlace
  BY <1>1 DEF InPlace
<1>4. 1..Open = {}
  BY <1>1
<1> QED
  BY <1>2, <1>3, <1>4 DEF StackCounts

LEMMA PathsFromCounts ==
  ASSUME IInv, PathInv
  PROVE  PathsArePlaces
<1> SUFFICES ASSUME InPlace, heights = "runtime", NEW m \in Listed
             PROVE  path[m] = (IF parent[m] = 0 THEN <<>> ELSE path[parent[m]])
                                \o <<Cardinality({c \in Children(parent[m]) : c < m})>>
  BY DEF PathInv, PathsArePlaces
<1>1. PICK v \in 0..MaxLen : PlaceOf(m, v)
  BY DEF InPlace
<1> QED
  BY <1>1 DEF PlaceOf, Siblings

-----------------------------------------------------------------------------
(* Theorems.                                                                *)

\* Whatever the heights, the builder's lists, pointers and tree agree after
\* every instruction.
THEOREM Invariance == Spec => []IInv
<1>1. Init => IInv
  BY InitIInv
<1>2. IInv /\ [Next]_vars => IInv'
  BY TopLevelPreserves, InnerPreserves, StutterPreserves DEF Next
<1> QED
  BY <1>1, <1>2, PTL DEF Spec

\* Every variable of listing and nesting keeps its type.
THEOREM TypeCorrect == Spec => []TypeOK
<1>1. IInv => TypeOK
  BY DEF IInv
<1> QED
  BY <1>1, Invariance, PTL

\* build never dereferences a pointer into a buffer that was moved away.
THEOREM BuilderPointersLive == Spec => []PointersLive
<1>1. IInv => PointersLive
  BY DEF IInv, TreeInv
<1> QED
  BY <1>1, Invariance, PTL

\* build nests every instruction under the one that governs it, and drops
\* exactly those that none governs.
THEOREM TreeIsRight == Spec => []TreeMatchesHeights
<1>1. IInv => TreeMatchesHeights
  BY DEF IInv, TreeInv
<1> QED
  BY <1>1, Invariance, PTL

\* No instruction of a real transaction is dropped by build.
THEOREM NothingIsDropped == Spec => []NothingDropped
<1>1. IInv => NothingDropped
  BY DEF IInv
<1> QED
  BY <1>1, Invariance, PTL

\* In a recorded transaction an instruction's path is its place in the tree.
THEOREM PathsAreRight == Spec => []PathsArePlaces
<1>1. Init => PathInv
  BY InitPaths
<1>2. IInv /\ IInv' /\ PathInv /\ [Next]_vars => PathInv'
  BY PathStep
<1>3. IInv /\ PathInv => PathsArePlaces
  BY PathsFromCounts
<1> QED
  BY <1>1, <1>2, <1>3, Invariance, PTL DEF Spec

-----------------------------------------------------------------------------
(* Dispatch.  The operators first: the order of a set of numbers, and what  *)
(* a decoder takes.                                                         *)

\* How many members of S there are up to m.
RankIn(S, m) == Cardinality({q \in S : q <= m})

LEMMA RankBounds ==
  ASSUME NEW S \in SUBSET Int, IsFiniteSet(S), NEW m \in S
  PROVE  RankIn(S, m) \in 1..Cardinality(S)
<1> DEFINE T == {q \in S : q <= m}
<1>1. T \in SUBSET S /\ m \in T /\ T # {}
  OBVIOUS
<1> HIDE DEF T
<1>2. IsFiniteSet(T) /\ Cardinality(T) <= Cardinality(S)
  BY <1>1, FS_Subset
<1>3. Cardinality(T) \in Nat /\ Cardinality(S) \in Nat /\ Cardinality(T) # 0
  BY <1>1, <1>2, FS_CardinalityType, FS_EmptySet
<1>4. Cardinality(T) \in 1..Cardinality(S)
  BY <1>2, <1>3
<1> QED
  BY <1>4 DEF RankIn, T

LEMMA RankGrows ==
  ASSUME NEW S \in SUBSET Int, IsFiniteSet(S), NEW m \in S, NEW k \in S, m < k
  PROVE  RankIn(S, m) < RankIn(S, k)
<1> DEFINE T == {q \in S : q <= m}
           U == {q \in S : q <= k}
<1>1. T \in SUBSET U /\ U \in SUBSET S /\ k \in U /\ k \notin T
  <2>1. m \in Int /\ k \in Int /\ ~(k <= m) /\ k <= k
    OBVIOUS
  <2>2. \A q \in S : q <= m => q <= k
    OBVIOUS
  <2> QED
    BY <2>1, <2>2
<1> HIDE DEF T, U
<1>2. IsFiniteSet(U)
  BY <1>1, FS_Subset
<1>3. IsFiniteSet(T) /\ Cardinality(T) <= Cardinality(U) /\ Cardinality(T) # Cardinality(U)
  BY <1>1, <1>2, FS_Subset
<1>4. Cardinality(T) \in Nat /\ Cardinality(U) \in Nat
  BY <1>2, <1>3, FS_CardinalityType
<1>5. Cardinality(T) < Cardinality(U)
  BY <1>3, <1>4
<1> QED
  BY <1>5 DEF RankIn, T, U

\* InOrder enumerates a finite set: every member once, the smaller ones first.
LEMMA InOrderEnumerates ==
  ASSUME NEW S \in SUBSET Int, IsFiniteSet(S)
  PROVE  /\ Cardinality(S) \in Nat
         /\ InOrder(S) \in Seq(S)
         /\ Len(InOrder(S)) = Cardinality(S)
         /\ \A m \in S : \E i \in 1..Cardinality(S) : InOrder(S)[i] = m
         /\ \A i, j \in 1..Cardinality(S) : i < j => InOrder(S)[i] < InOrder(S)[j]
<1> DEFINE c == Cardinality(S)
           rank == [m \in S |-> RankIn(S, m)]
<1>1. c \in Nat
  BY FS_CardinalityType
<1>2. rank \in [S -> 1..c]
  BY RankBounds
<1>3. \A m, k \in S : m < k => rank[m] < rank[k]
  BY RankGrows
<1>4. rank \in Injection(S, 1..c)
  <2>1. \A m, k \in S : rank[m] = rank[k] => m = k
    <3> SUFFICES ASSUME NEW m \in S, NEW k \in S, rank[m] = rank[k], m # k PROVE FALSE
      OBVIOUS
    <3>1. rank[m] \in Int /\ rank[k] \in Int
      BY <1>2
    <3>2. m < k \/ k < m
      OBVIOUS
    <3> HIDE DEF rank
    <3> QED
      BY <1>3, <3>1, <3>2
  <2> HIDE DEF rank
  <2> QED
    BY <1>2, <2>1 DEF Injection, IsInjective
<1>5. rank \in Surjection(S, 1..c)
  <2>1. IsFiniteSet(1..c) /\ Cardinality(1..c) = c
    <3>1. IsFiniteSet(1..c) /\ Cardinality(1..c) = IF 1 > c THEN 0 ELSE c - 1 + 1
      BY <1>1, FS_Interval
    <3> QED
      BY <1>1, <3>1
  <2> HIDE DEF rank
  <2> QED
    BY <1>4, <2>1, FS_Injection
<1>6. \A i \in 1..c : \E m \in S : rank[m] = i
  <2> HIDE DEF rank
  <2> QED
    BY <1>5 DEF Surjection
<1>7. \A i \in 1..c : InOrder(S)[i] \in S /\ rank[InOrder(S)[i]] = i
  BY <1>6 DEF InOrder, RankIn
<1>8. InOrder(S) \in Seq(S) /\ Len(InOrder(S)) = c
  <2>1. InOrder(S) = [i \in 1..c |-> InOrder(S)[i]]
    BY DEF InOrder
  <2>2. InOrder(S) \in [1..c -> S]
    BY <1>7, <2>1
  <2> QED
    BY <1>1, <2>2
<1>9. \A m \in S : \E i \in 1..c : InOrder(S)[i] = m
  <2> SUFFICES ASSUME NEW m \in S PROVE InOrder(S)[rank[m]] = m
    BY <1>2
  <2>1. rank[m] \in 1..c
    BY <1>2
  <2>2. InOrder(S)[rank[m]] \in S /\ rank[InOrder(S)[rank[m]]] = rank[m]
    BY <1>7, <2>1
  <2> HIDE DEF rank
  <2> QED
    BY <1>4, <2>2 DEF Injection, IsInjective
<1>10. \A i, j \in 1..c : i < j => InOrder(S)[i] < InOrder(S)[j]
  <2> SUFFICES ASSUME NEW i \in 1..c, NEW j \in 1..c, i < j, ~(InOrder(S)[i] < InOrder(S)[j])
               PROVE  FALSE
    OBVIOUS
  <2> DEFINE a == InOrder(S)[i]
             b == InOrder(S)[j]
  <2>1. a \in S /\ b \in S /\ rank[a] = i /\ rank[b] = j
    BY <1>7
  <2> HIDE DEF rank
  <2>2. b < a \/ a = b
    <3>1. a \in Int /\ b \in Int /\ ~(a < b)
      BY <2>1
    <3> HIDE DEF a, b
    <3> QED
      BY <3>1
  <2> HIDE DEF a, b
  <2> QED
    BY <1>3, <2>1, <2>2
<1> QED
  BY <1>1, <1>8, <1>9, <1>10

\* The smallest member of a set of positions exists.
LEMMA SmallestPosition ==
  ASSUME NEW k \in Nat, NEW S \in SUBSET (1..k), S # {}
  PROVE  Min(S) \in S
<1>1. S \in SUBSET Int /\ IsFiniteSet(S)
  <2>1. IsFiniteSet(1..k)
    BY FS_Interval
  <2>2. 1..k \in SUBSET Int
    OBVIOUS
  <2>3. IsFiniteSet(S)
    BY <2>1, FS_Subset
  <2> QED
    BY <2>2, <2>3
<1>2. Cardinality(S) \in Nat /\ Cardinality(S) # 0
  BY <1>1, FS_CardinalityType, FS_EmptySet
<1> DEFINE m == InOrder(S)[1]
<1>3. m \in S
  BY <1>1, <1>2, InOrderEnumerates
<1>4. \A q \in S : m <= q
  <2> SUFFICES ASSUME NEW q \in S PROVE m <= q
    OBVIOUS
  <2>1. PICK i \in 1..Cardinality(S) : InOrder(S)[i] = q
    BY <1>1, InOrderEnumerates
  <2>2. 1 < i => m < q
    BY <1>1, <1>2, <2>1, InOrderEnumerates
  <2>3. i = 1 \/ 1 < i
    BY <1>2
  <2>4. m \in Int /\ q \in Int
    BY <1>1, <1>3
  <2> HIDE DEF m
  <2>5. CASE 1 < i
    BY <2>2, <2>4, <2>5
  <2>6. CASE i = 1
    BY <2>1, <2>4, <2>6 DEF m
  <2> QED
    BY <2>3, <2>5, <2>6
<1> HIDE DEF m
<1> QED
  BY <1>3, <1>4 DEF Min

\* Data are deserialized exactly if the reference says they can be.
LEMMA DeserializesWhatFits ==
  ASSUME NEW v, IsWords(v.disc), v.fields \in Nat, NEW data, IsWords(data)
  PROVE  Deserializes(v, data) <=>
           LET end == Len(v.disc) + v.fields
           IN /\ IsPrefix(v.disc, data) /\ end <= Len(data)
              /\ Invalid \notin {data[k] : k \in (Len(v.disc) + 1)..end}
<1> DEFINE size == Len(v.disc)
           rest == SubSeq(data, size + 1, Len(data))
<1>1. size \in Nat /\ Len(data) \in Nat /\ v.disc \in Seq(Range(v.disc)) /\ data \in Seq(Range(data))
  BY DEF IsWords
<1>2. SubSeq(v.disc, 1, size) = v.disc
  BY <1>1, SubSeqFull
<1>3. /\ Len(rest) = IF size + 1 <= Len(data) THEN Len(data) - (size + 1) + 1 ELSE 0
      /\ \A i \in 1..(Len(data) - (size + 1) + 1) : rest[i] = data[size + 1 + i - 1]
  <2>1. \A i \in (size + 1)..Len(data) : data[i] \in Range(data)
    <3> SUFFICES ASSUME NEW i \in (size + 1)..Len(data) PROVE data[i] \in Range(data)
      OBVIOUS
    <3>1. i \in 1..Len(data)
      BY <1>1
    <3> QED
      BY <1>1, <3>1, ElementOfSeq
  <2>2. size + 1 \in Int /\ Len(data) \in Int
    BY <1>1
  <2> HIDE DEF size
  <2> QED
    BY <2>1, <2>2, SubSeqProperties
<1>4. Deserializes(v, data) <=>
        /\ Len(data) >= size /\ SubSeq(data, 1, size) = v.disc
        /\ Len(rest) >= v.fields /\ \A i \in 1..v.fields : rest[i] # Invalid
  BY DEF Deserializes, BorshReads
<1>5. IsPrefix(v.disc, data) <=> size <= Len(data) /\ v.disc = SubSeq(data, 1, size)
  BY <1>2 DEF IsPrefix
<1>6. ASSUME size <= Len(data)
      PROVE  (Len(rest) >= v.fields /\ \A i \in 1..v.fields : rest[i] # Invalid) <=>
             (/\ size + v.fields <= Len(data)
              /\ Invalid \notin {data[k] : k \in (size + 1)..(size + v.fields)})
  <2>1. Len(rest) = Len(data) - size
    <3> HIDE DEF size, rest
    <3> QED
      BY <1>1, <1>3, <1>6
  <2> HIDE DEF size, rest
  <2>2. Len(rest) >= v.fields <=> size + v.fields <= Len(data)
    BY <1>1, <2>1
  <2>3. ASSUME size + v.fields <= Len(data)
        PROVE  (\A i \in 1..v.fields : rest[i] # Invalid) <=>
               (Invalid \notin {data[k] : k \in (size + 1)..(size + v.fields)})
    <3>1. \A i \in 1..v.fields : size + i \in (size + 1)..(size + v.fields) /\ rest[i] = data[size + i]
      <4> SUFFICES ASSUME NEW i \in 1..v.fields
                   PROVE  size + i \in (size + 1)..(size + v.fields) /\ rest[i] = data[size + i]
        OBVIOUS
      <4>1. i \in 1..(Len(data) - (size + 1) + 1) /\ size + 1 + i - 1 = size + i
        BY <1>1, <2>3
      <4>2. rest[i] = data[size + 1 + i - 1]
        BY <1>3, <4>1
      <4> QED
        BY <1>1, <4>1, <4>2
    <3>2. \A k \in (size + 1)..(size + v.fields) : k - size \in 1..v.fields /\ size + (k - size) = k
      BY <1>1
    <3> QED
      BY <3>1, <3>2
  <2> QED
    BY <2>2, <2>3
<1>7. (Len(data) >= size) <=> (size <= Len(data))
  BY <1>1
<1> HIDE DEF size, rest
<1>8. Deserializes(v, data) <=>
        /\ IsPrefix(v.disc, data) /\ size + v.fields <= Len(data)
        /\ Invalid \notin {data[k] : k \in (size + 1)..(size + v.fields)}
  BY <1>4, <1>5, <1>6, <1>7
<1> QED
  BY <1>8 DEF size

\* decode_instruction finds something exactly if the data are a discriminator the
\* decoder knows, with the fields of its type behind it: no type shadows another
\* into nothing, and nothing else is taken for an instruction.
THEOREM DecodesWhatItUnderstands ==
  ASSUME NEW decoder, IsDecoder(decoder), NEW data, IsWords(data)
  PROVE  DecodeWith(decoder, data) # None <=> Understands(decoder, data)
<1> DEFINE results == [i \in DOMAIN decoder |->
                         IF Deserializes(decoder[i], data) THEN decoder[i].type ELSE None]
           some == {i \in DOMAIN results : results[i] # None}
<1>1. /\ decoder \in Seq(Range(decoder))
      /\ \A i \in DOMAIN decoder :
           IsWords(decoder[i].disc) /\ decoder[i].fields \in Nat /\ decoder[i].type # None
  BY DEF IsDecoder, IsWords
<1>2. some = {i \in DOMAIN decoder : Deserializes(decoder[i], data)}
  BY <1>1
<1>3. some # {} <=> Understands(decoder, data)
  <2>1. \A i \in DOMAIN decoder : Deserializes(decoder[i], data) <=>
          LET end == Len(decoder[i].disc) + decoder[i].fields
          IN /\ IsPrefix(decoder[i].disc, data) /\ end <= Len(data)
             /\ Invalid \notin {data[k] : k \in (Len(decoder[i].disc) + 1)..end}
    BY <1>1, DeserializesWhatFits
  <2> HIDE DEF some
  <2> QED
    BY <1>2, <2>1 DEF Understands
<1>4. DecodeWith(decoder, data) = IF some = {} THEN None ELSE results[Min(some)]
  BY DEF DecodeWith, FirstOf
<1>5. ASSUME some # {} PROVE results[Min(some)] # None
  <2>1. DOMAIN decoder = 1..Len(decoder) /\ Len(decoder) \in Nat
    BY <1>1, LenProperties
  <2>2. some \in SUBSET (1..Len(decoder))
    BY <2>1
  <2>3. Min(some) \in some
    <3> HIDE DEF some
    <3> QED
      BY <1>5, <2>1, <2>2, SmallestPosition
  <2> QED
    BY <2>3
<1> HIDE DEF some, results
<1> QED
  BY <1>3, <1>4, <1>5

\* The pipes of an update: a sequence of positions in the builder's list, of the
\* update's kind or, for a transaction, of the two kinds it has.
LEMMA AttachedPipes ==
  ASSUME NEW kind
  PROVE  /\ Attached(kind) \in Seq(DOMAIN Pipes)
         /\ \A i \in 1..Len(Attached(kind)) : Pipes[Attached(kind)[i]].kind = kind
<1> DEFINE S == {p \in DOMAIN Pipes : Pipes[p].kind = kind}
<1>1. S \in SUBSET Int /\ IsFiniteSet(S) /\ S \subseteq DOMAIN Pipes
  <2>1. Len(Pipes) \in Nat /\ DOMAIN Pipes = 1..Len(Pipes)
    BY PipesAssumption
  <2>2. IsFiniteSet(1..Len(Pipes)) /\ 1..Len(Pipes) \subseteq Int
    BY <2>1, FS_Interval
  <2>3. S \in SUBSET (1..Len(Pipes))
    BY <2>1
  <2> HIDE DEF S
  <2> QED
    BY <2>1, <2>2, <2>3, FS_Subset
<1>2. InOrder(S) \in Seq(S)
  <2> HIDE DEF S
  <2> QED
    BY <1>1, InOrderEnumerates
<1>3. InOrder(S) \in Seq(DOMAIN Pipes)
  <2> HIDE DEF S
  <2> QED
    BY <1>1, <1>2, SeqMonotonic
<1>4. \A i \in 1..Len(InOrder(S)) : InOrder(S)[i] \in S
  <2> HIDE DEF S
  <2> QED
    BY <1>2, ElementOfSeq
<1> QED
  BY <1>3, <1>4 DEF Attached

LEMMA PipesOfKinds ==
  ASSUME NEW kind \in DOMAIN PipesOf
  PROVE  /\ PipesOf[kind] \in Seq(DOMAIN Pipes)
         /\ \A i \in 1..Len(PipesOf[kind]) :
              LET own == Pipes[PipesOf[kind][i]].kind
              IN IF kind = "transaction" THEN own \in {"instruction", "transaction"} ELSE own = kind
<1>1. kind \in {"account", "deletion", "block", "transaction"}
  BY DEF PipesOf
<1>2. CASE kind # "transaction"
  <2>1. PipesOf[kind] = Attached(kind)
    BY <1>1, <1>2 DEF PipesOf, AccountPipes, AccountDeletionPipes, BlockDetailsPipes
  <2> QED
    BY <1>2, <2>1, AttachedPipes
<1>3. CASE kind = "transaction"
  <2> DEFINE a == Attached("instruction")
             b == Attached("transaction")
  <2>1. PipesOf[kind] = a \o b
    BY <1>3 DEF PipesOf, InstructionPipes, TransactionPipes
  <2>2. /\ a \in Seq(DOMAIN Pipes) /\ \A i \in 1..Len(a) : Pipes[a[i]].kind = "instruction"
        /\ b \in Seq(DOMAIN Pipes) /\ \A i \in 1..Len(b) : Pipes[b[i]].kind = "transaction"
    BY AttachedPipes
  <2> HIDE DEF a, b
  <2>3. /\ a \o b \in Seq(DOMAIN Pipes) /\ Len(a \o b) = Len(a) + Len(b)
        /\ \A i \in 1..Len(a) + Len(b) : (a \o b)[i] = IF i <= Len(a) THEN a[i] ELSE b[i - Len(a)]
    BY <2>2, ConcatProperties
  <2>4. Len(a) \in Nat /\ Len(b) \in Nat
    BY <2>2
  <2>5. \A i \in 1..Len(a \o b) : Pipes[(a \o b)[i]].kind \in {"instruction", "transaction"}
    <3> SUFFICES ASSUME NEW i \in 1..Len(a) + Len(b)
                 PROVE  Pipes[(a \o b)[i]].kind \in {"instruction", "transaction"}
      BY <2>3
    <3>1. i \in 1..Len(a) \/ i - Len(a) \in 1..Len(b)
      BY <2>4
    <3>2. CASE i \in 1..Len(a)
      <4>1. (a \o b)[i] = a[i]
        BY <2>3, <2>4, <3>2
      <4> QED
        BY <2>2, <3>2, <4>1
    <3>3. CASE i - Len(a) \in 1..Len(b)
      <4>1. (a \o b)[i] = b[i - Len(a)]
        BY <2>3, <2>4, <3>3
      <4> QED
        BY <2>2, <3>3, <4>1
    <3> QED
      BY <3>1, <3>2, <3>3
  <2> QED
    BY <1>3, <2>1, <2>3, <2>5
<1> QED
  BY <1>2, <1>3

-----------------------------------------------------------------------------
(* The invariant of a walk.                                                 *)

Ascending(s) == \A i, j \in 1..Len(s) : i < j => s[i] < s[j]
Holds(s, m)  == \E i \in 1..Len(s) : s[i] = m

\* The first node the pipe at work has not been called with.
NextIx == IF pending = <<>> THEN n + 1 ELSE Head(pending)

\* What a walk needs of the trees: a node comes after its parent, and whatever
\* is below a node comes before what is beside it.
Nested ==
  /\ n \in 0..MaxLen
  /\ \A m \in Listed : parent[m] \in 0..(m - 1)
  /\ \A c, q \in Listed : parent[q] < parent[c] /\ parent[c] < q => c < q

DispatchTypes ==
  /\ outcome \in {"running", "done", "failed"}
  /\ update.kind \in DOMAIN PipesOf
  /\ update.kind = "transaction" => update.what \in [Listed -> Data]
  /\ update.kind = "account" => update.what \in [1..1 -> Data]
  /\ at \in 0..Len(PipesOf[update.kind])
  /\ pending \in Seq(0..n)
  /\ handled \in Seq(AllDue)
  /\ outcome = "done" => pending = <<>> /\ at = Len(PipesOf[update.kind])

HereKind == Here.kind
HereOpen == Admits(Here)

\* An instruction pipe still has to be called with the nodes from NextIx on whose
\* parent it has been called with, and in this order.
WalkInv ==
  /\ at = 0 => pending = <<>>
  /\ at # 0 /\ HereKind # "instruction" => pending \in {<<>>, <<0>>}
  /\ at # 0 /\ HereKind = "instruction" =>
       /\ pending \in Seq(Listed) /\ Ascending(pending)
       /\ HereOpen =>
            \A m \in Listed : Holds(pending, m) <=> (m >= NextIx /\ parent[m] < NextIx)

\* The calls made are those that are due up to here.
HandedInv ==
  /\ \A i, j \in 1..Len(handled) : i < j => Before(handled[i], handled[j])
  /\ \A c \in AllDue : c \in Range(handled) <=> (c.at < at \/ (c.at = at /\ c.ix < NextIx))

DispatchInv ==
  /\ outcome = "idle" => IInv /\ at = 0 /\ pending = <<>> /\ handled = <<>>
  /\ outcome # "idle" => Nested /\ DispatchTypes /\ WalkInv /\ HandedInv

\* A tree that matches the heights is nested.
LEMMA TreesAreNested ==
  ASSUME IInv, heights # "any"
  PROVE  Nested
<1>1. /\ n \in 0..MaxLen /\ Dropped = {}
      /\ \A m \in Listed : height[m] \in Nat /\ parent[m] \in Nat
      /\ \A m \in Listed : parent[m] <= m /\ parent[m] # m /\ (parent[m] = 0 <=> height[m] = 1)
  <2>1. TypeOK /\ Shape /\ NothingDropped
    BY DEF IInv, TreeInv
  <2>2. n \in 0..MaxLen /\ Listed \subseteq Nodes
    BY <2>1 DEF TypeOK, Listed, Nodes
  <2>3. \A m \in Listed : height[m] \in Nat /\ parent[m] \in Nat
    BY <2>1, <2>2 DEF TypeOK
  <2>4. Dropped = {}
    BY <2>1 DEF NothingDropped
  <2> QED
    BY <2>1, <2>2, <2>3, <2>4 DEF Shape, Dropped
<1>2. \A m \in Listed : m \in Nat
  BY DEF Listed
<1>3. \A m \in Listed : parent[m] \in 0..(m - 1)
  BY <1>1, <1>2
<1>4. \A m \in Listed : parent[m] # 0 => Governs(parent[m], m)
  <2>1. \A m \in Listed : Placed(m)
    BY DEF IInv, TreeInv, TreeMatchesHeights
  <2> QED
    BY <1>1, <2>1 DEF Placed
<1>5. ASSUME NEW c \in Listed, NEW q \in Listed, parent[q] < parent[c], parent[c] < q
      PROVE  c < q
  <2> DEFINE v == parent[c]
  <2>1. c \in Nat /\ q \in Nat /\ v \in Nat /\ parent[q] \in Nat /\ v # 0 /\ c # q
    BY <1>1, <1>2, <1>5
  <2>2. Governs(v, c)
    BY <1>4, <2>1
  <2>3. /\ v \in Listed /\ height[v] = height[c] - 1
        /\ \A r \in (v + 1)..(c - 1) : height[r] >= height[c]
    BY <2>2 DEF Governs, Kept
  <2>4. height[c] \in Nat /\ height[q] \in Nat /\ height[v] \in Nat
    BY <1>1, <2>3
  <2>5. ASSUME q < c PROVE FALSE
    <3>1. q \in (v + 1)..(c - 1)
      BY <1>5, <2>1, <2>5
    <3>2. height[q] >= height[c]
      BY <2>3, <3>1
    <3>3. parent[q] # 0
      <4>1. height[c] # 1
        BY <1>1, <2>1
      <4>2. height[q] # 1
        BY <1>1, <2>3, <2>4, <3>2, <4>1
      <4> QED
        BY <1>1, <4>2
    <3>4. \A r \in (parent[q] + 1)..(q - 1) : height[r] >= height[q]
      BY <1>4, <3>3 DEF Governs
    <3>5. v \in (parent[q] + 1)..(q - 1)
      BY <1>5, <2>1
    <3>6. height[v] >= height[q]
      BY <3>4, <3>5
    <3> QED
      BY <2>3, <2>4, <3>2, <3>6
  <2> HIDE DEF v
  <2> QED
    BY <2>1, <2>5
<1> QED
  BY <1>1, <1>3, <1>5 DEF Nested

\* The nodes right below a node, in order.
LEMMA BelowInOrder ==
  ASSUME Nested, NEW v
  PROVE  /\ Below(v) \in Seq(Listed) /\ Ascending(Below(v))
         /\ \A m \in Listed : Holds(Below(v), m) <=> parent[m] = v
<1> DEFINE S == {m \in Listed : parent[m] = v}
<1>1. Children(v) = S
  <2>1. \A m \in Listed : parent[m] # m
    BY DEF Nested, Listed
  <2> QED
    BY <2>1 DEF Children, Kept, Dropped
<1>2. S \in SUBSET Int /\ IsFiniteSet(S) /\ S \subseteq Listed
  <2>1. n \in Nat
    BY DEF Nested
  <2>2. IsFiniteSet(Listed) /\ Listed \subseteq Int
    BY <2>1, FS_Interval DEF Listed
  <2>3. S \in SUBSET Listed
    OBVIOUS
  <2> HIDE DEF S
  <2> QED
    BY <2>2, <2>3, FS_Subset
<1>3. /\ InOrder(S) \in Seq(S) /\ Cardinality(S) \in Nat /\ Len(InOrder(S)) = Cardinality(S)
      /\ \A m \in S : \E i \in 1..Cardinality(S) : InOrder(S)[i] = m
      /\ \A i, j \in 1..Cardinality(S) : i < j => InOrder(S)[i] < InOrder(S)[j]
  <2> HIDE DEF S
  <2> QED
    BY <1>2, InOrderEnumerates
<1>4. \A i \in 1..Len(InOrder(S)) : InOrder(S)[i] \in S
  <2> HIDE DEF S
  <2> QED
    BY <1>3, ElementOfSeq
<1>5. InOrder(S) \in Seq(Listed)
  <2> HIDE DEF S
  <2> QED
    BY <1>2, <1>3, SeqMonotonic
<1>6. Ascending(InOrder(S))
  BY <1>3 DEF Ascending
<1>7. \A m \in Listed : Holds(InOrder(S), m) <=> parent[m] = v
  BY <1>3, <1>4 DEF Holds
<1> QED
  BY <1>1, <1>5, <1>6, <1>7 DEF Below

\* The pipe at work, while there are calls to make.
LEMMA PipeHere ==
  ASSUME DispatchTypes, NEW i \in 1..Len(PipesOf[update.kind])
  PROVE  /\ IsDecoder(PipeAt(i).decoder)
         /\ PipeAt(i).kind = "instruction" => update.kind = "transaction"
         /\ PipeAt(i).kind = "account" => update.kind = "account"
         /\ DOMAIN PipesOf[update.kind] = 1..Len(PipesOf[update.kind])
<1>1. /\ update.kind \in DOMAIN PipesOf /\ PipesOf[update.kind] \in Seq(DOMAIN Pipes)
      /\ LET own == PipeAt(i).kind
         IN IF update.kind = "transaction" THEN own \in {"instruction", "transaction"}
            ELSE own = update.kind
  BY PipesOfKinds DEF DispatchTypes, PipeAt
<1>2. PipesOf[update.kind][i] \in DOMAIN Pipes
  BY <1>1, ElementOfSeq
<1>3. IsDecoder(PipeAt(i).decoder)
  BY <1>2, PipesAssumption DEF PipeAt
<1>4. update.kind \in {"account", "deletion", "block", "transaction"}
  BY <1>1 DEF PipesOf
<1> QED
  BY <1>1, <1>3, <1>4, LenProperties

-----------------------------------------------------------------------------
(* The steps.                                                               *)

\* What no step of the walk changes: the list, the tree, the update; and so what
\* is due, to whom.
Still == UNCHANGED <<vars, update>>

LEMMA StillDue ==
  ASSUME Still
  PROVE  /\ n' = n /\ parent' = parent /\ update' = update /\ Listed' = Listed
         /\ AllDue' = AllDue
         /\ Nested => Nested'
         /\ at' = at => HereKind' = HereKind /\ (HereOpen' <=> HereOpen)
<1>1. n' = n /\ parent' = parent /\ update' = update /\ height' = height
  BY DEF Still, vars, listVars, treeVars
<1>2. Listed' = Listed
  BY <1>1 DEF Listed
<1>3. AllDue' = AllDue
  BY <1>1, <1>2 DEF AllDue, Admits, PipeAt, Expects
<1>4. Nested => Nested'
  BY <1>1, <1>2 DEF Nested
<1>5. at' = at => HereKind' = HereKind /\ (HereOpen' <=> HereOpen)
  BY <1>1 DEF HereKind, HereOpen, Here, PipeAt, Admits
<1> QED
  BY <1>1, <1>2, <1>3, <1>4, <1>5

\* A due call has a position and a node.
LEMMA DueTypes ==
  ASSUME DispatchTypes, Nested, NEW c \in AllDue
  PROVE  /\ c.at \in 1..Len(PipesOf[update.kind]) /\ c.ix \in 0..n
         /\ c = [at |-> c.at, ix |-> c.ix]
         /\ Admits(PipeAt(c.at)) /\ Expects(PipeAt(c.at), c.ix)
         /\ PipeAt(c.at).kind = "instruction" => c.ix \in Listed
         /\ PipeAt(c.at).kind # "instruction" => c.ix = 0
<1>1. PipesOf[update.kind] \in Seq(DOMAIN Pipes)
  BY PipesOfKinds DEF DispatchTypes
<1>2. DOMAIN PipesOf[update.kind] = 1..Len(PipesOf[update.kind])
  BY <1>1, LenProperties
<1>3. /\ c \in [at : DOMAIN PipesOf[update.kind], ix : {0} \cup Listed]
      /\ Admits(PipeAt(c.at)) /\ Expects(PipeAt(c.at), c.ix)
  BY DEF AllDue
<1>4. {0} \cup Listed \subseteq 0..n
  BY DEF Nested, Listed
<1>5. c.at \in 1..Len(PipesOf[update.kind]) /\ c.ix \in {0} \cup Listed /\ c = [at |-> c.at, ix |-> c.ix]
  BY <1>2, <1>3
<1>6. /\ PipeAt(c.at).kind = "instruction" => c.ix \in Listed
      /\ PipeAt(c.at).kind # "instruction" => c.ix = 0
  <2>1. CASE PipeAt(c.at).kind = "instruction"
    BY <1>3, <2>1 DEF Expects
  <2>2. CASE PipeAt(c.at).kind = "account"
    BY <1>3, <2>2 DEF Expects
  <2>3. CASE PipeAt(c.at).kind # "account" /\ PipeAt(c.at).kind # "instruction"
    BY <1>3, <2>3 DEF Expects
  <2> QED
    BY <2>1, <2>2, <2>3
<1> QED
  BY <1>3, <1>4, <1>5, <1>6

\* The next call is made exactly if it is due.
LEMMA NextIsDue ==
  ASSUME DispatchTypes, Nested, WalkInv, pending # <<>>, Admits(Here)
  PROVE  /\ at \in 1..Len(PipesOf[update.kind])
         /\ Head(pending) \in 0..n
         /\ Decodes(Here, Head(pending)) <=> [at |-> at, ix |-> Head(pending)] \in AllDue
<1> DEFINE v == Head(pending)
           call == [at |-> at, ix |-> v]
<1>1. at \in 1..Len(PipesOf[update.kind])
  <2>1. PipesOf[update.kind] \in Seq(DOMAIN Pipes)
    BY PipesOfKinds DEF DispatchTypes
  <2>2. Len(PipesOf[update.kind]) \in Nat /\ at \in 0..Len(PipesOf[update.kind]) /\ at # 0
    BY <2>1 DEF DispatchTypes, WalkInv
  <2> QED
    BY <2>2
<1>2. /\ IsDecoder(Here.decoder)
      /\ Here.kind = "instruction" => update.kind = "transaction"
      /\ Here.kind = "account" => update.kind = "account"
      /\ at \in DOMAIN PipesOf[update.kind]
  BY <1>1, PipeHere DEF Here
<1>3. v \in 0..n
  BY HeadTailProperties DEF DispatchTypes
<1>4. /\ Here.kind = "instruction" => v \in Listed
      /\ Here.kind # "instruction" => v = 0
  <2>1. CASE Here.kind = "instruction"
    <3>1. pending \in Seq(Listed)
      BY <1>1, <2>1 DEF WalkInv, HereKind
    <3> QED
      BY <2>1, <3>1, HeadTailProperties
  <2>2. CASE Here.kind # "instruction"
    <3>1. pending = <<0>>
      BY <1>1, <2>2 DEF WalkInv, HereKind
    <3> QED
      BY <2>2, <3>1
  <2> QED
    BY <2>1, <2>2
<1>5. call \in AllDue <=> Expects(Here, v)
  <2>1. v \in {0} \cup Listed
    BY <1>4
  <2>2. call \in [at : DOMAIN PipesOf[update.kind], ix : {0} \cup Listed]
    BY <1>2, <2>1
  <2>3. PipeAt(call.at) = Here /\ call.ix = v
    BY DEF Here
  <2> HIDE DEF call, v
  <2> QED
    BY <2>2, <2>3 DEF AllDue
<1>6. Decodes(Here, v) <=> Expects(Here, v)
  <2> HIDE DEF v
  <2>1. CASE Here.kind = "instruction"
    <3>1. update.what[v] \in Data
      BY <1>2, <1>4, <2>1 DEF DispatchTypes
    <3>2. IsWords(update.what[v])
      BY <3>1, DataAssumption
    <3>3. DecodeWith(Here.decoder, update.what[v]) # None <=> Understands(Here.decoder, update.what[v])
      BY <1>2, <3>2, DecodesWhatItUnderstands
    <3>4. Expects(Here, v) <=> Understands(Here.decoder, update.what[v])
      BY <1>4, <2>1 DEF Expects
    <3> QED
      BY <2>1, <3>3, <3>4 DEF Decodes
  <2>2. CASE Here.kind = "account"
    <3>1. update.what[1] \in Data
      BY <1>2, <2>2 DEF DispatchTypes
    <3>2. IsWords(update.what[1])
      BY <3>1, DataAssumption
    <3>3. DecodeWith(Here.decoder, update.what[1]) # None <=> Understands(Here.decoder, update.what[1])
      BY <1>2, <3>2, DecodesWhatItUnderstands
    <3>4. Expects(Here, v) <=> Understands(Here.decoder, update.what[1])
      BY <1>4, <2>2 DEF Expects
    <3> QED
      BY <2>2, <3>3, <3>4 DEF Decodes
  <2>3. CASE Here.kind # "account" /\ Here.kind # "instruction"
    <3>1. Expects(Here, v)
      BY <1>4, <2>3 DEF Expects
    <3> QED
      BY <2>3, <3>1 DEF Decodes
  <2> QED
    BY <2>1, <2>2, <2>3
<1> QED
  BY <1>1, <1>3, <1>5, <1>6

\* The history after a call: next is where the walk is then.  Nothing is due to
\* the pipe between the node it was called with and next.
LEMMA CallIsRecorded ==
  ASSUME DispatchTypes, Nested, WalkInv, HandedInv, pending # <<>>, Admits(Here), Hand,
         Still, at' = at, NEW next, next = NextIx', next \in Int,
         \A c \in AllDue : c.at = at => (c.ix < next <=> c.ix <= Head(pending))
  PROVE  HandedInv' /\ handled' \in Seq(AllDue)
<1> DEFINE v == Head(pending)
           call == [at |-> at, ix |-> v]
<1>1. /\ at \in 1..Len(PipesOf[update.kind]) /\ v \in 0..n
      /\ Decodes(Here, v) <=> call \in AllDue
  BY NextIsDue
<1>2. /\ AllDue' = AllDue /\ handled \in Seq(AllDue) /\ NextIx = v /\ n \in Nat
  BY StillDue DEF DispatchTypes, NextIx, Nested
<1>3. \A c \in AllDue : c.at \in Int /\ c.ix \in Int /\ c = [at |-> c.at, ix |-> c.ix]
  BY DueTypes
<1>4. at \in Int /\ v \in Int
  BY <1>1
<1>5. \A c \in AllDue : (c.at < at \/ (c.at = at /\ c.ix < next)) <=>
                        (c.at < at \/ (c.at = at /\ c.ix < v)) \/ c = call
  <2> SUFFICES ASSUME NEW c \in AllDue
               PROVE  (c.at < at \/ (c.at = at /\ c.ix < next)) <=>
                      (c.at < at \/ (c.at = at /\ c.ix < v)) \/ c = call
    OBVIOUS
  <2>1. c = call <=> (c.at = at /\ c.ix = v)
    BY <1>3
  <2>2. c.at = at => (c.ix < next <=> c.ix <= v)
    OBVIOUS
  <2>3. c.ix \in Int /\ v \in Int /\ at \in Int
    BY <1>3, <1>4
  <2> HIDE DEF v, call
  <2>4. c.ix <= v <=> (c.ix < v \/ c.ix = v)
    BY <2>3
  <2>5. c.at = at => ~(c.at < at)
    BY <2>3
  <2> QED
    BY <2>1, <2>2, <2>4, <2>5
<1>6. \A c \in AllDue : c \in Range(handled) <=> (c.at < at \/ (c.at = at /\ c.ix < v))
  BY <1>2 DEF HandedInv
<1>7. \A i \in 1..Len(handled) : handled[i] \in Range(handled) /\ handled[i] \in AllDue
  <2>1. DOMAIN handled = 1..Len(handled)
    BY <1>2, LenProperties
  <2> QED
    BY <1>2, <2>1, ElementOfSeq DEF Range
<1>8. /\ \A i, j \in 1..Len(handled') : i < j => Before(handled'[i], handled'[j])
      /\ \A c \in AllDue : c \in Range(handled') <=> c \in Range(handled) \/ c = call
      /\ handled' \in Seq(AllDue)
  <2>1. CASE call \in AllDue
    <3>1. handled' = Append(handled, call)
      BY <1>1, <2>1 DEF Hand
    <3>2. PICK k : k = Len(handled)
      OBVIOUS
    <3>3. k \in Nat
      BY <1>2, <3>2
    <3> HIDE DEF call
    <3>4. /\ handled' \in Seq(AllDue) /\ Len(handled') = k + 1
          /\ \A i \in 1..k : handled'[i] = handled[i]
          /\ handled'[k + 1] = call
      BY <1>2, <2>1, <3>1, <3>2, AppendProperties
    <3>5. \A i \in 1..k : Before(handled[i], call)
      <4> SUFFICES ASSUME NEW i \in 1..k PROVE Before(handled[i], call)
        OBVIOUS
      <4>1. handled[i].at < at \/ (handled[i].at = at /\ handled[i].ix < v)
        BY <1>6, <1>7, <3>2
      <4> QED
        BY <4>1 DEF Before, call
    <3>6. \A i, j \in 1..k : i < j => Before(handled[i], handled[j])
      BY <3>2 DEF HandedInv
    <3>7. ASSUME NEW i \in 1..(k + 1), NEW j \in 1..(k + 1), i < j
          PROVE  Before(handled'[i], handled'[j])
      <4>1. i \in 1..k /\ (j \in 1..k \/ j = k + 1)
        BY <3>3, <3>7
      <4> QED
        BY <3>4, <3>5, <3>6, <3>7, <4>1
    <3>8. Range(handled') = Range(handled) \cup {call}
      <4>1. DOMAIN handled' = 1..(k + 1) /\ DOMAIN handled = 1..k
        BY <1>2, <3>2, <3>4, LenProperties
      <4>2. 1..(k + 1) = 1..k \cup {k + 1}
        BY <3>3
      <4> QED
        BY <3>4, <4>1, <4>2 DEF Range
    <3> QED
      BY <3>4, <3>7, <3>8
  <2>2. CASE call \notin AllDue
    <3>1. handled' = handled
      BY <1>1, <2>2 DEF Hand
    <3> QED
      BY <1>2, <2>2, <3>1 DEF HandedInv
  <2> QED
    BY <2>1, <2>2
<1> HIDE DEF call, v
<1>9. \A c \in AllDue' : c \in Range(handled') <=> (c.at < at' \/ (c.at = at' /\ c.ix < NextIx'))
  BY <1>2, <1>5, <1>6, <1>8
<1>10. \A i, j \in 1..Len(handled') : i < j => Before(handled'[i], handled'[j])
  BY <1>8
<1> QED
  BY <1>8, <1>9, <1>10 DEF HandedInv, Before

\* Ascending sequences.
LEMMA ConcatHolds ==
  ASSUME NEW S, NEW s \in Seq(S), NEW t \in Seq(S), NEW m
  PROVE  Holds(s \o t, m) <=> Holds(s, m) \/ Holds(t, m)
<1>1. /\ Len(s) \in Nat /\ Len(t) \in Nat /\ Len(s \o t) = Len(s) + Len(t)
      /\ \A i \in 1..Len(s) + Len(t) : (s \o t)[i] = IF i <= Len(s) THEN s[i] ELSE t[i - Len(s)]
  BY ConcatProperties
<1>2. ASSUME Holds(s \o t, m) PROVE Holds(s, m) \/ Holds(t, m)
  <2>1. PICK i \in 1..Len(s) + Len(t) : (s \o t)[i] = m
    BY <1>1, <1>2 DEF Holds
  <2>2. i \in 1..Len(s) \/ (i - Len(s) \in 1..Len(t) /\ ~(i <= Len(s)))
    BY <1>1
  <2> QED
    BY <1>1, <2>1, <2>2 DEF Holds
<1>3. ASSUME Holds(s, m) PROVE Holds(s \o t, m)
  <2>1. PICK i \in 1..Len(s) : s[i] = m
    BY <1>3 DEF Holds
  <2>2. i \in 1..Len(s) + Len(t) /\ i <= Len(s)
    BY <1>1
  <2> QED
    BY <1>1, <2>1, <2>2 DEF Holds
<1>4. ASSUME Holds(t, m) PROVE Holds(s \o t, m)
  <2>1. PICK i \in 1..Len(t) : t[i] = m
    BY <1>4 DEF Holds
  <2>2. PICK k : k = Len(s) + i
    OBVIOUS
  <2>3. k \in 1..Len(s) + Len(t) /\ ~(k <= Len(s)) /\ k - Len(s) = i
    BY <1>1, <2>2
  <2> QED
    BY <1>1, <2>1, <2>3 DEF Holds
<1> QED
  BY <1>2, <1>3, <1>4

LEMMA ConcatAscends ==
  ASSUME NEW S, NEW s \in Seq(S), NEW t \in Seq(S), Ascending(s), Ascending(t),
         \A a, b \in S : Holds(s, a) /\ Holds(t, b) => a < b
  PROVE  Ascending(s \o t)
<1>1. /\ Len(s) \in Nat /\ Len(t) \in Nat /\ Len(s \o t) = Len(s) + Len(t)
      /\ \A i \in 1..Len(s) + Len(t) : (s \o t)[i] = IF i <= Len(s) THEN s[i] ELSE t[i - Len(s)]
  BY ConcatProperties
<1> SUFFICES ASSUME NEW i \in 1..Len(s) + Len(t), NEW j \in 1..Len(s) + Len(t), i < j
             PROVE  (s \o t)[i] < (s \o t)[j]
  BY <1>1 DEF Ascending
<1>2. CASE j <= Len(s)
  <2>1. i \in 1..Len(s) /\ j \in 1..Len(s) /\ i <= Len(s)
    BY <1>1, <1>2
  <2> QED
    BY <1>1, <1>2, <2>1 DEF Ascending
<1>3. CASE i <= Len(s) /\ ~(j <= Len(s))
  <2>1. i \in 1..Len(s) /\ j - Len(s) \in 1..Len(t)
    BY <1>1, <1>3
  <2>2. /\ s[i] \in S /\ t[j - Len(s)] \in S
        /\ Holds(s, s[i]) /\ Holds(t, t[j - Len(s)])
    BY <2>1, ElementOfSeq DEF Holds
  <2> QED
    BY <1>1, <1>3, <2>2
<1>4. CASE ~(i <= Len(s))
  <2>1. ~(j <= Len(s)) /\ i - Len(s) \in 1..Len(t) /\ j - Len(s) \in 1..Len(t) /\ i - Len(s) < j - Len(s)
    BY <1>1, <1>4
  <2>2. t[i - Len(s)] < t[j - Len(s)]
    BY <2>1 DEF Ascending
  <2> QED
    BY <1>1, <1>4, <2>1, <2>2
<1> QED
  BY <1>2, <1>3, <1>4

LEMMA TailAscends ==
  ASSUME NEW S \in SUBSET Int, NEW s \in Seq(S), s # <<>>, Ascending(s)
  PROVE  /\ Tail(s) \in Seq(S) /\ Ascending(Tail(s))
         /\ Head(s) \in S /\ Holds(s, Head(s))
         /\ \A m \in Int : Holds(s, m) => Head(s) <= m
         /\ \A m \in Int : Holds(Tail(s), m) <=> Holds(s, m) /\ m # Head(s)
<1>1. /\ Len(s) \in Nat /\ Len(s) # 0 /\ Tail(s) \in Seq(S) /\ Len(Tail(s)) = Len(s) - 1
      /\ Head(s) = s[1] /\ Head(s) \in S
      /\ \A i \in 1..Len(Tail(s)) : Tail(s)[i] = s[i + 1]
  BY EmptySeq, HeadTailProperties
<1>2. \A i \in 1..Len(s) : s[i] \in Int
  BY ElementOfSeq
<1>3. \A i \in 1..Len(s) : i # 1 => s[1] < s[i]
  BY <1>1 DEF Ascending
<1>4. Ascending(Tail(s))
  <2> SUFFICES ASSUME NEW i \in 1..Len(Tail(s)), NEW j \in 1..Len(Tail(s)), i < j
               PROVE  Tail(s)[i] < Tail(s)[j]
    BY DEF Ascending
  <2>1. i + 1 \in 1..Len(s) /\ j + 1 \in 1..Len(s) /\ i + 1 < j + 1
    BY <1>1
  <2>2. s[i + 1] < s[j + 1]
    BY <2>1 DEF Ascending
  <2> QED
    BY <1>1, <2>2
<1>5. Holds(s, Head(s))
  BY <1>1 DEF Holds
<1>6. \A m \in Int : Holds(s, m) => Head(s) <= m
  BY <1>1, <1>2, <1>3 DEF Holds
<1>7. ASSUME NEW m \in Int PROVE Holds(Tail(s), m) <=> Holds(s, m) /\ m # Head(s)
  <2>1. ASSUME Holds(Tail(s), m) PROVE Holds(s, m) /\ m # Head(s)
    <3>1. PICK i \in 1..Len(Tail(s)) : Tail(s)[i] = m
      BY <2>1 DEF Holds
    <3>2. i + 1 \in 1..Len(s) /\ i + 1 # 1
      BY <1>1
    <3>3. s[i + 1] = m /\ s[1] < m /\ s[1] \in Int
      BY <1>1, <1>2, <1>3, <3>1, <3>2
    <3> QED
      BY <1>1, <3>2, <3>3 DEF Holds
  <2>2. ASSUME Holds(s, m), m # Head(s) PROVE Holds(Tail(s), m)
    <3>1. PICK i \in 1..Len(s) : s[i] = m
      BY <2>2 DEF Holds
    <3>2. PICK j : j = i - 1
      OBVIOUS
    <3>3. j \in 1..Len(Tail(s)) /\ j + 1 = i
      BY <1>1, <2>2, <3>1, <3>2
    <3> QED
      BY <1>1, <3>1, <3>3 DEF Holds
  <2> QED
    BY <2>1, <2>2
<1> QED
  BY <1>1, <1>4, <1>5, <1>6, <1>7

\* A walk that has something to come: where it goes on is where its nodes begin.
LEMMA NextNode ==
  ASSUME Nested, NEW s \in Seq(Listed), NEW v \in Int, 1 <= v, v <= n + 1, Ascending(s),
         \A m \in Listed : Holds(s, m) <=> (m >= v /\ parent[m] < v)
  PROVE  (IF s = <<>> THEN n + 1 ELSE Head(s)) = v
<1>1. n \in Nat /\ Listed \subseteq Int /\ \A m \in Listed : parent[m] \in Int /\ parent[m] < m
  BY DEF Nested, Listed
<1>2. v <= n => v \in Listed /\ Holds(s, v)
  <2> SUFFICES ASSUME v <= n PROVE v \in Listed /\ Holds(s, v)
    OBVIOUS
  <2>1. v \in Listed
    BY <1>1 DEF Listed
  <2> QED
    BY <1>1, <2>1
<1>3. CASE s = <<>>
  <2>1. ~Holds(s, v)
    BY <1>3 DEF Holds
  <2> QED
    BY <1>1, <1>2, <1>3, <2>1
<1>4. CASE s # <<>>
  <2>1. /\ Head(s) \in Listed /\ Holds(s, Head(s))
        /\ \A m \in Int : Holds(s, m) => Head(s) <= m
    BY <1>1, <1>4, TailAscends
  <2>2. Head(s) >= v /\ Head(s) \in Int /\ Head(s) <= n
    BY <2>1 DEF Listed
  <2>3. v <= n
    BY <1>1, <2>2
  <2>4. Head(s) <= v
    BY <1>2, <2>1, <2>3
  <2> QED
    BY <1>4, <2>2, <2>4
<1> QED
  BY <1>3, <1>4

\* InstructionPipe::run on a node: what is below it comes before what was to come.
LEMMA RunInstructionWalks ==
  ASSUME Nested, DispatchTypes, WalkInv, HereOpen, HereKind = "instruction", pending # <<>>,
         NEW s, s = Below(Head(pending)) \o Tail(pending)
  PROVE  /\ s \in Seq(Listed) /\ Ascending(s) /\ Head(pending) \in Listed
         /\ (IF s = <<>> THEN n + 1 ELSE Head(s)) = Head(pending) + 1
         /\ \A m \in Listed : Holds(s, m) <=> (m >= Head(pending) + 1 /\ parent[m] < Head(pending) + 1)
<1> DEFINE v == Head(pending)
           b == Below(v)
           t == Tail(pending)
<1>1. at # 0
  BY DEF WalkInv
<1>2. /\ pending \in Seq(Listed) /\ Ascending(pending)
      /\ \A m \in Listed : Holds(pending, m) <=> (m >= v /\ parent[m] < v)
  BY <1>1 DEF WalkInv, NextIx
<1>3. n \in Nat /\ Listed \in SUBSET Int /\ \A m \in Listed : parent[m] \in Int /\ parent[m] < m
  BY DEF Nested, Listed
<1>4. /\ t \in Seq(Listed) /\ Ascending(t) /\ v \in Listed
      /\ \A m \in Int : Holds(t, m) <=> Holds(pending, m) /\ m # v
  BY <1>2, <1>3, TailAscends
<1>5. b \in Seq(Listed) /\ Ascending(b) /\ \A m \in Listed : Holds(b, m) <=> parent[m] = v
  BY BelowInOrder
<1> HIDE DEF v, b, t
<1>6. \A m, q \in Listed : Holds(b, m) /\ Holds(t, q) => m < q
  <2> SUFFICES ASSUME NEW m \in Listed, NEW q \in Listed, Holds(b, m), Holds(t, q) PROVE m < q
    OBVIOUS
  <2>1. parent[m] = v /\ q >= v /\ q # v /\ parent[q] < v
    BY <1>2, <1>3, <1>4, <1>5
  <2>2. parent[q] < parent[m] /\ parent[m] < q
    <3>1. q \in Int /\ v \in Int
      BY <1>3, <1>4
    <3> QED
      BY <2>1, <3>1
  <2> QED
    BY <2>2 DEF Nested
<1>7. s = b \o t
  BY DEF b, t, v
<1>8. s \in Seq(Listed) /\ Ascending(s)
  <2>1. b \in Seq(Listed) /\ t \in Seq(Listed) /\ Ascending(b) /\ Ascending(t)
    BY <1>4, <1>5
  <2>2. b \o t \in Seq(Listed)
    BY <2>1, ConcatProperties
  <2>3. Ascending(b \o t)
    BY <2>1, <1>6, ConcatAscends
  <2> QED
    BY <1>7, <2>2, <2>3
<1>9. ASSUME NEW m \in Listed
      PROVE  Holds(s, m) <=> (m >= v + 1 /\ parent[m] < v + 1)
  <2>1. Holds(s, m) <=> Holds(b, m) \/ Holds(t, m)
    <3>1. b \in Seq(Listed) /\ t \in Seq(Listed)
      BY <1>4, <1>5
    <3>2. Holds(b \o t, m) <=> Holds(b, m) \/ Holds(t, m)
      BY <3>1, ConcatHolds
    <3> QED
      BY <1>7, <3>2
  <2>2. Holds(s, m) <=> parent[m] = v \/ (m >= v /\ parent[m] < v /\ m # v)
    BY <1>2, <1>3, <1>4, <1>5, <2>1
  <2>3. m \in Int /\ v \in Int /\ parent[m] \in Int /\ parent[m] < m
    BY <1>3, <1>4
  <2> QED
    BY <2>2, <2>3
<1>10. (IF s = <<>> THEN n + 1 ELSE Head(s)) = v + 1
  <2>1. v + 1 \in Int /\ 1 <= v + 1 /\ v + 1 <= n + 1
    BY <1>3, <1>4 DEF Listed
  <2> QED
    BY <1>8, <1>9, <2>1, NextNode
<1> QED
  BY <1>4, <1>8, <1>9, <1>10 DEF v

LEMMA RunInstructionPreserves ==
  ASSUME outcome # "idle", DispatchInv, RunInstruction
  PROVE  DispatchInv'
<1>1. /\ Nested /\ DispatchTypes /\ WalkInv /\ HandedInv /\ pending # <<>>
      /\ Admits(Here) /\ HereOpen /\ HereKind = "instruction" /\ Hand
      /\ Still /\ at' = at /\ outcome' = outcome /\ at # 0
  BY DEF DispatchInv, RunInstruction, Calling, HereOpen, HereKind, Still, WalkInv
<1>2. /\ n' = n /\ parent' = parent /\ update' = update /\ Listed' = Listed /\ AllDue' = AllDue
      /\ Nested' /\ HereKind' = HereKind /\ (HereOpen' <=> HereOpen)
  BY <1>1, StillDue
<1>3. PICK s : s = pending' /\ s = Below(Head(pending)) \o Tail(pending)
  BY DEF RunInstruction
<1>4. PICK next : next = Head(pending) + 1
  OBVIOUS
<1>5. /\ s \in Seq(Listed) /\ Ascending(s) /\ Head(pending) \in Listed
      /\ (IF s = <<>> THEN n + 1 ELSE Head(s)) = next
      /\ \A m \in Listed : Holds(s, m) <=> (m >= next /\ parent[m] < next)
  BY <1>1, <1>3, <1>4, RunInstructionWalks
<1>6. NextIx' = next
  BY <1>2, <1>3, <1>5 DEF NextIx
<1>7. next \in Int /\ Head(pending) \in Int /\ Listed \subseteq 0..n
  BY <1>1, <1>4, <1>5 DEF Listed, Nested
<1>8. \A c \in AllDue : c.at = at => (c.ix < next <=> c.ix <= Head(pending))
  <2>1. \A c \in AllDue : c.ix \in Int
    BY <1>1, DueTypes
  <2> QED
    BY <1>4, <1>7, <2>1
<1>9. HandedInv' /\ handled' \in Seq(AllDue)
  BY <1>1, <1>6, <1>7, <1>8, CallIsRecorded
<1>10. WalkInv'
  BY <1>1, <1>2, <1>3, <1>5, <1>6 DEF WalkInv, Ascending, Holds
<1>11. DispatchTypes'
  <2>1. s \in Seq(0..n)
    BY <1>5, <1>7, SeqMonotonic
  <2>2. outcome = "running"
    BY DEF RunInstruction, Calling
  <2> QED
    BY <1>1, <1>2, <1>3, <1>9, <2>1, <2>2 DEF DispatchTypes
<1> QED
  BY <1>1, <1>2, <1>9, <1>10, <1>11 DEF DispatchInv

LEMMA RunWholePreserves ==
  ASSUME outcome # "idle", DispatchInv, RunWhole
  PROVE  DispatchInv'
<1>1. /\ Nested /\ DispatchTypes /\ WalkInv /\ HandedInv /\ pending # <<>>
      /\ Admits(Here) /\ HereKind # "instruction" /\ Hand
      /\ Still /\ at' = at /\ outcome' = outcome /\ at # 0
  BY DEF DispatchInv, RunWhole, Calling, HereKind, Still, WalkInv
<1>2. /\ n' = n /\ parent' = parent /\ update' = update /\ Listed' = Listed /\ AllDue' = AllDue
      /\ Nested' /\ HereKind' = HereKind /\ (HereOpen' <=> HereOpen)
  BY <1>1, StillDue
<1>3. pending = <<0>> /\ pending' = <<>>
  BY <1>1 DEF WalkInv, RunWhole
<1>4. NextIx' = n + 1 /\ n \in Nat /\ Head(pending) = 0
  BY <1>1, <1>2, <1>3 DEF NextIx, Nested
<1>5. \A c \in AllDue : c.at = at => (c.ix < n + 1 <=> c.ix <= Head(pending))
  <2>1. \A c \in AllDue : c.at = at => c.ix = 0
    BY <1>1, DueTypes DEF HereKind, Here
  <2> QED
    BY <1>4, <2>1
<1>6. n + 1 \in Int
  BY <1>4
<1>7. HandedInv' /\ handled' \in Seq(AllDue)
  BY <1>1, <1>4, <1>5, <1>6, CallIsRecorded
<1>8. WalkInv'
  BY <1>1, <1>2, <1>3 DEF WalkInv
<1>9. DispatchTypes'
  <2>1. outcome = "running"
    BY DEF RunWhole, Calling
  <2> QED
    BY <1>1, <1>2, <1>3, <1>7, <2>1 DEF DispatchTypes
<1> QED
  BY <1>1, <1>2, <1>7, <1>8, <1>9 DEF DispatchInv

LEMMA FilteredOutPreserves ==
  ASSUME outcome # "idle", DispatchInv, FilteredOut
  PROVE  DispatchInv'
<1>1. /\ Nested /\ DispatchTypes /\ WalkInv /\ HandedInv /\ pending # <<>>
      /\ ~Admits(Here) /\ ~HereOpen /\ Still /\ at' = at /\ outcome' = outcome
      /\ handled' = handled /\ at # 0
  BY DEF DispatchInv, FilteredOut, Calling, HereOpen, Still, WalkInv
<1>2. /\ n' = n /\ parent' = parent /\ update' = update /\ Listed' = Listed /\ AllDue' = AllDue
      /\ Nested' /\ HereKind' = HereKind /\ (HereOpen' <=> HereOpen)
  BY <1>1, StillDue
<1>3. PICK s : s = pending' /\ s = Tail(pending)
  BY DEF FilteredOut
<1>4. \A c \in AllDue : c.at # at
  BY <1>1, DueTypes DEF Here
<1>5. HandedInv'
  BY <1>1, <1>2, <1>4 DEF HandedInv, Before
<1>6. s \in Seq(0..n)
  BY <1>1, <1>3, HeadTailProperties DEF DispatchTypes
<1>7. HereKind = "instruction" => s \in Seq(Listed) /\ Ascending(s)
  <2>1. Listed \in SUBSET Int
    BY DEF Listed
  <2> QED
    BY <1>1, <1>3, <2>1, TailAscends DEF WalkInv
<1>8. HereKind # "instruction" => s = <<>>
  <2> SUFFICES ASSUME HereKind # "instruction" PROVE s = <<>>
    OBVIOUS
  <2>1. pending = <<0>>
    BY <1>1 DEF WalkInv
  <2> QED
    BY <1>3, <2>1
<1>9. WalkInv'
  BY <1>1, <1>2, <1>3, <1>7, <1>8 DEF WalkInv, Ascending
<1>10. DispatchTypes'
  <2>1. outcome = "running"
    BY DEF FilteredOut, Calling
  <2> QED
    BY <1>1, <1>2, <1>3, <1>6, <2>1 DEF DispatchTypes
<1> QED
  BY <1>1, <1>2, <1>5, <1>9, <1>10 DEF DispatchInv

LEMMA NextPipePreserves ==
  ASSUME outcome # "idle", DispatchInv, NextPipe
  PROVE  DispatchInv'
<1>1. /\ Nested /\ DispatchTypes /\ WalkInv /\ HandedInv /\ pending = <<>>
      /\ Still /\ at' = at + 1 /\ outcome' = outcome /\ handled' = handled
  BY DEF DispatchInv, NextPipe, Still
<1>2. /\ n' = n /\ parent' = parent /\ update' = update /\ Listed' = Listed /\ AllDue' = AllDue
      /\ Nested'
  BY <1>1, StillDue
<1>3. n \in Nat /\ at \in Nat /\ at' \in 0..Len(PipesOf[update.kind]) /\ at' # 0 /\ NextIx = n + 1
  <2>1. PipesOf[update.kind] \in Seq(DOMAIN Pipes)
    BY <1>1, PipesOfKinds DEF DispatchTypes
  <2>2. Len(PipesOf[update.kind]) \in Nat /\ at \in 0..Len(PipesOf[update.kind])
    BY <1>1, <2>1 DEF DispatchTypes
  <2>3. at < Len(PipesOf[update.kind])
    BY DEF NextPipe
  <2> QED
    BY <1>1, <2>2, <2>3 DEF Nested, NextIx
<1>4. PICK pipe : pipe = PipeAt(at + 1)
  OBVIOUS
<1>5. /\ HereKind' = pipe.kind
      /\ \A c \in AllDue : c.at = at + 1 => PipeAt(c.at) = pipe
  BY <1>1, <1>2, <1>4 DEF HereKind, Here, PipeAt
<1>6. PICK s : s = pending' /\ s = Calls(pipe)
  BY <1>4 DEF NextPipe
<1>7. PICK next : next = NextIx'
  OBVIOUS
<1>8. /\ s \in Seq(0..n) /\ next \in 0..1
      /\ pipe.kind # "instruction" => s = <<0>> /\ next = 0
      /\ pipe.kind = "instruction" =>
           /\ s \in Seq(Listed) /\ Ascending(s) /\ next = 1
           /\ \A m \in Listed : Holds(s, m) <=> (m >= next /\ parent[m] < next)
  <2>0. next = IF s = <<>> THEN n + 1 ELSE Head(s)
    BY <1>2, <1>6, <1>7 DEF NextIx
  <2>1. CASE pipe.kind # "instruction"
    <3>1. s = <<0>>
      BY <1>6, <2>1 DEF Calls
    <3>2. 0 \in 0..n
      BY <1>3
    <3> QED
      BY <2>0, <2>1, <3>1, <3>2
  <2>2. CASE pipe.kind = "instruction"
    <3>1. s = Below(0)
      BY <1>6, <2>2 DEF Calls
    <3>2. s \in Seq(Listed) /\ Ascending(s) /\ \A m \in Listed : Holds(s, m) <=> parent[m] = 0
      BY <1>1, <3>1, BelowInOrder
    <3>3. \A m \in Listed : parent[m] = 0 <=> (m >= 1 /\ parent[m] < 1)
      BY <1>1 DEF Nested, Listed
    <3>4. \A m \in Listed : Holds(s, m) <=> (m >= 1 /\ parent[m] < 1)
      BY <3>2, <3>3
    <3>5. 1 \in Int /\ 1 <= 1 /\ 1 <= n + 1
      BY <1>3
    <3>6. (IF s = <<>> THEN n + 1 ELSE Head(s)) = 1
      BY <1>1, <3>2, <3>4, <3>5, NextNode
    <3>7. Listed \subseteq 0..n
      BY DEF Listed
    <3>8. s \in Seq(0..n)
      BY <3>2, <3>7, SeqMonotonic
    <3> QED
      BY <2>0, <2>2, <3>2, <3>4, <3>6, <3>8
  <2> QED
    BY <2>1, <2>2
<1>9. WalkInv'
  BY <1>2, <1>3, <1>5, <1>6, <1>7, <1>8 DEF WalkInv, Ascending, Holds
<1>10. DispatchTypes'
  <2>1. outcome = "running"
    BY DEF NextPipe
  <2> QED
    BY <1>1, <1>2, <1>3, <1>6, <1>8, <2>1 DEF DispatchTypes
<1>11. HandedInv'
  <2>1. ASSUME NEW c \in AllDue
        PROVE  (c.at < at \/ (c.at = at /\ c.ix < n + 1)) <=>
               (c.at < at + 1 \/ (c.at = at + 1 /\ c.ix < next))
    <3>1. c.at \in Int /\ c.ix \in 0..n
      BY <1>1, DueTypes
    <3>2. c.at = at + 1 => ~(c.ix < next)
      <4> SUFFICES ASSUME c.at = at + 1 PROVE ~(c.ix < next)
        OBVIOUS
      <4>1. PipeAt(c.at) = pipe
        BY <1>5
      <4>2. CASE pipe.kind = "instruction"
        <5>1. c.ix \in Listed /\ next = 1
          BY <1>1, <1>8, <4>1, <4>2, DueTypes
        <5> QED
          BY <5>1 DEF Listed
      <4>3. CASE pipe.kind # "instruction"
        BY <1>8, <3>1, <4>3
      <4> QED
        BY <4>2, <4>3
    <3>3. c.ix < n + 1
      BY <1>3, <3>1
    <3> QED
      BY <1>3, <3>1, <3>2, <3>3
  <2> QED
    BY <1>1, <1>2, <1>3, <1>7, <2>1 DEF HandedInv, Before
<1> QED
  BY <1>1, <1>2, <1>9, <1>10, <1>11 DEF DispatchInv

\* Steps that end the update, or do nothing.
LEMMA EndingPreserves ==
  ASSUME outcome # "idle", DispatchInv, Still, UNCHANGED <<at, pending, handled>>,
         \/ outcome' = outcome
         \/ outcome' = "failed"
         \/ outcome' = "done" /\ pending = <<>> /\ at = Len(PipesOf[update.kind])
  PROVE  DispatchInv'
<1>1. Nested /\ DispatchTypes /\ WalkInv /\ HandedInv
  BY DEF DispatchInv
<1>2. /\ n' = n /\ parent' = parent /\ update' = update /\ Listed' = Listed /\ AllDue' = AllDue
      /\ Nested' /\ HereKind' = HereKind /\ (HereOpen' <=> HereOpen) /\ NextIx' = NextIx
  BY <1>1, StillDue DEF NextIx
<1>3. WalkInv'
  BY <1>1, <1>2 DEF WalkInv, Ascending, Holds
<1>4. HandedInv'
  BY <1>1, <1>2 DEF HandedInv, Before
<1>5. DispatchTypes' /\ outcome' # "idle"
  BY <1>1, <1>2 DEF DispatchTypes
<1> QED
  BY <1>2, <1>3, <1>4, <1>5 DEF DispatchInv

LEMMA ArrivePreserves ==
  ASSUME DispatchInv, NEW kind \in DOMAIN PipesOf, NEW source \in Sources,
         NEW what \in Contents(kind), Arrive(kind, source, what)
  PROVE  DispatchInv'
<1>1. /\ IInv /\ at = 0 /\ pending = <<>> /\ handled = <<>> /\ heights # "any"
      /\ at' = 0 /\ pending' = <<>> /\ handled' = <<>>
      /\ n' = n /\ parent' = parent /\ update'.kind = kind /\ update'.what = what
      /\ outcome' \in {"running", "failed"}
  BY DEF DispatchInv, Arrive
<1>2. Nested /\ Listed' = Listed
  BY <1>1, TreesAreNested DEF Listed
<1>3. Nested'
  BY <1>1, <1>2 DEF Nested
<1>4. /\ kind = "transaction" => what \in [Listed -> Data]
      /\ kind = "account" => what \in [1..1 -> Data]
  <2>1. Usual \subseteq Data
    BY DataAssumption
  <2>2. CASE kind = "transaction"
    <3>1. what \in [Listed -> IF n <= MaxOdd THEN Data ELSE Usual]
      BY <2>2 DEF Contents
    <3> QED
      BY <2>1, <2>2, <3>1
  <2>3. CASE kind = "account"
    <3>1. what \in [1..1 -> Data]
      BY <2>3 DEF Contents
    <3> QED
      BY <2>3, <3>1
  <2> QED
    BY <2>2, <2>3
<1>5. PipesOf[kind] \in Seq(DOMAIN Pipes)
  BY PipesOfKinds
<1>6. Len(PipesOf[kind]) \in Nat /\ DOMAIN PipesOf[kind] = 1..Len(PipesOf[kind])
  BY <1>5, LenProperties
<1>7. DispatchTypes'
  BY <1>1, <1>2, <1>4, <1>6, EmptySeq DEF DispatchTypes
<1>8. WalkInv'
  BY <1>1 DEF WalkInv
<1>9. HandedInv'
  <2>1. \A c \in AllDue' : c.at \in 1..Len(PipesOf[kind])
    BY <1>1, <1>6 DEF AllDue
  <2>2. \A c \in AllDue' : ~(c.at < 0) /\ c.at # 0
    BY <1>6, <2>1
  <2>3. Range(handled') = {} /\ Len(handled') = 0
    BY <1>1 DEF Range
  <2> QED
    BY <1>1, <2>2, <2>3 DEF HandedInv, Before
<1> QED
  BY <1>1, <1>3, <1>7, <1>8, <1>9 DEF DispatchInv

\* Wherever process is in its loops, what it has called is what is due up to there.
THEOREM DispatchInvariance == DispatchSpec => []DispatchInv
<1>1. DispatchInit => DispatchInv
  BY InitIInv DEF DispatchInit, DispatchInv
<1>2. DispatchInv /\ [DispatchNext]_allVars => DispatchInv'
  <2> SUFFICES ASSUME DispatchInv, [DispatchNext]_allVars PROVE DispatchInv'
    OBVIOUS
  <2>1. CASE Listing
    <3>1. IInv /\ at = 0 /\ pending = <<>> /\ handled = <<>> /\ outcome = "idle" /\ UNCHANGED dispatchVars
      BY <2>1 DEF DispatchInv, Listing
    <3>2. IInv'
      BY <2>1, <3>1, TopLevelPreserves, InnerPreserves DEF Listing, Next
    <3> QED
      BY <3>1, <3>2 DEF DispatchInv, dispatchVars
  <2>2. CASE \E kind \in DOMAIN PipesOf, source \in Sources :
               \E what \in Contents(kind) : Arrive(kind, source, what)
    BY <2>2, ArrivePreserves
  <2>3. CASE NextPipe
    BY <2>3, NextPipePreserves DEF NextPipe
  <2>4. CASE FilteredOut
    BY <2>4, FilteredOutPreserves DEF FilteredOut, Calling
  <2>5. CASE RunInstruction
    BY <2>5, RunInstructionPreserves DEF RunInstruction, Calling
  <2>6. CASE RunWhole
    BY <2>6, RunWholePreserves DEF RunWhole, Calling
  <2>7. CASE ProcessorFails
    BY <2>7, EndingPreserves DEF ProcessorFails, Calling, Still
  <2>8. CASE Count
    BY <2>8, EndingPreserves DEF Count, Still
  <2>9. CASE UNCHANGED allVars
    <3>1. UNCHANGED vars /\ UNCHANGED dispatchVars
      BY <2>9 DEF allVars
    <3>2. CASE outcome = "idle"
      <4>1. IInv'
        BY <3>1, <3>2, StutterPreserves DEF DispatchInv
      <4> QED
        BY <3>1, <3>2, <4>1 DEF DispatchInv, dispatchVars
    <3>3. CASE outcome # "idle"
      BY <3>1, <3>3, EndingPreserves DEF Still, dispatchVars
    <3> QED
      BY <3>2, <3>3
  <2> QED
    BY <2>1, <2>2, <2>3, <2>4, <2>5, <2>6, <2>7, <2>8, <2>9 DEF DispatchNext
<1> QED
  BY <1>1, <1>2, PTL DEF DispatchSpec

\* Every pipe is handed what is due to it, once, in execution order, and after
\* the pipes before it: for every transaction, every list of pipes, filters and
\* decoders.
THEOREM DispatchIsInOrder == DispatchSpec => []HandedOverInOrder
<1>1. DispatchInv => HandedOverInOrder
  <2> SUFFICES ASSUME DispatchInv, outcome # "idle" PROVE HandedOverInOrder
    BY DEF HandedOverInOrder
  <2>1. Nested /\ DispatchTypes /\ WalkInv /\ HandedInv
    BY DEF DispatchInv
  <2>2. DOMAIN handled = 1..Len(handled) /\ Range(handled) \subseteq AllDue
    <3>1. handled \in Seq(AllDue)
      BY <2>1 DEF DispatchTypes
    <3> QED
      BY <3>1, LenProperties, RangeOfSeq
  <2>3. /\ at \in Int /\ NextIx \in Int
        /\ \A c \in AllDue : c.at \in 1..Len(PipesOf[update.kind]) /\ c.ix \in 0..n
    <3>1. PipesOf[update.kind] \in Seq(DOMAIN Pipes)
      BY <2>1, PipesOfKinds DEF DispatchTypes
    <3>2. Len(PipesOf[update.kind]) \in Nat /\ at \in Int
      BY <2>1, <3>1 DEF DispatchTypes
    <3>3. NextIx \in Int
      BY <2>1, HeadTailProperties DEF DispatchTypes, NextIx, Nested
    <3> QED
      BY <2>1, <3>2, <3>3, DueTypes
  <2>4. \A c \in AllDue : (\E d \in Range(handled) : Before(c, d)) => c \in Range(handled)
    <3> SUFFICES ASSUME NEW c \in AllDue, NEW d \in Range(handled), Before(c, d)
                 PROVE  c.at < at \/ (c.at = at /\ c.ix < NextIx)
      BY <2>1 DEF HandedInv
    <3>1. d \in AllDue /\ (d.at < at \/ (d.at = at /\ d.ix < NextIx))
      BY <2>1, <2>2 DEF HandedInv
    <3>2. c.at \in Int /\ d.at \in Int /\ c.ix \in Int /\ d.ix \in Int
      BY <2>3, <3>1
    <3> QED
      BY <2>3, <3>1, <3>2 DEF Before
  <2>5. ASSUME outcome = "done" PROVE Range(handled) = AllDue
    <3> SUFFICES ASSUME NEW c \in AllDue PROVE c.at < at \/ (c.at = at /\ c.ix < NextIx)
      BY <2>1, <2>2 DEF HandedInv
    <3>1. at = Len(PipesOf[update.kind]) /\ NextIx = n + 1 /\ n \in Nat
      BY <2>1, <2>5 DEF DispatchTypes, NextIx, Nested
    <3> QED
      BY <2>3, <3>1
  <2> QED
    BY <2>1, <2>2, <2>4, <2>5 DEF HandedOverInOrder, HandedInv
<1> QED
  BY <1>1, DispatchInvariance, PTL

\* The pointers and paths stay right when updates are taken out of the list.
PathsInv ==
  /\ outcome = "idle" => PathInv
  /\ outcome # "idle" => PointersLive /\ PathsArePlaces

LEMMA TreeStays ==
  ASSUME UNCHANGED <<heights, n, path, parent>>
  PROVE  PathsArePlaces => PathsArePlaces'
<1>1. \A v : Children(v)' = Children(v)
  BY DEF Children, Kept, Dropped, Listed
<1> QED
  BY <1>1 DEF PathsArePlaces, Listed, Children, Kept, Dropped

\* In the pipeline, too, no pointer dangles and every path is a place.
THEOREM DispatchKeepsTheTree == DispatchSpec => [](PointersLive /\ PathsArePlaces)
<1>1. DispatchInit => PathsInv
  BY InitPaths DEF DispatchInit, PathsInv
<1>2. DispatchInv /\ DispatchInv' /\ PathsInv /\ [DispatchNext]_allVars => PathsInv'
  <2> SUFFICES ASSUME DispatchInv, DispatchInv', PathsInv, [DispatchNext]_allVars PROVE PathsInv'
    OBVIOUS
  <2>1. CASE outcome = "idle" /\ [Next]_vars /\ outcome' = "idle"
    BY <2>1, PathStep DEF DispatchInv, PathsInv
  <2>2. CASE outcome # "idle" /\ UNCHANGED vars /\ outcome' # "idle"
    <3>1. PointersLive'
      BY <2>2 DEF PathsInv, PointersLive, Children, Kept, Dropped, Listed, Levels, NoPointer,
                  vars, listVars, treeVars
    <3>2. PathsArePlaces'
      BY <2>2, TreeStays DEF PathsInv, vars, listVars, treeVars
    <3> QED
      BY <2>2, <3>1, <3>2 DEF PathsInv
  <2>3. CASE \E kind \in DOMAIN PipesOf, source \in Sources :
               \E what \in Contents(kind) : Arrive(kind, source, what)
    <3>1. /\ outcome = "idle" /\ outcome' # "idle" /\ UNCHANGED <<heights, n, path, parent>>
          /\ level' = [l \in Levels |-> NoPointer]
      BY <2>3 DEF Arrive
    <3>2. PathsArePlaces
      BY <3>1, PathsFromCounts DEF DispatchInv, PathsInv
    <3>3. PathsArePlaces'
      BY <3>1, <3>2, TreeStays
    <3>4. PointersLive'
      BY <3>1 DEF PointersLive, Levels, NoPointer
    <3> QED
      BY <3>1, <3>3, <3>4 DEF PathsInv
  <2>4. \/ outcome = "idle" /\ [Next]_vars /\ outcome' = "idle"
        \/ outcome # "idle" /\ UNCHANGED vars /\ outcome' # "idle"
        \/ \E kind \in DOMAIN PipesOf, source \in Sources :
             \E what \in Contents(kind) : Arrive(kind, source, what)
    BY DEF DispatchNext, Listing, NextPipe, FilteredOut, RunInstruction, RunWhole, ProcessorFails,
           Count, Calling, allVars, dispatchVars
  <2> QED
    BY <2>1, <2>2, <2>3, <2>4
<1>3. DispatchInv /\ PathsInv => PointersLive /\ PathsArePlaces
  BY PathsFromCounts DEF DispatchInv, PathsInv, IInv, TreeInv
<1> QED
  BY <1>1, <1>2, <1>3, DispatchInvariance, PTL DEF DispatchSpec
-----------------------------------------------------------------------------
(* Recursive functions.  No induction theorem can be instantiated here, so  *)
(* the inductions are by a least counterexample.                            *)

LEMMA LeastNumber ==
  ASSUME NEW T, T \subseteq Nat, T # {}
  PROVE  \E x \in T : \A y \in T : x <= y
<1> DEFINE R == OpToRel(<, Nat)
<1>1. PICK x \in T : \A y \in T : ~ (<<y, x>> \in R)
  <2>1. IsWellFoundedOn(R, Nat)
    BY NatLessThanWellFounded
  <2> HIDE DEF R
  <2> QED
    BY <2>1, WFMin
<1>2. ASSUME NEW y \in T PROVE x <= y
  <2>1. ~(<<y, x>> \in R) /\ <<y, x>> \in Nat \X Nat
    BY <1>1
  <2>2. ~(y < x)
    BY <2>1 DEF OpToRel
  <2> QED
    BY <2>2
<1> QED
  BY <1>2

\* What a member of S has as soon as all those of a smaller rank have it, every
\* member has.
Inductive(S, rank, P) ==
  /\ rank \in [S -> Nat] /\ P \in SUBSET S
  /\ \A s \in S : (\A r \in S : rank[r] < rank[s] => r \in P) => s \in P

LEMMA ByRank ==
  ASSUME NEW S, NEW rank, NEW P, Inductive(S, rank, P)
  PROVE  P = S
<1>0. rank \in [S -> Nat] /\ P \in SUBSET S
  BY DEF Inductive
<1>r. \A s \in S : (\A r \in S : rank[r] < rank[s] => r \in P) => s \in P
  BY DEF Inductive
<1> USE <1>0
<1> DEFINE T == {rank[s] : s \in S \ P}
<1> SUFFICES ASSUME T # {} PROVE FALSE
  OBVIOUS
<1>1. PICK x \in T : \A y \in T : x <= y
  <2>1. T \subseteq Nat
    OBVIOUS
  <2> HIDE DEF T
  <2> QED
    BY <2>1, LeastNumber
<1>2. PICK s \in S \ P : rank[s] = x
  OBVIOUS
<1>3. \A r \in S : rank[r] < rank[s] => r \in P
  <2> SUFFICES ASSUME NEW r \in S, rank[r] < rank[s], r \notin P PROVE FALSE
    OBVIOUS
  <2>1. rank[r] \in T
    OBVIOUS
  <2>2. x <= rank[r] /\ rank[r] \in Nat /\ rank[s] \in Nat
    BY <1>1, <2>1
  <2> QED
    BY <1>2, <2>2
<1> QED
  BY <1>2, <1>3, <1>r

\* A recursion of a step for the members of S that looks only at members of a
\* smaller rank.
Recursive(S, X, N, rank, Once) ==
  /\ X # {} /\ N \in Nat /\ rank \in [S -> 0..N]
  /\ Once \in [[S -> X] -> [S -> X]]
  /\ \A g, h \in [S -> X] : \A s \in S :
       (\A r \in S : rank[r] < rank[s] => g[r] = h[r]) => Once[g][s] = Once[h][s]

\* It has a solution.
LEMMA Recursion ==
  ASSUME NEW S, NEW X, NEW N, NEW rank, NEW Once, Recursive(S, X, N, rank, Once)
  PROVE  \E g \in [S -> X] : Once[g] = g
<1>0. X # {} /\ N \in Nat /\ rank \in [S -> 0..N] /\ Once \in [[S -> X] -> [S -> X]]
  BY DEF Recursive
<1>r. \A g, h \in [S -> X] : \A s \in S :
        (\A r \in S : rank[r] < rank[s] => g[r] = h[r]) => Once[g][s] = Once[h][s]
  BY DEF Recursive
<1> USE <1>0
<1> DEFINE Solved(k, g) == \A s \in S : rank[s] < k => Once[g][s] = g[s]
           T == {k \in Nat : ~ \E g \in [S -> X] : Solved(k, g)}
<1>1. T = {}
  <2> SUFFICES ASSUME T # {} PROVE FALSE
    OBVIOUS
  <2>1. PICK k \in T : \A j \in T : k <= j
    <3>1. T \subseteq Nat
      OBVIOUS
    <3> HIDE DEF T
    <3> QED
      BY <3>1, LeastNumber
  <2>2. k \in Nat /\ ~ \E g \in [S -> X] : Solved(k, g)
    OBVIOUS
  <2>3. k # 0
    <3>1. PICK x \in X : TRUE
      OBVIOUS
    <3>2. PICK g : g = [s \in S |-> x]
      OBVIOUS
    <3>3. g \in [S -> X] /\ Solved(0, g)
      BY <3>2
    <3> QED
      BY <2>2, <3>3
  <2>4. k - 1 \in Nat /\ k - 1 \notin T
    <3>1. k - 1 \in Nat /\ ~(k <= k - 1)
      BY <2>2, <2>3
    <3> HIDE DEF T
    <3> QED
      BY <2>1, <3>1
  <2>5. PICK g \in [S -> X] : Solved(k - 1, g)
    BY <2>4
  <2>6. PICK h : h = Once[g]
    OBVIOUS
  <2>7. h \in [S -> X]
    BY <2>6
  <2>8. Solved(k, h)
    <3> SUFFICES ASSUME NEW s \in S, rank[s] < k PROVE Once[h][s] = h[s]
      OBVIOUS
    <3>1. \A r \in S : rank[r] < rank[s] => h[r] = g[r]
      <4> SUFFICES ASSUME NEW r \in S, rank[r] < rank[s] PROVE h[r] = g[r]
        OBVIOUS
      <4>1. rank[r] < k - 1
        <5>1. rank[r] \in Nat /\ rank[s] \in Nat
          OBVIOUS
        <5> QED
          BY <2>2, <5>1
      <4> QED
        BY <2>5, <2>6, <4>1
    <3>2. Once[h][s] = Once[g][s]
      BY <2>7, <3>1, <1>r
    <3> QED
      BY <2>6, <3>2
  <2> QED
    BY <2>2, <2>7, <2>8
<1>2. PICK g \in [S -> X] : Solved(N + 1, g)
  <2>1. N + 1 \in Nat
    OBVIOUS
  <2> QED
    BY <1>1, <2>1
<1>3. \A s \in S : Once[g][s] = g[s]
  <2> SUFFICES ASSUME NEW s \in S PROVE rank[s] < N + 1
    BY <1>2
  <2>1. rank[s] \in 0..N
    OBVIOUS
  <2> QED
    BY <2>1
<1>4. Once[g] \in [S -> X]
  OBVIOUS
<1>5. Once[g] = g
  BY <1>3, <1>4
<1> QED
  BY <1>5

LEMMA UpTo ==
  ASSUME NEW c \in Nat, NEW P \in SUBSET (1..c), \A k \in 1..c : (k # 1 => k - 1 \in P) => k \in P
  PROVE  P = 1..c
<1> SUFFICES ASSUME (1..c) \ P # {} PROVE FALSE
  OBVIOUS
<1>1. PICK T : T = (1..c) \ P
  OBVIOUS
<1>2. PICK k \in T : \A j \in T : k <= j
  <2>1. T \in SUBSET Nat /\ T # {}
    BY <1>1
  <2> QED
    BY <2>1, LeastNumber
<1>3. k \in 1..c /\ k \notin P
  BY <1>1
<1>4. k # 1 => k - 1 \in 1..c /\ k - 1 \notin T
  BY <1>2, <1>3
<1> QED
  BY <1>1, <1>3, <1>4
-----------------------------------------------------------------------------
(* Sequences: what is in a flattened sequence, and in which order.          *)

Sorted(R, s) == \A i, j \in 1..Len(s) : i < j => <<s[i], s[j]>> \in R

LEMMA SortedConcat ==
  ASSUME NEW X, NEW R, NEW s \in Seq(X), NEW t \in Seq(X), Sorted(R, s), Sorted(R, t),
         \A a, b \in X : Holds(s, a) /\ Holds(t, b) => <<a, b>> \in R
  PROVE  Sorted(R, s \o t)
<1>1. /\ Len(s) \in Nat /\ Len(t) \in Nat /\ Len(s \o t) = Len(s) + Len(t)
      /\ \A i \in 1..Len(s) + Len(t) : (s \o t)[i] = IF i <= Len(s) THEN s[i] ELSE t[i - Len(s)]
  BY ConcatProperties
<1> SUFFICES ASSUME NEW i \in 1..Len(s) + Len(t), NEW j \in 1..Len(s) + Len(t), i < j
             PROVE  <<(s \o t)[i], (s \o t)[j]>> \in R
  BY <1>1 DEF Sorted
<1>2. CASE j <= Len(s)
  <2>1. i \in 1..Len(s) /\ j \in 1..Len(s) /\ i <= Len(s)
    BY <1>1, <1>2
  <2> QED
    BY <1>1, <1>2, <2>1 DEF Sorted
<1>3. CASE i <= Len(s) /\ ~(j <= Len(s))
  <2>1. i \in 1..Len(s) /\ j - Len(s) \in 1..Len(t)
    BY <1>1, <1>3
  <2>2. /\ s[i] \in X /\ t[j - Len(s)] \in X
        /\ Holds(s, s[i]) /\ Holds(t, t[j - Len(s)])
    BY <2>1, ElementOfSeq DEF Holds
  <2> QED
    BY <1>1, <1>3, <2>2
<1>4. CASE ~(i <= Len(s))
  <2>1. ~(j <= Len(s)) /\ i - Len(s) \in 1..Len(t) /\ j - Len(s) \in 1..Len(t) /\ i - Len(s) < j - Len(s)
    BY <1>1, <1>4
  <2>2. <<t[i - Len(s)], t[j - Len(s)]>> \in R
    BY <2>1 DEF Sorted
  <2> QED
    BY <1>1, <1>4, <2>1, <2>2
<1> QED
  BY <1>2, <1>3, <1>4

\* The recursive function in FlattenSeq.
Flattens(flat, X, seqs, c) ==
  /\ flat \in [1..c -> Seq(X)]
  /\ FlattenSeq(seqs) = flat[c]
  /\ \A i \in 1..c : flat[i] = IF i = 1 THEN seqs[i] ELSE flat[i - 1] \o seqs[i]

LEMMA FlattenSteps ==
  ASSUME NEW X, NEW seqs \in Seq(Seq(X)), NEW c \in Nat, c = Len(seqs), c # 0
  PROVE  \E flat : Flattens(flat, X, seqs, c)
<1> DEFINE S == 1..c
           Y == Seq(X)
           body(g, i) == IF i = 1 THEN seqs[i] ELSE g[i - 1] \o seqs[i]
           Once == [g \in [S -> Y] |-> [i \in S |-> body(g, i)]]
           rank == [i \in S |-> i]
<1>1. \A i \in S : seqs[i] \in Y
  BY ElementOfSeq
<1>2. Once \in [[S -> Y] -> [S -> Y]]
  <2> SUFFICES ASSUME NEW g \in [S -> Y], NEW i \in S PROVE body(g, i) \in Y
    OBVIOUS
  <2>1. i # 1 => i - 1 \in S
    OBVIOUS
  <2>2. i # 1 => g[i - 1] \in Y
    BY <2>1
  <2> QED
    BY <1>1, <2>2, ConcatProperties
<1>3. \A g, h \in [S -> Y] : \A i \in S :
        (\A r \in S : rank[r] < rank[i] => g[r] = h[r]) => Once[g][i] = Once[h][i]
  <2> SUFFICES ASSUME NEW g \in [S -> Y], NEW h \in [S -> Y], NEW i \in S,
                      \A r \in S : rank[r] < rank[i] => g[r] = h[r]
               PROVE  Once[g][i] = Once[h][i]
    OBVIOUS
  <2>1. i # 1 => i - 1 \in S /\ rank[i - 1] < rank[i]
    OBVIOUS
  <2>2. body(g, i) = body(h, i)
    BY <2>1
  <2> QED
    BY <2>2
<1>4. \E g \in [S -> Y] : Once[g] = g
  <2>1. rank \in [S -> 0..c] /\ Y # {}
    BY EmptySeq
  <2> HIDE DEF Once, rank, S, Y
  <2>2. Recursive(S, Y, c, rank, Once)
    BY <1>2, <1>3, <2>1 DEF Recursive
  <2> QED
    BY <2>2, Recursion
<1> DEFINE flat == CHOOSE g : g = [i \in S |-> body(g, i)]
<1>5. flat = [i \in S |-> body(flat, i)]
  <2>1. \E g : g = [i \in S |-> body(g, i)]
    BY <1>4
  <2> HIDE DEF body
  <2> QED
    BY <2>1
<1>6. FlattenSeq(seqs) = flat[c]
  BY DEF FlattenSeq
<1> HIDE DEF flat
<1>7. \A i \in S : flat[i] = body(flat, i)
  <2> HIDE DEF body, S
  <2> QED
    BY <1>5
<1>8. {i \in S : flat[i] \in Y} = S
  <2> DEFINE P == {i \in S : flat[i] \in Y}
  <2>1. \A i \in 1..c : (i # 1 => i - 1 \in P) => i \in P
    <3> SUFFICES ASSUME NEW i \in 1..c, i # 1 => flat[i - 1] \in Y PROVE flat[i] \in Y
      OBVIOUS
    <3> QED
      BY <1>1, <1>7, ConcatProperties
  <2>2. P \in SUBSET (1..c)
    OBVIOUS
  <2> HIDE DEF P
  <2>3. P = 1..c
    BY <2>1, <2>2, UpTo
  <2> QED
    BY <2>3 DEF P
<1>9. flat \in [S -> Y]
  <2>1. \A i \in S : flat[i] \in Y
    BY <1>8
  <2> HIDE DEF body, S, Y
  <2> QED
    BY <1>5, <2>1
<1> QED
  BY <1>6, <1>7, <1>9 DEF Flattens

\* FlattenSeq puts sequences together: it holds what they hold, and it is sorted if
\* they are and whatever is in one is before whatever is in a later one.
LEMMA Flattened ==
  ASSUME NEW X, NEW R, NEW seqs \in Seq(Seq(X)),
         \A i \in 1..Len(seqs) : Sorted(R, seqs[i]),
         \A i, j \in 1..Len(seqs) : i < j =>
           \A a, b \in X : Holds(seqs[i], a) /\ Holds(seqs[j], b) => <<a, b>> \in R
  PROVE  /\ FlattenSeq(seqs) \in Seq(X)
         /\ \A x : Holds(FlattenSeq(seqs), x) <=> \E i \in 1..Len(seqs) : Holds(seqs[i], x)
         /\ Sorted(R, FlattenSeq(seqs))
<1>1. PICK c \in Nat : c = Len(seqs)
  OBVIOUS
<1>2. CASE c = 0
  <2>1. FlattenSeq(seqs) = seqs /\ seqs = <<>>
    BY <1>1, <1>2, EmptySeq DEF FlattenSeq
  <2> QED
    BY <2>1, EmptySeq DEF Holds, Sorted
<1>3. CASE c # 0
  <2>0. PICK flat : Flattens(flat, X, seqs, c)
    BY <1>1, <1>3, FlattenSteps
  <2>1. /\ flat \in [1..c -> Seq(X)]
        /\ FlattenSeq(seqs) = flat[c]
        /\ \A i \in 1..c : flat[i] = IF i = 1 THEN seqs[i] ELSE flat[i - 1] \o seqs[i]
    BY <2>0 DEF Flattens
  <2> DEFINE Good(k) == /\ \A x : Holds(flat[k], x) <=> \E i \in 1..k : Holds(seqs[i], x)
                        /\ Sorted(R, flat[k])
             P == {k \in 1..c : Good(k)}
  <2>2. \A i \in 1..c : seqs[i] \in Seq(X) /\ flat[i] \in Seq(X)
    BY <1>1, <2>1, ElementOfSeq
  <2>3. ASSUME NEW k \in 1..c, k # 1 => k - 1 \in P
        PROVE  Good(k)
    <3>1. CASE k = 1
      <4>1. flat[k] = seqs[k] /\ 1..k = {k}
        <5>1. 1..1 = {1} /\ k \in 1..c
          OBVIOUS
        <5> QED
          BY <2>1, <3>1, <5>1
      <4>2. Sorted(R, seqs[k])
        BY <1>1
      <4>3. \A x : Holds(flat[k], x) <=> \E i \in 1..k : Holds(seqs[i], x)
        BY <4>1
      <4> QED
        BY <4>1, <4>2, <4>3
    <3>2. CASE k # 1
      <4>1. k - 1 \in 1..c /\ 1..k = 1..(k - 1) \cup {k}
        BY <3>2
      <4>2. Good(k - 1)
        BY <2>3, <4>1
      <4>3. PICK s \in Seq(X) : s = flat[k - 1]
        BY <2>2, <4>1
      <4>4. PICK t \in Seq(X) : t = seqs[k]
        BY <2>2
      <4>5. flat[k] = s \o t
        BY <2>1, <3>2, <4>3, <4>4
      <4>6. \A x : Holds(s, x) <=> \E i \in 1..(k - 1) : Holds(seqs[i], x)
        BY <4>2, <4>3
      <4>7. \A x : Holds(flat[k], x) <=> \E i \in 1..k : Holds(seqs[i], x)
        <5>1. \A x : Holds(flat[k], x) <=> Holds(s, x) \/ Holds(t, x)
          BY <4>5, ConcatHolds
        <5> QED
          BY <4>1, <4>4, <4>6, <5>1
      <4>8. Sorted(R, s) /\ Sorted(R, t)
        BY <1>1, <4>2, <4>3, <4>4
      <4>9. \A a, b \in X : Holds(s, a) /\ Holds(t, b) => <<a, b>> \in R
        <5> SUFFICES ASSUME NEW a \in X, NEW b \in X, Holds(s, a), Holds(t, b) PROVE <<a, b>> \in R
          OBVIOUS
        <5>1. PICK i \in 1..(k - 1) : Holds(seqs[i], a)
          BY <4>6
        <5>2. i \in 1..Len(seqs) /\ k \in 1..Len(seqs) /\ i < k /\ Holds(seqs[k], b)
          BY <1>1, <4>4
        <5> QED
          BY <5>1, <5>2
      <4>10. Sorted(R, flat[k])
        BY <4>5, <4>8, <4>9, SortedConcat
      <4> QED
        BY <4>7, <4>10
    <3> QED
      BY <3>1, <3>2
  <2>4. P = 1..c
    <3>1. P \in SUBSET (1..c)
      OBVIOUS
    <3>2. \A k \in 1..c : (k # 1 => k - 1 \in P) => k \in P
      BY <2>3
    <3> HIDE DEF P
    <3> QED
      BY <3>1, <3>2, UpTo
  <2>5. c \in 1..c
    BY <1>3
  <2>6. Good(c)
    BY <2>4, <2>5
  <2> QED
    BY <1>1, <2>1, <2>2, <2>5, <2>6
<1> QED
  BY <1>2, <1>3

\* A sequence that ascends is the enumeration of what it holds.
LEMMA AscendingIsInOrder ==
  ASSUME NEW S \in SUBSET Int, NEW s \in Seq(S), Ascending(s), \A m \in S : Holds(s, m)
  PROVE  /\ s = InOrder(S) /\ IsFiniteSet(S) /\ Cardinality(S) = Len(s)
         /\ \A i \in 1..Len(s) : RankIn(S, s[i]) = i
<1>1. PICK c \in Nat : c = Len(s)
  OBVIOUS
<1>2. /\ s \in [1..c -> S] /\ DOMAIN s = 1..c
      /\ \A i \in 1..c : s[i] \in S /\ s[i] \in Int
  BY <1>1, ElementOfSeq, LenProperties
<1>3. \A i, j \in 1..c : i < j => s[i] < s[j]
  BY <1>1 DEF Ascending
<1>4. \A m \in S : \E i \in 1..c : s[i] = m
  BY <1>1 DEF Holds
<1>5. \A i, j \in 1..c : s[i] = s[j] => i = j
  <2> SUFFICES ASSUME NEW i \in 1..c, NEW j \in 1..c, s[i] = s[j], i # j PROVE FALSE
    OBVIOUS
  <2>1. i < j \/ j < i
    OBVIOUS
  <2> QED
    BY <1>2, <1>3, <2>1
<1>6. s \in Bijection(1..c, S)
  BY <1>2, <1>4, <1>5 DEF Bijection, Injection, Surjection, IsInjective
<1>7. IsFiniteSet(1..c) /\ Cardinality(1..c) = c
  BY FS_Interval
<1>8. IsFiniteSet(S) /\ Cardinality(S) = c
  <2>1. ExistsBijection(1..c, S)
    BY <1>6 DEF ExistsBijection
  <2> QED
    BY <1>7, <2>1, FS_Bijection
<1>9. \A i \in 1..c : RankIn(S, s[i]) = i
  <2> SUFFICES ASSUME NEW i \in 1..c PROVE RankIn(S, s[i]) = i
    OBVIOUS
  <2> DEFINE T == {q \in S : q <= s[i]}
             f == [j \in 1..i |-> s[j]]
  <2>1. \A j \in 1..c : s[j] <= s[i] <=> j <= i
    <3> SUFFICES ASSUME NEW j \in 1..c PROVE s[j] <= s[i] <=> j <= i
      OBVIOUS
    <3>1. s[i] \in Int /\ s[j] \in Int /\ (i < j => s[i] < s[j]) /\ (j < i => s[j] < s[i])
      BY <1>2, <1>3
    <3>2. i < j \/ j < i \/ i = j
      OBVIOUS
    <3>3. CASE i < j
      BY <3>1, <3>3
    <3>4. CASE j < i
      BY <3>1, <3>4
    <3>5. CASE i = j
      BY <3>1, <3>5
    <3> QED
      BY <3>2, <3>3, <3>4, <3>5
  <2>2. \A j \in 1..i : j \in 1..c /\ j <= i
    OBVIOUS
  <2>3. f \in [1..i -> T]
    <3>1. \A j \in 1..i : s[j] \in S /\ s[j] <= s[i]
      BY <1>2, <2>1, <2>2
    <3> QED
      BY <3>1
  <2>4. \A m \in T : \E j \in 1..i : f[j] = m
    <3> SUFFICES ASSUME NEW m \in T PROVE \E j \in 1..i : s[j] = m
      OBVIOUS
    <3>1. PICK j \in 1..c : s[j] = m
      BY <1>4
    <3>2. j <= i
      BY <2>1, <3>1
    <3> QED
      BY <3>1, <3>2
  <2>5. \A j, k \in 1..i : f[j] = f[k] => j = k
    BY <1>5, <2>2
  <2>6. f \in Bijection(1..i, T)
    <3> HIDE DEF f, T
    <3> QED
      BY <2>3, <2>4, <2>5 DEF Bijection, Injection, Surjection, IsInjective
  <2>7. IsFiniteSet(1..i) /\ Cardinality(1..i) = i
    BY FS_Interval
  <2>8. Cardinality(T) = i
    <3> HIDE DEF f, T
    <3>1. ExistsBijection(1..i, T)
      BY <2>6 DEF ExistsBijection
    <3> QED
      BY <2>7, <3>1, FS_Bijection
  <2> QED
    BY <2>8 DEF RankIn
<1>10. \A i \in 1..c : InOrder(S)[i] = s[i]
  <2> SUFFICES ASSUME NEW i \in 1..c PROVE InOrder(S)[i] = s[i]
    OBVIOUS
  <2>1. \A m \in S : RankIn(S, m) = i <=> m = s[i]
    <3> SUFFICES ASSUME NEW m \in S PROVE RankIn(S, m) = i <=> m = s[i]
      OBVIOUS
    <3>1. PICK j \in 1..c : s[j] = m
      BY <1>4
    <3> QED
      BY <1>9, <3>1
  <2>2. InOrder(S)[i] = CHOOSE m \in S : RankIn(S, m) = i
    BY <1>8 DEF InOrder, RankIn
  <2>3. s[i] \in S
    BY <1>2
  <2> QED
    BY <2>1, <2>2, <2>3
<1>11. InOrder(S) = [i \in 1..c |-> InOrder(S)[i]]
  BY <1>8 DEF InOrder
<1>12. s = [i \in 1..c |-> s[i]]
  BY <1>2
<1>13. [i \in 1..c |-> InOrder(S)[i]] = [i \in 1..c |-> s[i]]
  BY <1>10
<1>14. s = InOrder(S)
  BY <1>11, <1>12, <1>13
<1> QED
  BY <1>1, <1>8, <1>9, <1>14

-----------------------------------------------------------------------------
(* The callers of an instruction.                                           *)

\* The heights of a list in which every caller is listed: a node is one level
\* below its parent, and as deep at least as those in between.
Leveled ==
  \A m \in Listed :
    /\ height[m] \in Nat \ {0}
    /\ parent[m] = 0 => height[m] = 1
    /\ parent[m] # 0 =>
         /\ height[m] = height[parent[m]] + 1
         /\ \A r \in (parent[m] + 1)..(m - 1) : height[r] >= height[m]

LEMMA TreesAreLeveled ==
  ASSUME IInv, heights # "any"
  PROVE  Leveled
<1>1. Dropped = {} /\ (\A m \in Listed : height[m] \in Levels /\ parent[m] <= m)
  BY DEF IInv, TreeInv, Shape, NothingDropped
<1>2. \A m \in Listed : Placed(m)
  BY DEF IInv, TreeInv, TreeMatchesHeights
<1>3. Nested
  BY TreesAreNested
<1> SUFFICES ASSUME NEW m \in Listed
             PROVE  /\ height[m] \in Nat \ {0}
                    /\ parent[m] = 0 => height[m] = 1
                    /\ parent[m] # 0 =>
                         /\ height[m] = height[parent[m]] + 1
                         /\ \A r \in (parent[m] + 1)..(m - 1) : height[r] >= height[m]
  BY DEF Leveled
<1>4. height[m] \in Nat \ {0} /\ m \notin Dropped
  BY <1>1 DEF Levels
<1>5. (height[m] = 1 /\ parent[m] = 0) \/ Governs(parent[m], m)
  BY <1>2, <1>4 DEF Placed
<1>6. parent[m] \in 0..(m - 1) /\ m \in Nat
  BY <1>3 DEF Nested, Listed
<1>7. CASE height[m] = 1 /\ parent[m] = 0
  BY <1>4, <1>7
<1>8. CASE Governs(parent[m], m)
  <2>1. /\ parent[m] \in Listed /\ height[parent[m]] = height[m] - 1
        /\ \A r \in (parent[m] + 1)..(m - 1) : height[r] >= height[m]
    BY <1>8 DEF Governs, Kept
  <2>2. parent[m] # 0
    BY <2>1 DEF Listed
  <2>3. height[m] = height[parent[m]] + 1
    BY <1>4, <2>1
  <2> QED
    BY <1>4, <2>1, <2>2, <2>3
<1> QED
  BY <1>5, <1>7, <1>8

LEMMA CallersAreBefore ==
  ASSUME NEW m \in Nat, NEW q \in Callers(m)
  PROVE  q \in Nat /\ q # 0 /\ q < m
BY DEF Callers

\* A caller of x that comes before y is a caller of y, if y comes before x.
LEMMA CallersBetween ==
  ASSUME NEW x \in Nat, NEW q \in Callers(x), NEW y \in Nat, q < y, y <= x
  PROVE  q \in Callers(y)
<1>1. q \in 1..(y - 1)
  BY DEF Callers
<1>2. \A r \in (q + 1)..y : r \in (q + 1)..x
  BY <1>1
<1> QED
  BY <1>1, <1>2 DEF Callers

LEMMA CallersOfCallers ==
  ASSUME Leveled, n \in Nat, NEW x \in Listed, NEW c \in Callers(x), NEW q \in Callers(c)
  PROVE  q \in Callers(x)
<1>1. x \in Nat /\ c \in 1..(x - 1) /\ q \in 1..(c - 1)
  BY DEF Callers, Listed
<1>2. q \in Listed /\ c \in Listed /\ q \in 1..(x - 1)
  BY <1>1 DEF Listed
<1>3. \A r \in (q + 1)..x : height[r] > height[q]
  <2> SUFFICES ASSUME NEW r \in (q + 1)..x PROVE height[r] > height[q]
    OBVIOUS
  <2>1. r \in (q + 1)..c \/ r \in (c + 1)..x
    BY <1>1
  <2>2. c \in (q + 1)..c /\ r \in Listed
    BY <1>1 DEF Listed
  <2>3. height[c] > height[q]
    BY <2>2 DEF Callers
  <2>4. r \in (q + 1)..c => height[r] > height[q]
    BY DEF Callers
  <2>5. r \in (c + 1)..x => height[r] > height[c]
    BY DEF Callers
  <2>6. height[r] \in Nat /\ height[c] \in Nat /\ height[q] \in Nat
    BY <1>2, <2>2 DEF Leveled
  <2> QED
    BY <2>1, <2>3, <2>4, <2>5, <2>6
<1> QED
  BY <1>2, <1>3 DEF Callers

\* The callers of a node: its parent, and the callers of its parent.
LEMMA CallersStep ==
  ASSUME Nested, Leveled, NEW m \in Listed
  PROVE  Callers(m) = IF parent[m] = 0 THEN {} ELSE Callers(parent[m]) \cup {parent[m]}
<1>1. n \in Nat /\ m \in 1..n /\ parent[m] \in 0..(m - 1) /\ height[m] \in Nat
  BY DEF Nested, Leveled, Listed
<1>2. CASE parent[m] = 0
  <2> SUFFICES ASSUME NEW q \in Callers(m) PROVE FALSE
    BY <1>2
  <2>1. q \in 1..(m - 1) /\ m \in (q + 1)..m
    BY <1>1 DEF Callers
  <2>2. height[m] > height[q]
    BY <2>1 DEF Callers
  <2>3. q \in Listed
    BY <1>1, <2>1 DEF Listed
  <2>4. height[q] \in Nat \ {0} /\ height[m] = 1
    BY <1>2, <2>3 DEF Leveled
  <2> QED
    BY <2>2, <2>4
<1>3. CASE parent[m] # 0
  <2>1. PICK p : p = parent[m]
    OBVIOUS
  <2>2. p \in 1..(m - 1) /\ p \in Listed
    BY <1>1, <1>3, <2>1 DEF Listed
  <2>3. /\ height[p] \in Nat /\ height[m] = height[p] + 1
        /\ \A r \in (p + 1)..(m - 1) : height[r] >= height[m]
    BY <1>3, <2>1, <2>2 DEF Leveled
  <2>4. p \in Callers(m)
    <3>1. \A r \in (p + 1)..m : height[r] > height[p]
      <4> SUFFICES ASSUME NEW r \in (p + 1)..m PROVE height[r] > height[p]
        OBVIOUS
      <4>1. r = m \/ r \in (p + 1)..(m - 1)
        BY <1>1, <2>2
      <4>2. r \in Listed
        BY <1>1, <2>2 DEF Listed
      <4>3. height[r] \in Nat
        BY <4>2 DEF Leveled
      <4>4. height[r] >= height[m]
        BY <2>3, <4>1, <4>3
      <4> QED
        BY <2>3, <4>3, <4>4
    <3> QED
      BY <2>2, <3>1 DEF Callers
  <2>5. \A q \in Callers(p) : q \in Callers(m)
    BY <1>1, <2>4, CallersOfCallers
  <2>6. ASSUME NEW q \in Callers(m) PROVE q \in Callers(p) \cup {p}
    <3>1. q \in Nat /\ q < m /\ p \in Nat /\ m \in Nat /\ q \in Listed
      BY <1>1, <2>2 DEF Callers, Listed
    <3>2. CASE p < q
      <4>1. q \in (p + 1)..(m - 1) /\ m \in (q + 1)..m
        BY <3>1, <3>2
      <4>2. height[q] >= height[m] /\ height[m] > height[q]
        BY <2>3, <4>1 DEF Callers
      <4>3. height[q] \in Nat
        BY <3>1 DEF Leveled
      <4> QED
        BY <1>1, <4>2, <4>3
    <3>3. CASE q < p
      <4>1. p <= m
        BY <1>1, <2>2
      <4> QED
        BY <3>1, <3>3, <4>1, CallersBetween
    <3> QED
      BY <3>1, <3>2, <3>3
  <2> QED
    BY <1>3, <2>1, <2>4, <2>5, <2>6
<1> QED
  BY <1>2, <1>3

\* What was called below a node.
Under(v) == {m \in Listed : v \in {0} \cup Callers(m)}

LEMMA UnderChildren ==
  ASSUME Nested, Leveled, NEW v \in Tree, NEW m \in Under(v)
  PROVE  \E c \in Listed : parent[c] = v /\ (m = c \/ m \in Under(c))
<1>0. n \in Nat /\ \A k \in Listed : k \in Nat /\ parent[k] \in 0..(k - 1)
  BY DEF Nested, Listed
<1> DEFINE S == Listed
           rank == [k \in S |-> k]
           P == {k \in S : k \in Under(v) => \E c \in Listed : parent[c] = v /\ (k = c \/ k \in Under(c))}
<1>1. rank \in [S -> Nat] /\ P \in SUBSET S
  BY <1>0
<1>2. \A k \in S : (\A r \in S : rank[r] < rank[k] => r \in P) => k \in P
  <2> SUFFICES ASSUME NEW k \in Listed, \A r \in Listed : r < k => r \in P, k \in Under(v), parent[k] # v
               PROVE  \E c \in Listed : parent[c] = v /\ (k = c \/ k \in Under(c))
    OBVIOUS
  <2>1. parent[k] # 0 /\ parent[k] \in Listed /\ parent[k] < k
    <3>1. parent[k] = 0 => v = 0
      BY CallersStep DEF Under
    <3> QED
      BY <1>0, <3>1 DEF Listed
  <2>2. Callers(k) = Callers(parent[k]) \cup {parent[k]}
    BY <2>1, CallersStep
  <2>3. parent[k] \in Under(v)
    BY <2>1, <2>2 DEF Under
  <2>4. PICK c \in Listed : parent[c] = v /\ (parent[k] = c \/ parent[k] \in Under(c))
    BY <2>1, <2>3
  <2>5. k \in Under(c)
    BY <2>2, <2>4 DEF Under
  <2> QED
    BY <2>4, <2>5
<1>3. Inductive(S, rank, P)
  <2> HIDE DEF S, rank, P
  <2> QED
    BY <1>1, <1>2 DEF Inductive
<1>4. P = S
  BY <1>3, ByRank
<1>5. m \in S
  BY DEF Under
<1> QED
  BY <1>4, <1>5

LEMMA ChildrenUnder ==
  ASSUME Nested, Leveled, NEW v \in Tree, NEW c \in Listed, parent[c] = v
  PROVE  /\ v \in Nat /\ c \in Nat /\ v < c
         /\ c \in Under(v) /\ Under(c) \subseteq Under(v)
         /\ \A q \in Callers(c) : q <= v
         /\ \A m \in Under(c) : m \in Nat /\ c < m
<1>1. n \in Nat /\ c \in Nat /\ v \in 0..(c - 1)
  BY DEF Nested, Listed
<1>2. v \in Nat /\ v < c
  BY <1>1
<1>3. Callers(c) = IF v = 0 THEN {} ELSE Callers(v) \cup {v}
  BY CallersStep
<1>4. c \in Under(v)
  BY <1>3 DEF Under
<1>5. \A m \in Under(c) : m \in Listed /\ c \in Callers(m)
  BY <1>1, <1>2 DEF Under
<1>6. ASSUME NEW m \in Under(c) PROVE m \in Under(v)
  <2>1. v # 0 => v \in Callers(m)
    BY <1>1, <1>3, <1>5, CallersOfCallers
  <2> QED
    BY <1>5, <2>1 DEF Under
<1>7. \A q \in Callers(c) : q <= v
  <2> SUFFICES ASSUME NEW q \in Callers(c) PROVE q <= v
    OBVIOUS
  <2>1. v # 0 /\ (q = v \/ q \in Callers(v))
    BY <1>3
  <2> QED
    BY <1>2, <2>1, CallersAreBefore
<1>8. \A m \in Under(c) : m \in Nat /\ c < m
  <2> SUFFICES ASSUME NEW m \in Under(c) PROVE m \in Nat /\ c < m
    OBVIOUS
  <2>1. m \in Nat /\ c \in Callers(m)
    BY <1>5 DEF Listed
  <2> QED
    BY <2>1, CallersAreBefore
<1> QED
  BY <1>1, <1>2, <1>4, <1>6, <1>7, <1>8

\* What is below a node comes before whatever comes later and is not below it.
LEMMA UnderIsBefore ==
  ASSUME n \in Nat, NEW c \in Listed, NEW d \in Listed, c < d, c \notin Callers(d), NEW m \in Under(c)
  PROVE  m < d
<1>1. m \in Nat /\ c \in Nat /\ d \in Nat /\ c # 0 /\ c \in Callers(m)
  BY DEF Under, Listed
<1>2. d <= m => c \in Callers(d)
  BY <1>1, CallersBetween
<1> QED
  BY <1>1, <1>2
-----------------------------------------------------------------------------
(* Parsing.                                                                 *)

LEMMA FirstIsOne ==
  ASSUME NEW k \in Nat, NEW results, DOMAIN results = 1..k
  PROVE  /\ FirstOf(results) # None <=> \E i \in 1..k : results[i] # None
         /\ FirstOf(results) # None => \E i \in 1..k : FirstOf(results) = results[i]
<1> DEFINE some == {i \in DOMAIN results : results[i] # None}
<1>1. FirstOf(results) = IF some = {} THEN None ELSE results[Min(some)]
  BY DEF FirstOf
<1>2. some \in SUBSET (1..k)
  OBVIOUS
<1>3. some # {} => Min(some) \in some
  <2> HIDE DEF some
  <2> QED
    BY <1>2, SmallestPosition
<1> QED
  BY <1>1, <1>3

LEMMA DecodesToAType ==
  ASSUME NEW decoder, IsDecoder(decoder), NEW data, DecodeWith(decoder, data) # None
  PROVE  \E j \in DOMAIN decoder : DecodeWith(decoder, data) = decoder[j].type
<1> DEFINE results == [i \in DOMAIN decoder |->
                         IF Deserializes(decoder[i], data) THEN decoder[i].type ELSE None]
<1>1. DOMAIN decoder = 1..Len(decoder) /\ Len(decoder) \in Nat
  BY LenProperties DEF IsDecoder, IsWords
<1>2. DecodeWith(decoder, data) = FirstOf(results)
  BY DEF DecodeWith
<1>3. PICK i \in 1..Len(decoder) : FirstOf(results) = results[i]
  <2>1. DOMAIN results = 1..Len(decoder)
    BY <1>1
  <2>2. FirstOf(results) # None
    BY <1>2
  <2> HIDE DEF results
  <2> QED
    BY <1>1, <2>1, <2>2, FirstIsOne
<1> QED
  BY <1>1, <1>2, <1>3

\* What the theorems about the transaction pipe assume of a state: that the list
\* of instructions is the one of a transaction.
Ready == Nested /\ Leveled /\ update.what \in [Listed -> Data]

\* The collection takes an instruction exactly if one of its decoders does.
LEMMA ParsedIsDecodable ==
  ASSUME Ready, NEW m \in Listed
  PROVE  Parsed(m) # None <=> m \in Decodable
<1> DEFINE data == update.what[m]
           type(i) == DecodeWith(Collection[i].decoder, data)
           results == [i \in DOMAIN Collection |->
                         IF type(i) = None THEN None ELSE <<Collection[i].program, type(i)>>]
<1>1. data \in Data /\ IsWords(data)
  BY DataAssumption DEF Ready
<1>2. DOMAIN Collection = 1..Len(Collection) /\ Len(Collection) \in Nat
  BY CollectionAssumption, LenProperties DEF IsWords
<1>3. Parsed(m) = FirstOf(results)
  BY <1>1 DEF Parsed, TypeOf, ParseInstruction
<1>4. \A i \in DOMAIN Collection : results[i] # None <=> Understands(Collection[i].decoder, data)
  <2> SUFFICES ASSUME NEW i \in DOMAIN Collection
               PROVE  results[i] # None <=> Understands(Collection[i].decoder, data)
    OBVIOUS
  <2>1. /\ IsDecoder(Collection[i].decoder)
        /\ \A j \in DOMAIN Collection[i].decoder :
             <<Collection[i].program, Collection[i].decoder[j].type>> # None
    BY CollectionAssumption
  <2>2. type(i) # None <=> Understands(Collection[i].decoder, data)
    BY <1>1, <2>1, DecodesWhatItUnderstands
  <2>3. type(i) # None => \E j \in DOMAIN Collection[i].decoder : type(i) = Collection[i].decoder[j].type
    BY <2>1, DecodesToAType
  <2>4. type(i) # None => <<Collection[i].program, type(i)>> # None
    BY <2>1, <2>3
  <2>5. results[i] = IF type(i) = None THEN None ELSE <<Collection[i].program, type(i)>>
    OBVIOUS
  <2> QED
    BY <2>2, <2>4, <2>5
<1>5. FirstOf(results) # None <=> \E i \in 1..Len(Collection) : results[i] # None
  <2>1. DOMAIN results = 1..Len(Collection)
    BY <1>2
  <2> HIDE DEF results
  <2> QED
    BY <1>2, <2>1, FirstIsOne
<1> QED
  BY <1>2, <1>3, <1>4, <1>5 DEF Decodable

\* FlattenSeq's type.
LEMMA FlattenedType ==
  ASSUME NEW X, NEW seqs \in Seq(Seq(X))
  PROVE  FlattenSeq(seqs) \in Seq(X)
<1> DEFINE R == X \X X
<1>1. \A i \in 1..Len(seqs) : Sorted(R, seqs[i])
  <2> SUFFICES ASSUME NEW i \in 1..Len(seqs), NEW j \in 1..Len(seqs[i]), NEW k \in 1..Len(seqs[i])
               PROVE  <<seqs[i][j], seqs[i][k]>> \in R
    BY DEF Sorted
  <2>1. seqs[i] \in Seq(X)
    BY ElementOfSeq
  <2> QED
    BY <2>1, ElementOfSeq
<1>2. \A i, j \in 1..Len(seqs) : i < j =>
        \A a, b \in X : Holds(seqs[i], a) /\ Holds(seqs[j], b) => <<a, b>> \in R
  OBVIOUS
<1> HIDE DEF R
<1> QED
  BY <1>1, <1>2, Flattened

\* The parsed instructions below a node, when those below the nodes after it are
\* known.
LEMMA ParseType ==
  ASSUME Ready, NEW g \in [Tree -> Seq(Listed)], NEW v
  PROVE  ParseInstructions(g, v) \in Seq(Listed)
<1> DEFINE below == Below(v)
           seqs == [i \in DOMAIN below |-> IF Parsed(below[i]) # None THEN <<below[i]>> ELSE g[below[i]]]
<1>1. below \in Seq(Listed) /\ DOMAIN below = 1..Len(below) /\ Len(below) \in Nat
  BY BelowInOrder, LenProperties DEF Ready
<1>2. \A i \in 1..Len(below) : below[i] \in Listed
  BY <1>1, ElementOfSeq
<1>3. \A m \in Listed : <<m>> \in Seq(Listed) /\ g[m] \in Seq(Listed)
  BY DEF Tree
<1>4. seqs \in Seq(Seq(Listed))
  <2> HIDE DEF below
  <2>1. seqs \in [1..Len(below) -> Seq(Listed)]
    BY <1>1, <1>2, <1>3
  <2> QED
    BY <1>1, <2>1
<1>5. FlattenSeq(seqs) \in Seq(Listed)
  <2> HIDE DEF seqs
  <2> QED
    BY <1>4, FlattenedType
<1> QED
  BY <1>5 DEF ParseInstructions

LEMMA ParseLooksBelow ==
  ASSUME Ready, NEW g, NEW h, NEW v \in Tree,
         \A m \in Listed : m > v => g[m] = h[m]
  PROVE  ParseInstructions(g, v) = ParseInstructions(h, v)
<1> DEFINE below == Below(v)
           seqs(k) == [i \in DOMAIN below |-> IF Parsed(below[i]) # None THEN <<below[i]>> ELSE k[below[i]]]
<1>1. below \in Seq(Listed) /\ DOMAIN below = 1..Len(below) /\ Len(below) \in Nat
  BY BelowInOrder, LenProperties DEF Ready
<1>2. \A i \in 1..Len(below) : below[i] \in Listed /\ parent[below[i]] = v
  <2>1. \A i \in 1..Len(below) : below[i] \in Listed
    BY <1>1, ElementOfSeq
  <2>2. \A m \in Listed : Holds(below, m) <=> parent[m] = v
    BY BelowInOrder DEF Ready
  <2> QED
    BY <2>1, <2>2 DEF Holds
<1>3. \A i \in 1..Len(below) : below[i] > v
  BY <1>2, ChildrenUnder DEF Ready, Nested, Listed
<1>4. seqs(g) = seqs(h)
  BY <1>1, <1>2, <1>3
<1> QED
  BY <1>4 DEF ParseInstructions

LEMMA ParsedBelowRecursion ==
  ASSUME Ready
  PROVE  /\ ParsedBelow \in [Tree -> Seq(Listed)]
         /\ \A v \in Tree : ParsedBelow[v] = ParseInstructions(ParsedBelow, v)
<1> DEFINE X == Seq(Listed)
           rank == [v \in Tree |-> n - v]
           Step1(g) == [v \in Tree |-> ParseInstructions(g, v)]
           step == [g \in [Tree -> X] |-> Step1(g)]
<1>1. n \in Nat /\ \A v \in Tree : v \in 0..n
  BY DEF Ready, Nested, Listed, Tree
<1>2. X # {} /\ rank \in [Tree -> 0..n]
  <2>1. X # {}
    BY EmptySeq
  <2>2. \A v \in Tree : n - v \in 0..n
    BY <1>1
  <2> QED
    BY <2>1, <2>2
<1>3. step \in [[Tree -> X] -> [Tree -> X]]
  BY ParseType
<1>4. \A g, h \in [Tree -> X] : \A v \in Tree :
        (\A r \in Tree : rank[r] < rank[v] => g[r] = h[r]) => step[g][v] = step[h][v]
  <2> SUFFICES ASSUME NEW g \in [Tree -> X], NEW h \in [Tree -> X], NEW v \in Tree,
                      \A r \in Tree : rank[r] < rank[v] => g[r] = h[r]
               PROVE  ParseInstructions(g, v) = ParseInstructions(h, v)
    OBVIOUS
  <2>1. \A m \in Listed : m > v => g[m] = h[m]
    <3> SUFFICES ASSUME NEW m \in Listed, m > v PROVE rank[m] < rank[v] /\ m \in Tree
      OBVIOUS
    <3>1. m \in Tree
      BY DEF Tree
    <3> QED
      BY <1>1, <3>1
  <2> QED
    BY <2>1, ParseLooksBelow
<1>5. Recursive(Tree, X, n, rank, step)
  <2> HIDE DEF X, rank, step
  <2> QED
    BY <1>1, <1>2, <1>3, <1>4 DEF Recursive
<1>6. PICK g \in [Tree -> X] : step[g] = g
  <2> HIDE DEF X, rank, step
  <2> QED
    BY <1>5, Recursion
<1>7. g = Step1(g)
  BY <1>6
<1>8. ParsedBelow = CHOOSE f : f = Step1(f)
  BY DEF ParsedBelow
<1>9. ParsedBelow = Step1(ParsedBelow)
  <2> HIDE DEF Step1
  <2> QED
    BY <1>7, <1>8
<1>10. \A v \in Tree : ParsedBelow[v] = ParseInstructions(ParsedBelow, v) /\ g[v] = ParseInstructions(g, v)
  BY <1>7, <1>9
<1> DEFINE P == {v \in Tree : ParsedBelow[v] = g[v]}
<1>11. P = Tree
  <2>1. \A v \in Tree : (\A r \in Tree : rank[r] < rank[v] => r \in P) => v \in P
    <3> SUFFICES ASSUME NEW v \in Tree, \A r \in Tree : rank[r] < rank[v] => r \in P
                 PROVE  ParseInstructions(ParsedBelow, v) = ParseInstructions(g, v)
      BY <1>10
    <3>1. ASSUME NEW m \in Listed, m > v PROVE ParsedBelow[m] = g[m]
      <4>1. m \in Tree
        BY DEF Tree
      <4>2. rank[m] < rank[v]
        BY <1>1, <3>1, <4>1
      <4> QED
        BY <4>1, <4>2
    <3> QED
      BY <3>1, ParseLooksBelow
  <2>2. Inductive(Tree, rank, P)
    <3>1. rank \in [Tree -> Nat] /\ P \in SUBSET Tree
      BY <1>2
    <3> HIDE DEF rank, P
    <3> QED
      BY <2>1, <3>1 DEF Inductive
  <2> QED
    BY <2>2, ByRank
<1>12. ParsedBelow = g
  <2>1. \A v \in Tree : ParsedBelow[v] = g[v]
    BY <1>11
  <2> HIDE DEF Step1
  <2>2. ParsedBelow = [v \in Tree |-> ParsedBelow[v]]
    BY <1>9 DEF Step1
  <2> QED
    BY <2>1, <2>2
<1> QED
  BY <1>6, <1>10, <1>12

\* The decodable instructions below a node that no other decodable one below it
\* has called.
Top(v) == {m \in Decodable : m \in Under(v) /\ \A q \in Callers(m) \cap Decodable : q <= v}

LEMMA TopStep ==
  ASSUME Ready, NEW v \in Tree, NEW m
  PROVE  m \in Top(v) <=>
           \E c \in Listed : parent[c] = v /\ (IF c \in Decodable THEN m = c ELSE m \in Top(c))
<1>0. Nested /\ Leveled /\ n \in Nat /\ Decodable \subseteq Listed /\ (\A k \in Decodable : k \in Nat)
  BY DEF Ready, Nested, Decodable, Listed
<1>1. ASSUME m \in Top(v)
      PROVE  \E c \in Listed : parent[c] = v /\ (IF c \in Decodable THEN m = c ELSE m \in Top(c))
  <2>1. m \in Decodable /\ m \in Under(v) /\ (\A q \in Callers(m) \cap Decodable : q <= v)
    BY <1>1 DEF Top
  <2>2. PICK c \in Listed : parent[c] = v /\ (m = c \/ m \in Under(c))
    BY <1>0, <2>1, UnderChildren
  <2>3. v \in Nat /\ c \in Nat /\ v < c
    BY <1>0, <2>2, ChildrenUnder
  <2>4. CASE m = c
    BY <2>1, <2>2, <2>4
  <2>5. CASE m \in Under(c)
    <3>1. c \in Callers(m)
      BY <2>3, <2>5 DEF Under
    <3>2. c \notin Decodable
      BY <2>1, <2>3, <3>1
    <3>3. \A q \in Callers(m) \cap Decodable : q <= c
      <4> SUFFICES ASSUME NEW q \in Callers(m) \cap Decodable PROVE q <= c
        OBVIOUS
      <4>1. q \in Nat /\ q <= v
        BY <1>0, <2>1
      <4> QED
        BY <2>3, <4>1
    <3> QED
      BY <2>1, <2>2, <2>5, <3>2, <3>3 DEF Top
  <2> QED
    BY <2>2, <2>4, <2>5
<1>2. ASSUME NEW c \in Listed, parent[c] = v, IF c \in Decodable THEN m = c ELSE m \in Top(c)
      PROVE  m \in Top(v)
  <2>1. /\ v \in Nat /\ c \in Nat /\ v < c
        /\ c \in Under(v) /\ Under(c) \subseteq Under(v)
        /\ \A q \in Callers(c) : q <= v
    BY <1>0, <1>2, ChildrenUnder
  <2>2. CASE c \in Decodable
    BY <1>2, <2>1, <2>2 DEF Top
  <2>3. CASE c \notin Decodable
    <3>1. m \in Decodable /\ m \in Under(c) /\ (\A q \in Callers(m) \cap Decodable : q <= c)
      BY <1>2, <2>3 DEF Top
    <3>2. m \in Nat /\ c \in Callers(m) /\ c < m
      <4>1. m \in Listed /\ c \in Callers(m)
        BY <2>1, <3>1 DEF Under
      <4> QED
        BY <4>1, CallersAreBefore DEF Listed
    <3>3. \A q \in Callers(m) \cap Decodable : q <= v
      <4> SUFFICES ASSUME NEW q \in Callers(m) \cap Decodable PROVE q <= v
        OBVIOUS
      <4>1. q \in Nat /\ q <= c /\ q # c
        BY <1>0, <2>3, <3>1
      <4>2. q < c /\ c <= m
        BY <2>1, <3>2, <4>1
      <4>3. q \in Callers(c)
        BY <2>1, <3>2, <4>1, <4>2, CallersBetween
      <4> QED
        BY <2>1, <4>3
    <3> QED
      BY <2>1, <3>1, <3>3 DEF Top
  <2> QED
    BY <2>2, <2>3
<1> QED
  BY <1>1, <1>2

\* Numbers in ascending order.
Less == {p \in Listed \X Listed : p[1] < p[2]}

LEMMA LessAscends ==
  ASSUME NEW s \in Seq(Listed)
  PROVE  Ascending(s) <=> Sorted(Less, s)
<1>1. \A i \in 1..Len(s) : s[i] \in Listed
  BY ElementOfSeq
<1>2. \A i, j \in 1..Len(s) : <<s[i], s[j]>> \in Less <=> s[i] < s[j]
  BY <1>1 DEF Less
<1> QED
  BY <1>2 DEF Ascending, Sorted

\* What is below a node that comes before another one, if the first is not a
\* caller of the second.
LEMMA UnderInOrder ==
  ASSUME n \in Nat, NEW c \in Listed, NEW d \in Listed, c < d, c \notin Callers(d),
         NEW a \in {c} \cup Under(c), NEW b \in {d} \cup Under(d)
  PROVE  a \in Listed /\ b \in Listed /\ a < b
<1>1. c \in Nat /\ d \in Nat /\ c # 0 /\ d # 0 /\ a \in Listed /\ b \in Listed
  BY DEF Listed, Under
<1>2. a < d
  BY <1>1, UnderIsBefore
<1>3. d <= b
  <2>1. b \in Under(d) => d \in Callers(b)
    BY <1>1 DEF Under
  <2>2. b \in Nat
    BY <1>1 DEF Listed
  <2> QED
    BY <1>1, <2>1, <2>2, CallersAreBefore
<1>4. a \in Nat /\ b \in Nat
  BY <1>1 DEF Listed
<1> QED
  BY <1>1, <1>2, <1>3, <1>4

\* What parse_instructions finds below a node.
LEMMA ParsedIsTop ==
  ASSUME Ready, NEW v \in Tree
  PROVE  /\ ParsedBelow[v] \in Seq(Listed)
         /\ Ascending(ParsedBelow[v])
         /\ \A m : Holds(ParsedBelow[v], m) <=> m \in Top(v)
<1>0. Nested /\ Leveled /\ n \in Nat /\ (\A w \in Tree : w \in 0..n) /\ (\A m \in Listed : m \in Tree)
  BY DEF Ready, Nested, Listed, Tree
<1> DEFINE Good(w) == Ascending(ParsedBelow[w]) /\ \A m : Holds(ParsedBelow[w], m) <=> m \in Top(w)
           rank == [w \in Tree |-> n - w]
           P == {w \in Tree : Good(w)}
<1>1. /\ ParsedBelow \in [Tree -> Seq(Listed)]
      /\ \A w \in Tree : ParsedBelow[w] = ParseInstructions(ParsedBelow, w)
  BY ParsedBelowRecursion
<1>2. ASSUME NEW w \in Tree, \A r \in Tree : rank[r] < rank[w] => r \in P
      PROVE  w \in P
  <2> DEFINE below == Below(w)
             seqs == [i \in DOMAIN below |->
                        IF Parsed(below[i]) # None THEN <<below[i]>> ELSE ParsedBelow[below[i]]]
  <2>1. /\ below \in Seq(Listed) /\ Ascending(below)
        /\ \A m \in Listed : Holds(below, m) <=> parent[m] = w
        /\ DOMAIN below = 1..Len(below) /\ Len(below) \in Nat
    BY <1>0, BelowInOrder, LenProperties
  <2>2. \A i \in 1..Len(below) : below[i] \in Listed /\ below[i] \in Tree
    BY <1>0, <2>1, ElementOfSeq
  <2>3. \A i \in 1..Len(below) : parent[below[i]] = w
    BY <2>1, <2>2 DEF Holds
  <2>4. \A i \in 1..Len(below) : Good(below[i])
    <3> SUFFICES ASSUME NEW i \in 1..Len(below) PROVE below[i] \in P
      OBVIOUS
    <3>1. w \in Nat /\ below[i] \in Nat /\ w < below[i]
      BY <1>0, <2>2, <2>3, ChildrenUnder
    <3>2. rank[below[i]] < rank[w]
      <4> HIDE DEF below
      <4>1. rank[below[i]] = n - below[i] /\ rank[w] = n - w
        BY <2>2
      <4> QED
        BY <1>0, <3>1, <4>1
    <3> QED
      BY <1>2, <2>2, <3>2
  <2>5. \A i \in 1..Len(below) : Parsed(below[i]) # None <=> below[i] \in Decodable
    BY <2>2, ParsedIsDecodable
  <2> DEFINE Part(i) == IF below[i] \in Decodable THEN {below[i]} ELSE Top(below[i])
  <2>6. /\ seqs \in Seq(Seq(Listed)) /\ Len(seqs) = Len(below)
        /\ \A i \in 1..Len(below) : /\ seqs[i] \in Seq(Listed) /\ Sorted(Less, seqs[i])
                                    /\ \A m : Holds(seqs[i], m) <=> m \in Part(i)
    <3> HIDE DEF below
    <3>1. \A i \in 1..Len(below) : seqs[i] = IF below[i] \in Decodable THEN <<below[i]>> ELSE ParsedBelow[below[i]]
      BY <2>1, <2>5
    <3>2. \A i \in 1..Len(below) : seqs[i] \in Seq(Listed)
      <4>1. \A m \in Listed : <<m>> \in Seq(Listed) /\ ParsedBelow[m] \in Seq(Listed)
        BY <1>0, <1>1
      <4> HIDE DEF seqs
      <4> QED
        BY <2>2, <3>1, <4>1
    <3>3. DOMAIN seqs = 1..Len(below)
      BY <2>1
    <3>3b. seqs = [i \in 1..Len(below) |-> seqs[i]]
      BY <2>1
    <3> HIDE DEF seqs
    <3>4. seqs \in Seq(Seq(Listed)) /\ Len(seqs) = Len(below)
      <4>1. seqs \in [1..Len(below) -> Seq(Listed)]
        BY <3>2, <3>3b
      <4> QED
        BY <2>1, <4>1
    <3>5. ASSUME NEW i \in 1..Len(below)
          PROVE  Ascending(seqs[i]) /\ \A m : Holds(seqs[i], m) <=> m \in Part(i)
      <4>1. CASE below[i] \in Decodable
        <5>1. seqs[i] = <<below[i]>> /\ Part(i) = {below[i]}
          BY <3>1, <4>1
        <5>2. \A x : Ascending(<<x>>) /\ \A m : Holds(<<x>>, m) <=> m \in {x}
          BY DEF Ascending, Holds
        <5> QED
          BY <5>1, <5>2
      <4>2. CASE below[i] \notin Decodable
        <5>1. seqs[i] = ParsedBelow[below[i]] /\ Part(i) = Top(below[i])
          BY <3>1, <4>2
        <5>2. Good(below[i])
          BY <2>4
        <5> QED
          BY <5>1, <5>2
      <4> QED
        BY <4>1, <4>2
    <3>6. \A i \in 1..Len(below) : Sorted(Less, seqs[i])
      BY <3>2, <3>5, LessAscends
    <3> QED
      BY <3>2, <3>4, <3>5, <3>6
  <2>7. \A i, j \in 1..Len(seqs) : i < j =>
          \A a, b \in Listed : Holds(seqs[i], a) /\ Holds(seqs[j], b) => <<a, b>> \in Less
    <3> SUFFICES ASSUME NEW i \in 1..Len(below), NEW j \in 1..Len(below), i < j,
                        NEW a \in Listed, NEW b \in Listed, a \in Part(i), b \in Part(j)
                 PROVE  <<a, b>> \in Less
      <4> HIDE DEF seqs, below, Part
      <4> QED
        BY <2>6
    <3>1. PICK c \in Listed, d \in Listed : c = below[i] /\ d = below[j]
      BY <2>2
    <3>2. c < d /\ parent[c] = w /\ parent[d] = w
      BY <2>1, <2>3, <3>1 DEF Ascending
    <3>3. c \notin Callers(d)
      <4>1. (\A q \in Callers(d) : q <= w) /\ w < c /\ w \in Nat /\ c \in Nat
        BY <1>0, <3>2, ChildrenUnder
      <4> QED
        BY <4>1
    <3>4. a \in {c} \cup Under(c) /\ b \in {d} \cup Under(d)
      BY <3>1 DEF Top
    <3>5. a < b
      BY <1>0, <3>2, <3>3, <3>4, UnderInOrder
    <3> QED
      BY <3>5 DEF Less
  <2>8. /\ FlattenSeq(seqs) \in Seq(Listed)
        /\ \A x : Holds(FlattenSeq(seqs), x) <=> \E i \in 1..Len(seqs) : Holds(seqs[i], x)
        /\ Sorted(Less, FlattenSeq(seqs))
    <3>1. seqs \in Seq(Seq(Listed)) /\ \A i \in 1..Len(seqs) : Sorted(Less, seqs[i])
      BY <2>6
    <3> HIDE DEF seqs
    <3> QED
      BY <2>7, <3>1, Flattened
  <2>9. ParsedBelow[w] = FlattenSeq(seqs)
    BY <1>1 DEF ParseInstructions
  <2> HIDE DEF seqs, below
  <2>10. \A m : (\E i \in 1..Len(seqs) : Holds(seqs[i], m)) <=> m \in Top(w)
    <3>1. \A m : (\E i \in 1..Len(seqs) : Holds(seqs[i], m)) <=> \E i \in 1..Len(below) : m \in Part(i)
      <4> HIDE DEF Part
      <4> QED
        BY <2>6
    <3>2. \A m : (\E i \in 1..Len(below) : m \in Part(i)) <=>
            \E c \in Listed : parent[c] = w /\ (IF c \in Decodable THEN m = c ELSE m \in Top(c))
      <4>1. \A c \in Listed : parent[c] = w <=> \E i \in 1..Len(below) : below[i] = c
        BY <2>1 DEF Holds
      <4> QED
        BY <2>2, <4>1
    <3> QED
      BY <3>1, <3>2, TopStep
  <2>11. Ascending(FlattenSeq(seqs))
    BY <2>8, LessAscends
  <2> QED
    BY <2>8, <2>9, <2>10, <2>11
<1>3. P = Tree
  <2>1. rank \in [Tree -> Nat] /\ P \in SUBSET Tree
    <3>1. \A w \in Tree : n - w \in Nat
      BY <1>0
    <3> QED
      BY <3>1
  <2>2. Inductive(Tree, rank, P)
    <3> HIDE DEF rank, P
    <3> QED
      BY <1>2, <2>1 DEF Inductive
  <2> QED
    BY <2>2, ByRank
<1>4. v \in P
  BY <1>3
<1> QED
  BY <1>1, <1>4
-----------------------------------------------------------------------------
(* Unnesting.                                                               *)

\* The decodable callers of an instruction below a node.
CallersBelow(k, v) == {q \in Callers(k) \cap Decodable : q > v}

LEMMA TopIsBelow ==
  ASSUME Ready, NEW v \in Tree, NEW m \in Top(v)
  PROVE  /\ m \in Listed /\ m \in Tree /\ m \in Decodable /\ m \in Under(v)
         /\ v \in Nat /\ m \in Nat /\ v < m
         /\ \A k \in Under(m) : k \in Under(v) /\ m \in Callers(k)
         /\ m \notin Callers(m)
<1>1. n \in Nat /\ Leveled /\ v \in 0..n /\ m \in Decodable /\ m \in Under(v)
  BY DEF Ready, Nested, Top, Tree, Listed
<1>2. m \in Listed /\ m \in Tree /\ m \in 1..n /\ v \in {0} \cup Callers(m)
  BY <1>1 DEF Under, Tree, Listed
<1>3. v < m /\ m \notin Callers(m)
  <2>1. m \in Nat
    BY <1>2
  <2>2. v = 0 \/ v < m
    BY <1>2, <2>1, CallersAreBefore
  <2>3. m \notin Callers(m)
    <3> SUFFICES ASSUME m \in Callers(m) PROVE FALSE
      OBVIOUS
    <3>1. m < m
      BY <2>1, CallersAreBefore
    <3> QED
      BY <2>1, <3>1
  <2> QED
    BY <1>1, <1>2, <2>2, <2>3
<1>4. ASSUME NEW k \in Under(m) PROVE k \in Under(v) /\ m \in Callers(k)
  <2>1. k \in Listed /\ m \in Callers(k)
    BY <1>2 DEF Under
  <2>2. v # 0 => v \in Callers(k)
    BY <1>1, <1>2, <2>1, CallersOfCallers
  <2> QED
    BY <2>1, <2>2 DEF Under
<1> QED
  BY <1>1, <1>2, <1>3, <1>4

LEMMA CallersBelowTop ==
  ASSUME Ready, NEW v \in Tree, NEW m \in Top(v)
  PROVE  /\ CallersBelow(m, v) = {}
         /\ \A k \in Under(m) : CallersBelow(k, v) = CallersBelow(k, m) \cup {m}
<1>1. /\ m \in Listed /\ m \in Decodable /\ v \in Nat /\ m \in Nat /\ v < m
      /\ \A k \in Under(m) : k \in Under(v) /\ m \in Callers(k)
  BY TopIsBelow
<1>2. \A q \in Callers(m) \cap Decodable : q <= v /\ q \in Nat
  BY <1>1, CallersAreBefore DEF Top
<1>3. CallersBelow(m, v) = {}
  BY <1>1, <1>2 DEF CallersBelow
<1>4. ASSUME NEW k \in Under(m), NEW q \in Callers(k) \cap Decodable
      PROVE  q > v <=> (q > m \/ q = m)
  <2>1. k \in Nat /\ m \in Callers(k) /\ m < k
    <3>1. k \in Nat
      BY DEF Under, Listed
    <3> QED
      BY <1>1, <3>1, CallersAreBefore
  <2>2. q \in Nat
    BY <2>1, CallersAreBefore
  <2>3. q < m => q \in Callers(m)
    BY <1>1, <2>1, <2>2, CallersBetween
  <2> QED
    BY <1>1, <1>2, <2>2, <2>3
<1>5. \A k \in Under(m) : CallersBelow(k, v) = CallersBelow(k, m) \cup {m}
  BY <1>1, <1>4 DEF CallersBelow
<1> QED
  BY <1>3, <1>5

LEMMA CallersCount ==
  ASSUME Ready, NEW v \in Tree, NEW m \in Top(v)
  PROVE  /\ Cardinality(CallersBelow(m, v)) = 0
         /\ \A k \in Under(m) :
              /\ Cardinality(CallersBelow(k, m)) \in Nat
              /\ Cardinality(CallersBelow(k, v)) = Cardinality(CallersBelow(k, m)) + 1
<1>1. Cardinality(CallersBelow(m, v)) = 0
  BY CallersBelowTop, FS_EmptySet
<1>2. ASSUME NEW k \in Under(m)
      PROVE  /\ Cardinality(CallersBelow(k, m)) \in Nat
             /\ Cardinality(CallersBelow(k, v)) = Cardinality(CallersBelow(k, m)) + 1
  <2>1. PICK S : S = CallersBelow(k, m)
    OBVIOUS
  <2>2. k \in Nat /\ m \in Nat
    BY TopIsBelow DEF Under, Listed
  <2>3. IsFiniteSet(S)
    <3>1. IsFiniteSet(1..(k - 1))
      BY <2>2, FS_Interval
    <3>2. S \in SUBSET (1..(k - 1))
      BY <2>1 DEF CallersBelow, Callers
    <3> QED
      BY <3>1, <3>2, FS_Subset
  <2>4. m \notin S
    BY <2>1, <2>2 DEF CallersBelow
  <2>5. CallersBelow(k, v) = S \cup {m}
    BY <2>1, CallersBelowTop
  <2>6. Cardinality(S) \in Nat /\ Cardinality(S \cup {m}) = Cardinality(S) + 1
    BY <2>3, <2>4, FS_CardinalityType, FS_AddElement
  <2> QED
    BY <2>1, <2>5, <2>6
<1> QED
  BY <1>1, <1>2

\* Whatever is decodable below a node is what parsing finds there, or below it.
LEMMA TopCovers ==
  ASSUME Ready, NEW v \in Tree, NEW k \in Decodable, k \in Under(v), k \notin Top(v)
  PROVE  \E m \in Top(v) : k \in Under(m)
<1>1. k \in Listed /\ k \in Nat /\ v \in {0} \cup Callers(k) /\ n \in Nat /\ v \in Nat
  BY DEF Ready, Nested, Under, Listed, Callers
<1> DEFINE S == CallersBelow(k, v)
<1>2. S \in SUBSET Nat
  BY <1>1, CallersAreBefore DEF CallersBelow
<1>3. S # {}
  <2>1. PICK q \in Callers(k) \cap Decodable : ~(q <= v)
    BY DEF Top
  <2>2. q \in Nat
    BY <1>1, <2>1, CallersAreBefore
  <2> QED
    BY <1>1, <2>1, <2>2 DEF CallersBelow
<1>4. PICK m \in S : \A q \in S : m <= q
  <2> HIDE DEF S
  <2> QED
    BY <1>2, <1>3, LeastNumber
<1>5. m \in Callers(k) /\ m \in Decodable /\ m > v /\ m \in Nat /\ m < k
  BY <1>1, CallersAreBefore DEF CallersBelow
<1>6. m \in Under(v)
  <2>1. v # 0 => v \in Callers(m)
    <3>1. v < m /\ m <= k
      BY <1>1, <1>5
    <3> QED
      BY <1>1, <1>5, <3>1, CallersBetween
  <2>2. m \in Listed
    BY <1>5 DEF Decodable
  <2> QED
    BY <2>1, <2>2 DEF Under
<1>7. ASSUME NEW q \in Callers(m) \cap Decodable PROVE q <= v
  <2>1. q \in Nat /\ q < m
    BY <1>5, CallersAreBefore
  <2>2. q \in Callers(k)
    BY <1>1, <1>5, CallersOfCallers DEF Ready
  <2>3. q > v => m <= q
    BY <1>4, <2>2 DEF CallersBelow
  <2> QED
    BY <1>1, <1>5, <2>1, <2>3
<1>8. m \in Top(v) /\ k \in Under(m)
  BY <1>1, <1>5, <1>6, <1>7 DEF Top, Under
<1> QED
  BY <1>8

\* What unnest_parsed_instructions puts into the list.
Unnested == [ix : Listed, height : Nat, index : Nat]

LEMMA UnnestType ==
  ASSUME Ready, NEW g \in [Tree -> [Nat -> Seq(Unnested)]], NEW v \in Tree, NEW h \in Nat
  PROVE  UnnestParsed(g, v, h) \in Seq(Unnested)
<1> DEFINE ixs == ParsedBelow[v]
           part(i) == <<[ix |-> ixs[i], height |-> h, index |-> i]>> \o g[ixs[i]][h + 1]
           seqs == [i \in DOMAIN ixs |-> part(i)]
<1>1. ixs \in Seq(Listed) /\ DOMAIN ixs = 1..Len(ixs) /\ Len(ixs) \in Nat
  BY ParsedIsTop, LenProperties
<1>2. ASSUME NEW i \in 1..Len(ixs) PROVE part(i) \in Seq(Unnested)
  <2>1. ixs[i] \in Listed /\ i \in Nat
    BY <1>1, <1>2, ElementOfSeq
  <2>2. g[ixs[i]][h + 1] \in Seq(Unnested)
    <3>1. ixs[i] \in Tree /\ h + 1 \in Nat
      BY <2>1 DEF Tree
    <3> HIDE DEF ixs
    <3> QED
      BY <3>1
  <2>3. [ix |-> ixs[i], height |-> h, index |-> i] \in Unnested
    BY <2>1 DEF Unnested
  <2>4. <<[ix |-> ixs[i], height |-> h, index |-> i]>> \in Seq(Unnested)
    BY <2>3
  <2> HIDE DEF ixs
  <2> QED
    BY <2>2, <2>4, ConcatProperties
<1>3. seqs \in Seq(Seq(Unnested))
  <2> HIDE DEF ixs, part
  <2>1. seqs \in [1..Len(ixs) -> Seq(Unnested)]
    BY <1>1, <1>2
  <2> QED
    BY <1>1, <2>1
<1>4. FlattenSeq(seqs) \in Seq(Unnested)
  <2> HIDE DEF seqs
  <2> QED
    BY <1>3, FlattenedType
<1> QED
  BY <1>4 DEF UnnestParsed

LEMMA UnnestLooksBelow ==
  ASSUME Ready, NEW g, NEW f, NEW v \in Tree, NEW h \in Nat,
         \A m \in Listed : m > v => g[m] = f[m]
  PROVE  UnnestParsed(g, v, h) = UnnestParsed(f, v, h)
<1> DEFINE ixs == ParsedBelow[v]
           part(u, i) == <<[ix |-> ixs[i], height |-> h, index |-> i]>> \o u[ixs[i]][h + 1]
           seqs(u) == [i \in DOMAIN ixs |-> part(u, i)]
<1>1. ixs \in Seq(Listed) /\ DOMAIN ixs = 1..Len(ixs) /\ Len(ixs) \in Nat
  BY ParsedIsTop, LenProperties
<1>2. \A i \in 1..Len(ixs) : ixs[i] \in Listed /\ ixs[i] > v
  <2> SUFFICES ASSUME NEW i \in 1..Len(ixs) PROVE ixs[i] \in Listed /\ ixs[i] > v
    OBVIOUS
  <2>1. ixs[i] \in Top(v)
    BY ParsedIsTop DEF Holds
  <2>2. PICK m \in Top(v) : m = ixs[i]
    BY <2>1
  <2>3. m \in Listed /\ v \in Nat /\ m \in Nat /\ v < m
    BY TopIsBelow
  <2> QED
    BY <2>2, <2>3
<1>3. \A i \in 1..Len(ixs) : part(g, i) = part(f, i)
  <2> HIDE DEF ixs
  <2> QED
    BY <1>2
<1>4. seqs(g) = seqs(f)
  <2> HIDE DEF part, ixs
  <2> QED
    BY <1>1, <1>3
<1> QED
  BY <1>4 DEF UnnestParsed

LEMMA UnnestRecursion ==
  ASSUME Ready
  PROVE  /\ Unnest \in [Tree -> [Nat -> Seq(Unnested)]]
         /\ \A v \in Tree : \A h \in Nat : Unnest[v][h] = UnnestParsed(Unnest, v, h)
<1> DEFINE X == [Nat -> Seq(Unnested)]
           rank == [v \in Tree |-> n - v]
           list(g, v) == [h \in Nat |-> UnnestParsed(g, v, h)]
           Step1(g) == [v \in Tree |-> list(g, v)]
           step == [g \in [Tree -> X] |-> Step1(g)]
<1>1. n \in Nat /\ \A v \in Tree : v \in 0..n
  BY DEF Ready, Nested, Listed, Tree
<1>2. X # {} /\ rank \in [Tree -> 0..n]
  <2>1. [h \in Nat |-> <<>>] \in X
    BY EmptySeq
  <2>2. \A v \in Tree : n - v \in 0..n
    BY <1>1
  <2> QED
    BY <2>1, <2>2
<1>3. step \in [[Tree -> X] -> [Tree -> X]]
  <2>1. \A g \in [Tree -> X] : \A v \in Tree : list(g, v) \in X
    BY UnnestType
  <2> HIDE DEF X, list
  <2> QED
    BY <2>1
<1>4. ASSUME NEW g, NEW f, NEW v \in Tree, \A r \in Tree : rank[r] < rank[v] => g[r] = f[r]
      PROVE  list(g, v) = list(f, v)
  <2>1. \A m \in Listed : m > v => g[m] = f[m]
    <3> SUFFICES ASSUME NEW m \in Listed, m > v PROVE rank[m] < rank[v] /\ m \in Tree
      BY <1>4
    <3>1. m \in Tree
      BY DEF Tree
    <3> QED
      BY <1>1, <3>1
  <2> QED
    BY <2>1, UnnestLooksBelow
<1>5. Recursive(Tree, X, n, rank, step)
  <2>1. \A g, h \in [Tree -> X] : \A v \in Tree :
          (\A r \in Tree : rank[r] < rank[v] => g[r] = h[r]) => step[g][v] = step[h][v]
    <3> SUFFICES ASSUME NEW g \in [Tree -> X], NEW h \in [Tree -> X], NEW v \in Tree,
                        \A r \in Tree : rank[r] < rank[v] => g[r] = h[r]
                 PROVE  step[g][v] = step[h][v]
      OBVIOUS
    <3>1. list(g, v) = list(h, v)
      <4> HIDE DEF list, rank, X
      <4> QED
        BY <1>4
    <3> HIDE DEF list, rank, X
    <3> QED
      BY <3>1
  <2> HIDE DEF X, rank, step
  <2> QED
    BY <1>1, <1>2, <1>3, <2>1 DEF Recursive
<1>6. PICK g \in [Tree -> X] : step[g] = g
  <2> HIDE DEF X, rank, step
  <2> QED
    BY <1>5, Recursion
<1>7. g = Step1(g)
  BY <1>6
<1>8. Unnest = Step1(Unnest)
  <2>1. Unnest = CHOOSE f : f = Step1(f)
    BY DEF Unnest
  <2> HIDE DEF Step1
  <2> QED
    BY <1>7, <2>1
<1>9. \A v \in Tree : Unnest[v] = list(Unnest, v) /\ g[v] = list(g, v)
  <2> HIDE DEF list
  <2> QED
    BY <1>7, <1>8
<1> DEFINE P == {v \in Tree : Unnest[v] = g[v]}
<1>10. P = Tree
  <2>1. \A v \in Tree : (\A r \in Tree : rank[r] < rank[v] => r \in P) => v \in P
    <3> SUFFICES ASSUME NEW v \in Tree, \A r \in Tree : rank[r] < rank[v] => r \in P
                 PROVE  list(Unnest, v) = list(g, v)
      BY <1>9
    <3>1. \A r \in Tree : rank[r] < rank[v] => Unnest[r] = g[r]
      OBVIOUS
    <3> HIDE DEF list, rank, P
    <3> QED
      BY <1>4, <3>1
  <2>2. rank \in [Tree -> Nat] /\ P \in SUBSET Tree
    BY <1>2
  <2>3. Inductive(Tree, rank, P)
    <3> HIDE DEF rank, P
    <3> QED
      BY <2>1, <2>2 DEF Inductive
  <2> QED
    BY <2>3, ByRank
<1>11. Unnest = g
  <2>1. \A v \in Tree : Unnest[v] = g[v]
    BY <1>10
  <2>2. Unnest = [v \in Tree |-> Unnest[v]]
    <3> HIDE DEF list
    <3> QED
      BY <1>8
  <2> HIDE DEF X
  <2> QED
    BY <2>1, <2>2
<1> QED
  BY <1>6, <1>9, <1>11

\* An entry of the list is before another one.
EarlierEntry == {p \in Unnested \X Unnested : p[1].ix < p[2].ix}

\* What the list below a node is: an ascending list of everything decodable there,
\* each with its number of decodable callers below the node, from the height on.
UnnestedRight(s, v, h) ==
  /\ s \in Seq(Unnested) /\ Sorted(EarlierEntry, s)
  /\ \A x \in Unnested : Holds(s, x) =>
       /\ x.ix \in Decodable /\ x.ix \in Under(v)
       /\ x.height = h + Cardinality(CallersBelow(x.ix, v))
  /\ \A k \in Decodable : k \in Under(v) => \E x \in Unnested : Holds(s, x) /\ x.ix = k

\* The part of that list for one instruction right below, and all below it.
UnnestedPart(s, m, v, h) ==
  /\ s \in Seq(Unnested) /\ Sorted(EarlierEntry, s)
  /\ \A x \in Unnested : Holds(s, x) =>
       /\ x.ix \in Decodable /\ x.ix \in {m} \cup Under(m)
       /\ x.height = h + Cardinality(CallersBelow(x.ix, v))
  /\ \A k \in Decodable : k \in {m} \cup Under(m) => \E x \in Unnested : Holds(s, x) /\ x.ix = k

LEMMA PartIsRight ==
  ASSUME Ready, NEW v \in Tree, NEW m \in Top(v), NEW h \in Nat, NEW i \in Nat, NEW t,
         UnnestedRight(t, m, h + 1),
         NEW s, s = <<[ix |-> m, height |-> h, index |-> i]>> \o t
  PROVE  UnnestedPart(s, m, v, h)
<1>1. /\ m \in Listed /\ m \in Decodable /\ m \in Nat
      /\ \A k \in Under(m) : m \in Callers(k)
  BY TopIsBelow
<1>2. PICK e : e = [ix |-> m, height |-> h, index |-> i]
  OBVIOUS
<1>3. e \in Unnested /\ e.ix = m /\ e.height = h
  BY <1>1, <1>2 DEF Unnested
<1>4. t \in Seq(Unnested) /\ <<e>> \in Seq(Unnested) /\ s = <<e>> \o t
  BY <1>2, <1>3 DEF UnnestedRight
<1>5. \A x : Holds(<<e>>, x) <=> x = e
  BY DEF Holds
<1>6. \A x : Holds(s, x) <=> x = e \/ Holds(t, x)
  <2>1. PICK d : d = <<e>>
    OBVIOUS
  <2>2. d \in Seq(Unnested) /\ s = d \o t
    BY <1>4, <2>1
  <2>3. \A x : Holds(s, x) <=> Holds(d, x) \/ Holds(t, x)
    BY <1>4, <2>2, ConcatHolds
  <2> QED
    BY <1>5, <2>1, <2>3
<1>7. \A x \in Unnested : Holds(t, x) =>
        /\ x.ix \in Decodable /\ x.ix \in Under(m)
        /\ x.height = h + 1 + Cardinality(CallersBelow(x.ix, m))
  BY DEF UnnestedRight
<1>8. Sorted(EarlierEntry, s)
  <2>1. Sorted(EarlierEntry, <<e>>) /\ Sorted(EarlierEntry, t)
    BY DEF Sorted, UnnestedRight
  <2>2. \A a, b \in Unnested : Holds(<<e>>, a) /\ Holds(t, b) => <<a, b>> \in EarlierEntry
    <3> SUFFICES ASSUME NEW b \in Unnested, Holds(t, b) PROVE <<e, b>> \in EarlierEntry
      BY <1>5
    <3>1. b.ix \in Nat /\ m \in Callers(b.ix)
      BY <1>1, <1>7 DEF Under, Listed
    <3>2. m < b.ix
      BY <3>1, CallersAreBefore
    <3> QED
      BY <1>3, <3>2 DEF EarlierEntry
  <2> QED
    BY <1>4, <2>1, <2>2, SortedConcat
<1>9. s \in Seq(Unnested)
  BY <1>4, ConcatProperties
<1>10. ASSUME NEW x \in Unnested, Holds(s, x)
       PROVE  /\ x.ix \in Decodable /\ x.ix \in {m} \cup Under(m)
              /\ x.height = h + Cardinality(CallersBelow(x.ix, v))
  <2>1. CASE x = e
    <3>1. Cardinality(CallersBelow(m, v)) = 0
      BY CallersCount
    <3> QED
      BY <1>1, <1>3, <2>1, <3>1
  <2>2. CASE Holds(t, x)
    <3>1. x.ix \in Decodable /\ x.ix \in Under(m) /\ x.height = h + 1 + Cardinality(CallersBelow(x.ix, m))
      BY <1>7, <2>2
    <3>2. PICK a, b : a = Cardinality(CallersBelow(x.ix, m)) /\ b = Cardinality(CallersBelow(x.ix, v))
      OBVIOUS
    <3>3. a \in Nat /\ b = a + 1
      BY <3>1, <3>2, CallersCount
    <3>4. x.height = h + b
      BY <3>1, <3>2, <3>3
    <3> QED
      BY <3>1, <3>2, <3>4
  <2> QED
    BY <1>6, <1>10, <2>1, <2>2
<1>11. \A k \in Decodable : k \in {m} \cup Under(m) => \E x \in Unnested : Holds(s, x) /\ x.ix = k
  <2> SUFFICES ASSUME NEW k \in Decodable, k \in {m} \cup Under(m)
               PROVE  \E x \in Unnested : Holds(s, x) /\ x.ix = k
    OBVIOUS
  <2>1. CASE k = m
    BY <1>3, <1>6, <2>1
  <2>2. CASE k \in Under(m)
    BY <1>6, <2>2 DEF UnnestedRight
  <2> QED
    BY <2>1, <2>2
<1> QED
  BY <1>8, <1>9, <1>10, <1>11 DEF UnnestedPart

LEMMA UnnestIsRight ==
  ASSUME Ready, NEW v \in Tree, NEW h \in Nat
  PROVE  UnnestedRight(Unnest[v][h], v, h)
<1>0. n \in Nat /\ \A w \in Tree : w \in 0..n
  BY DEF Ready, Nested, Listed, Tree
<1>1. /\ Unnest \in [Tree -> [Nat -> Seq(Unnested)]]
      /\ \A w \in Tree : \A k \in Nat : Unnest[w][k] = UnnestParsed(Unnest, w, k)
  BY UnnestRecursion
<1> DEFINE rank == [w \in Tree |-> n - w]
           P == {w \in Tree : \A k \in Nat : UnnestedRight(Unnest[w][k], w, k)}
<1>2. ASSUME NEW w \in Tree, \A r \in Tree : rank[r] < rank[w] => r \in P, NEW k \in Nat
      PROVE  UnnestedRight(Unnest[w][k], w, k)
  <2> DEFINE ixs == ParsedBelow[w]
             part(i) == <<[ix |-> ixs[i], height |-> k, index |-> i]>> \o Unnest[ixs[i]][k + 1]
             seqs == [i \in DOMAIN ixs |-> part(i)]
  <2>1. /\ ixs \in Seq(Listed) /\ Ascending(ixs)
        /\ \A m : Holds(ixs, m) <=> m \in Top(w)
        /\ DOMAIN ixs = 1..Len(ixs) /\ Len(ixs) \in Nat
    BY ParsedIsTop, LenProperties
  <2>2. \A i \in 1..Len(ixs) : ixs[i] \in Top(w) /\ i \in Nat
    BY <2>1 DEF Holds
  <2>3. ASSUME NEW i \in 1..Len(ixs) PROVE UnnestedPart(part(i), ixs[i], w, k)
    <3>1. PICK m \in Top(w) : m = ixs[i]
      BY <2>2
    <3>2. m \in Tree /\ w \in Nat /\ m \in Nat /\ w < m
      BY TopIsBelow
    <3>3. rank[m] < rank[w]
      BY <1>0, <3>2
    <3>4. k + 1 \in Nat /\ m \in P
      BY <1>2, <3>2, <3>3
    <3>5. UnnestedRight(Unnest[m][k + 1], m, k + 1)
      BY <3>4
    <3>6. i \in Nat /\ part(i) = <<[ix |-> m, height |-> k, index |-> i]>> \o Unnest[m][k + 1]
      BY <3>1
    <3>7. UnnestedPart(part(i), m, w, k)
      <4> HIDE DEF part
      <4> QED
        BY <3>5, <3>6, PartIsRight
    <3> QED
      BY <3>1, <3>7
  <2>4. seqs \in Seq(Seq(Unnested)) /\ Len(seqs) = Len(ixs) /\ \A i \in 1..Len(ixs) : seqs[i] = part(i)
    <3>1. \A i \in 1..Len(ixs) : part(i) \in Seq(Unnested)
      BY <2>3 DEF UnnestedPart
    <3> HIDE DEF part, ixs
    <3>2. seqs \in [1..Len(ixs) -> Seq(Unnested)] /\ \A i \in 1..Len(ixs) : seqs[i] = part(i)
      BY <2>1, <3>1
    <3> HIDE DEF seqs
    <3> QED
      BY <2>1, <3>2
  <2>5. Unnest[w][k] = FlattenSeq(seqs)
    BY <1>1 DEF UnnestParsed
  <2> HIDE DEF part, seqs
  <2>6. \A i \in 1..Len(seqs) : UnnestedPart(seqs[i], ixs[i], w, k)
    BY <2>3, <2>4
  <2>7. \A i, j \in 1..Len(seqs) : i < j =>
          \A a, b \in Unnested : Holds(seqs[i], a) /\ Holds(seqs[j], b) => <<a, b>> \in EarlierEntry
    <3> SUFFICES ASSUME NEW i \in 1..Len(seqs), NEW j \in 1..Len(seqs), i < j,
                        NEW a \in Unnested, NEW b \in Unnested, Holds(seqs[i], a), Holds(seqs[j], b)
                 PROVE  a.ix < b.ix
      BY DEF EarlierEntry
    <3>1. PICK c \in Top(w), d \in Top(w) : c = ixs[i] /\ d = ixs[j]
      BY <2>2, <2>4
    <3>2. c < d
      <4> HIDE DEF ixs
      <4> QED
        BY <2>1, <2>4, <3>1 DEF Ascending
    <3>3. a.ix \in {c} \cup Under(c) /\ b.ix \in {d} \cup Under(d)
      BY <2>6, <3>1 DEF UnnestedPart
    <3>4. c \in Listed /\ c \in Decodable /\ w < c /\ d \in Listed /\ w \in Nat /\ c \in Nat
      BY TopIsBelow
    <3>5. c \notin Callers(d)
      BY <3>4 DEF Top
    <3> HIDE DEF ixs
    <3> QED
      BY <1>0, <3>2, <3>3, <3>4, <3>5, UnderInOrder
  <2>8. \A i \in 1..Len(seqs) : Sorted(EarlierEntry, seqs[i])
    BY <2>6 DEF UnnestedPart
  <2>9. /\ FlattenSeq(seqs) \in Seq(Unnested)
        /\ \A x : Holds(FlattenSeq(seqs), x) <=> \E i \in 1..Len(seqs) : Holds(seqs[i], x)
        /\ Sorted(EarlierEntry, FlattenSeq(seqs))
    BY <2>4, <2>7, <2>8, Flattened
  <2>10. ASSUME NEW x \in Unnested, Holds(FlattenSeq(seqs), x)
         PROVE  /\ x.ix \in Decodable /\ x.ix \in Under(w)
                /\ x.height = k + Cardinality(CallersBelow(x.ix, w))
    <3>1. PICK i \in 1..Len(seqs) : Holds(seqs[i], x)
      BY <2>9, <2>10
    <3>2. PICK m \in Top(w) : m = ixs[i]
      BY <2>2, <2>4
    <3>3. m \in Under(w) /\ \A q \in Under(m) : q \in Under(w)
      BY TopIsBelow
    <3> QED
      BY <2>6, <3>1, <3>2, <3>3 DEF UnnestedPart
  <2>11. ASSUME NEW q \in Decodable, q \in Under(w)
         PROVE  \E x \in Unnested : Holds(FlattenSeq(seqs), x) /\ x.ix = q
    <3>1. \E m \in Top(w) : q \in {m} \cup Under(m)
      BY <2>11, TopCovers
    <3>2. PICK i \in 1..Len(seqs) : q \in {ixs[i]} \cup Under(ixs[i])
      BY <2>1, <2>4, <3>1 DEF Holds
    <3>3. PICK x \in Unnested : Holds(seqs[i], x) /\ x.ix = q
      BY <2>6, <3>2 DEF UnnestedPart
    <3> QED
      BY <2>9, <3>3
  <2> QED
    BY <2>5, <2>9, <2>10, <2>11 DEF UnnestedRight
<1>3. P = Tree
  <2>1. \A w \in Tree : n - w \in Nat
    BY <1>0
  <2>2. rank \in [Tree -> Nat] /\ P \in SUBSET Tree
    BY <2>1
  <2>3. \A w \in Tree : (\A r \in Tree : rank[r] < rank[w] => r \in P) => w \in P
    <3> HIDE DEF rank
    <3> QED
      BY <1>2
  <2>4. Inductive(Tree, rank, P)
    <3> HIDE DEF rank, P
    <3> QED
      BY <2>2, <2>3 DEF Inductive
  <2> QED
    BY <2>4, ByRank
<1>4. v \in P
  BY <1>3
<1> QED
  BY <1>4

\* The list a transaction pipe gives its processor.
LEMMA UnnestedList ==
  ASSUME Ready, NEW list, list = Unnest[0][0]
  PROVE  /\ [k \in DOMAIN list |-> list[k].ix] = InOrder(Decodable)
         /\ \A k \in DOMAIN list :
              list[k].height = Cardinality(Callers(list[k].ix) \cap Decodable)
<1>1. UnnestedRight(list, 0, 0)
  BY UnnestIsRight DEF Tree
<1>2. PICK c \in Nat : c = Len(list)
  BY <1>1 DEF UnnestedRight
<1>3. /\ list \in Seq(Unnested) /\ DOMAIN list = 1..c
      /\ \A k \in 1..c : list[k] \in Unnested /\ Holds(list, list[k])
  <2>1. list \in Seq(Unnested)
    BY <1>1 DEF UnnestedRight
  <2> QED
    BY <1>2, <2>1, LenProperties, ElementOfSeq DEF Holds
<1>4. \A k \in 1..c : /\ list[k].ix \in Decodable
                      /\ list[k].height = 0 + Cardinality(CallersBelow(list[k].ix, 0))
  BY <1>1, <1>3 DEF UnnestedRight
<1> DEFINE ixs == [k \in 1..c |-> list[k].ix]
<1>5. ixs \in Seq(Decodable) /\ Len(ixs) = c
  <2>1. ixs \in [1..c -> Decodable]
    BY <1>4
  <2> HIDE DEF ixs
  <2> QED
    BY <1>2, <2>1
<1>6. Ascending(ixs)
  <2>1. \A i, j \in 1..c : i < j => list[i].ix < list[j].ix
    BY <1>1, <1>2 DEF UnnestedRight, Sorted, EarlierEntry
  <2> QED
    BY <1>5, <2>1 DEF Ascending
<1>7. Decodable \in SUBSET Int /\ \A m \in Decodable : m \in Under(0)
  BY DEF Decodable, Listed, Under
<1>8. \A m \in Decodable : Holds(ixs, m)
  <2> SUFFICES ASSUME NEW m \in Decodable PROVE \E k \in 1..c : list[k].ix = m
    BY <1>5 DEF Holds
  <2>1. PICK x \in Unnested : Holds(list, x) /\ x.ix = m
    BY <1>1, <1>7 DEF UnnestedRight
  <2> QED
    BY <1>2, <2>1 DEF Holds
<1>9. ixs = InOrder(Decodable)
  <2> HIDE DEF ixs
  <2> QED
    BY <1>5, <1>6, <1>7, <1>8, AscendingIsInOrder
<1>10. ASSUME NEW k \in 1..c PROVE list[k].height = Cardinality(Callers(list[k].ix) \cap Decodable)
  <2>1. list[k].ix \in Nat
    BY <1>4 DEF Decodable, Listed
  <2>2. \A q \in Callers(list[k].ix) : q \in Nat /\ q # 0
    BY <2>1, CallersAreBefore
  <2>3. \A q \in Callers(list[k].ix) : q > 0
    BY <2>2
  <2>4. CallersBelow(list[k].ix, 0) = Callers(list[k].ix) \cap Decodable
    BY <2>3 DEF CallersBelow
  <2>5. list[k].height \in Nat
    BY <1>3 DEF Unnested
  <2>6. PICK a : a = Cardinality(CallersBelow(list[k].ix, 0))
    OBVIOUS
  <2>7. a \in Nat
    <3>0. PICK b \in Int : b = list[k].ix - 1
      BY <2>1
    <3>0a. IsFiniteSet(1..b)
      BY FS_Interval
    <3>1. IsFiniteSet(1..(list[k].ix - 1))
      BY <3>0, <3>0a
    <3>2. CallersBelow(list[k].ix, 0) \in SUBSET (1..(list[k].ix - 1))
      BY DEF CallersBelow, Callers
    <3> QED
      BY <2>6, <3>1, <3>2, FS_Subset, FS_CardinalityType
  <2>8. list[k].height = a
    BY <1>4, <2>6, <2>7
  <2> QED
    BY <2>4, <2>6, <2>8
<1> QED
  BY <1>3, <1>9, <1>10
-----------------------------------------------------------------------------
(* The instructions in the pipeline.                                        *)

LevelInv == outcome # "idle" => Leveled

\* The instructions that reach the pipes are at the level their callers put them,
\* so the tree the pipes walk is the one that the heights describe.
THEOREM TransactionsAreLeveled == DispatchSpec => []LevelInv
<1>1. DispatchInit => LevelInv
  BY DEF DispatchInit, LevelInv
<1>2. DispatchInv /\ LevelInv /\ [DispatchNext]_allVars => LevelInv'
  <2> SUFFICES ASSUME DispatchInv, LevelInv, [DispatchNext]_allVars PROVE LevelInv'
    OBVIOUS
  <2>1. CASE outcome' = "idle"
    BY <2>1 DEF LevelInv
  <2>2. CASE outcome # "idle" /\ UNCHANGED vars /\ outcome' # "idle"
    BY <2>2 DEF LevelInv, Leveled, Listed, vars, listVars, treeVars
  <2>3. CASE \E kind \in DOMAIN PipesOf, source \in Sources :
               \E what \in Contents(kind) : Arrive(kind, source, what)
    <3>1. /\ outcome = "idle" /\ heights # "any" /\ UNCHANGED <<heights, n, height, parent>>
      BY <2>3 DEF Arrive
    <3>2. Leveled
      BY <3>1, TreesAreLeveled DEF DispatchInv
    <3>3. Leveled'
      BY <3>1, <3>2 DEF Leveled, Listed
    <3> QED
      BY <3>3 DEF LevelInv
  <2>4. \/ outcome' = "idle"
        \/ outcome # "idle" /\ UNCHANGED vars /\ outcome' # "idle"
        \/ \E kind \in DOMAIN PipesOf, source \in Sources :
             \E what \in Contents(kind) : Arrive(kind, source, what)
    BY DEF DispatchNext, Listing, NextPipe, FilteredOut, RunInstruction, RunWhole, ProcessorFails,
           Count, Calling, allVars, dispatchVars
  <2> QED
    BY <2>1, <2>2, <2>3, <2>4
<1> QED
  BY <1>1, <1>2, DispatchInvariance, PTL DEF DispatchSpec

\* When a transaction pipe's processor is called, there is a transaction.
LEMMA CalledIsReady ==
  ASSUME DispatchInv, LevelInv, NEW pipe \in JustCalled
  PROVE  Ready /\ \E p \in DOMAIN Pipes : pipe = Pipes[p]
<1>1. PICK i \in {Len(handled)} \ {0} : pipe = PipeAt(handled[i].at)
  BY DEF JustCalled
<1>2. outcome = "running" /\ pipe.kind = "transaction"
  BY DEF JustCalled
<1>3. Nested /\ DispatchTypes /\ Leveled
  BY <1>2 DEF DispatchInv, LevelInv
<1>4. handled \in Seq(AllDue) /\ update.kind \in DOMAIN PipesOf
  BY <1>3 DEF DispatchTypes
<1>5. i \in 1..Len(handled)
  BY <1>1, <1>4
<1>6. handled[i] \in AllDue
  BY <1>4, <1>5, ElementOfSeq
<1>7. PipesOf[update.kind] \in Seq(DOMAIN Pipes) /\ handled[i].at \in 1..Len(PipesOf[update.kind])
  BY <1>4, <1>6, PipesOfKinds, LenProperties DEF AllDue
<1>8. PICK k \in 1..Len(PipesOf[update.kind]) : k = handled[i].at
  BY <1>7
<1>9. PipesOf[update.kind][k] \in DOMAIN Pipes /\ pipe = Pipes[PipesOf[update.kind][k]]
  BY <1>1, <1>7, <1>8, ElementOfSeq DEF PipeAt
<1>10. update.kind = "transaction"
  <2>1. IF update.kind = "transaction" THEN pipe.kind \in {"instruction", "transaction"}
        ELSE pipe.kind = update.kind
    BY <1>4, <1>9, PipesOfKinds
  <2> QED
    BY <1>2, <2>1
<1> QED
  BY <1>3, <1>9, <1>10 DEF Ready, DispatchTypes

\* The list a transaction pipe gives its processor is right: for every transaction,
\* however deep, and every collection of decoders.
THEOREM UnnestsAsExecuted == DispatchSpec => []UnnestedAsExecuted
<1>1. DispatchInv /\ LevelInv => UnnestedAsExecuted
  <2> SUFFICES ASSUME DispatchInv, LevelInv, NEW pipe \in JustCalled, NEW list, list = Given(pipe).list
               PROVE  /\ [k \in DOMAIN list |-> list[k].ix] = InOrder(Decodable)
                      /\ \A k \in DOMAIN list :
                           list[k].height = Cardinality(Callers(list[k].ix) \cap Decodable)
    BY DEF UnnestedAsExecuted
  <2>1. Ready /\ list = Unnest[0][0]
    BY CalledIsReady DEF Given
  <2> QED
    BY <2>1, UnnestedList
<1> QED
  BY <1>1, DispatchInvariance, TransactionsAreLeveled, PTL

-----------------------------------------------------------------------------
(* Schemas.                                                                 *)

LEMMA SchemaTypes ==
  /\ DOMAIN Schemas = 1..Len(Schemas) /\ Len(Schemas) \in Nat
  /\ \A s \in DOMAIN Schemas :
       /\ s \in Nat /\ Len(Schemas[s]) \in Nat /\ DOMAIN Schemas[s] = 1..Len(Schemas[s])
       /\ \A i \in Steps(s) : /\ i \in 1..Len(Schemas[s])
                              /\ Schemas[s][i].inner \in Nat
                              /\ Schemas[s][i].inner # 0 =>
                                   Schemas[s][i].inner \in DOMAIN Schemas /\ Schemas[s][i].inner < s
<1>1. DOMAIN Schemas = 1..Len(Schemas) /\ Len(Schemas) \in Nat
  BY SchemasAssumption, LenProperties DEF IsWords
<1>2. ASSUME NEW s \in DOMAIN Schemas
      PROVE  /\ s \in Nat /\ Len(Schemas[s]) \in Nat /\ DOMAIN Schemas[s] = 1..Len(Schemas[s])
             /\ \A i \in DOMAIN Schemas[s] : ~Schemas[s][i].any => Schemas[s][i].inner \in 0..(s - 1)
  <2>1. Schemas[s] \in Seq(Range(Schemas[s]))
    BY SchemasAssumption DEF IsWords
  <2>2. s \in Nat
    BY <1>1
  <2> QED
    BY <2>1, <2>2, SchemasAssumption, LenProperties
<1>3. ASSUME NEW s \in DOMAIN Schemas, NEW i \in Steps(s)
      PROVE  /\ i \in 1..Len(Schemas[s])
             /\ Schemas[s][i].inner \in Nat
             /\ Schemas[s][i].inner # 0 =>
                  Schemas[s][i].inner \in DOMAIN Schemas /\ Schemas[s][i].inner < s
  <2>1. i \in 1..Len(Schemas[s]) /\ Schemas[s][i].inner \in 0..(s - 1) /\ s \in 1..Len(Schemas)
    BY <1>1, <1>2 DEF Steps
  <2>2. PICK t : t = Schemas[s][i].inner
    OBVIOUS
  <2>3. t \in Nat /\ (t # 0 => t \in 1..Len(Schemas) /\ t < s)
    BY <1>1, <2>1, <2>2
  <2> QED
    BY <1>1, <2>1, <2>2, <2>3
<1> QED
  BY <1>1, <1>2, <1>3

\* The lists of the inner nodes of a list.
Inners(s) == {Schemas[s][i].inner : i \in Steps(s)} \ {0}

LEMMA InnersAreEarlier ==
  ASSUME NEW s \in DOMAIN Schemas, NEW t \in Inners(s)
  PROVE  t \in DOMAIN Schemas /\ t \in Nat /\ s \in Nat /\ t < s
<1>1. PICK i \in Steps(s) : t = Schemas[s][i].inner /\ t # 0
  BY DEF Inners
<1> QED
  BY <1>1, SchemaTypes

LEMMA PartsRecursion ==
  /\ Parts \in [DOMAIN Schemas -> SUBSET DOMAIN Schemas]
  /\ \A s \in DOMAIN Schemas : Parts[s] = {s} \cup UNION {Parts[t] : t \in Inners(s)}
<1> DEFINE S == DOMAIN Schemas
           X == SUBSET S
           N == Len(Schemas)
           rank == [s \in S |-> s]
           parts(g, s) == {s} \cup UNION {g[t] : t \in Inners(s)}
           Step1(g) == [s \in S |-> parts(g, s)]
           step == [g \in [S -> X] |-> Step1(g)]
<1>1. N \in Nat /\ S = 1..N /\ \A s \in S : s \in 0..N
  BY SchemaTypes
<1>2. X # {} /\ rank \in [S -> 0..N]
  BY <1>1
<1>3. step \in [[S -> X] -> [S -> X]]
  <2>1. ASSUME NEW g \in [S -> X], NEW s \in S PROVE parts(g, s) \in X
    <3>1. \A t \in Inners(s) : g[t] \in X
      BY InnersAreEarlier
    <3> QED
      BY <3>1
  <2> HIDE DEF X, parts
  <2> QED
    BY <2>1
<1>4. ASSUME NEW g, NEW f, NEW s \in S, \A r \in S : rank[r] < rank[s] => g[r] = f[r]
      PROVE  parts(g, s) = parts(f, s)
  <2>1. \A t \in Inners(s) : g[t] = f[t]
    BY <1>4, InnersAreEarlier
  <2> QED
    BY <2>1
<1>5. Recursive(S, X, N, rank, step)
  <2>1. \A g, h \in [S -> X] : \A s \in S :
          (\A r \in S : rank[r] < rank[s] => g[r] = h[r]) => step[g][s] = step[h][s]
    <3> SUFFICES ASSUME NEW g \in [S -> X], NEW h \in [S -> X], NEW s \in S,
                        \A r \in S : rank[r] < rank[s] => g[r] = h[r]
                 PROVE  step[g][s] = step[h][s]
      OBVIOUS
    <3>1. parts(g, s) = parts(h, s)
      <4> HIDE DEF parts, rank, X, S
      <4> QED
        BY <1>4
    <3> HIDE DEF parts, rank, X, S
    <3> QED
      BY <3>1
  <2> HIDE DEF S, X, rank, step, N
  <2> QED
    BY <1>1, <1>2, <1>3, <2>1 DEF Recursive
<1>6. PICK g \in [S -> X] : step[g] = g
  <2> HIDE DEF S, X, rank, step, N
  <2> QED
    BY <1>5, Recursion
<1>7. g = Step1(g)
  BY <1>6
<1>8. Parts = Step1(Parts)
  <2>1. Parts = CHOOSE f : f = Step1(f)
    BY DEF Parts, Inners
  <2> HIDE DEF Step1
  <2> QED
    BY <1>7, <2>1
<1>9. \A s \in S : Parts[s] = parts(Parts, s) /\ g[s] = parts(g, s)
  <2> HIDE DEF parts
  <2> QED
    BY <1>7, <1>8
<1> DEFINE P == {s \in S : Parts[s] = g[s]}
<1>10. P = S
  <2>1. \A s \in S : (\A r \in S : rank[r] < rank[s] => r \in P) => s \in P
    <3> SUFFICES ASSUME NEW s \in S, \A r \in S : rank[r] < rank[s] => r \in P
                 PROVE  parts(Parts, s) = parts(g, s)
      BY <1>9
    <3>1. \A r \in S : rank[r] < rank[s] => Parts[r] = g[r]
      OBVIOUS
    <3> HIDE DEF parts, rank, P, S
    <3> QED
      BY <1>4, <3>1
  <2>2. rank \in [S -> Nat] /\ P \in SUBSET S
    BY <1>1
  <2>3. Inductive(S, rank, P)
    <3> HIDE DEF rank, P, S
    <3> QED
      BY <2>1, <2>2 DEF Inductive
  <2> QED
    BY <2>3, ByRank
<1>11. Parts = g
  <2>1. \A s \in S : Parts[s] = g[s]
    BY <1>10
  <2>2. Parts = [s \in S |-> Parts[s]]
    <3> HIDE DEF parts
    <3> QED
      BY <1>8
  <2> HIDE DEF X, S
  <2> QED
    BY <2>1, <2>2
<1> QED
  BY <1>6, <1>9, <1>11

\* The parts of a list are those of the inner lists, and itself; and so for the
\* parts of a part.
LEMMA PartsOfParts ==
  ASSUME NEW s \in DOMAIN Schemas, NEW t \in Parts[s]
  PROVE  Parts[t] \subseteq Parts[s] /\ t \in DOMAIN Schemas /\ t \in Parts[t]
<1> DEFINE S == DOMAIN Schemas
           rank == [r \in S |-> r]
           P == {r \in S : \A q \in Parts[r] : Parts[q] \subseteq Parts[r]}
<1>1. rank \in [S -> Nat] /\ P \in SUBSET S
  BY SchemaTypes
<1>2. \A r \in S : (\A q \in S : rank[q] < rank[r] => q \in P) => r \in P
  <2> SUFFICES ASSUME NEW r \in S, \A q \in S : q < r => q \in P, NEW q \in Parts[r]
               PROVE  Parts[q] \subseteq Parts[r]
    OBVIOUS
  <2>1. Parts[r] = {r} \cup UNION {Parts[u] : u \in Inners(r)}
    BY PartsRecursion
  <2>2. CASE q = r
    BY <2>2
  <2>3. CASE q # r
    <3>1. PICK u \in Inners(r) : q \in Parts[u]
      BY <2>1, <2>3
    <3>2. u \in P
      BY InnersAreEarlier
    <3>3. Parts[q] \subseteq Parts[u]
      BY <3>1, <3>2
    <3> QED
      BY <2>1, <3>1, <3>3
  <2> QED
    BY <2>2, <2>3
<1>3. P = S
  <2>1. Inductive(S, rank, P)
    <3> HIDE DEF S, rank, P
    <3> QED
      BY <1>1, <1>2 DEF Inductive
  <2> QED
    BY <2>1, ByRank
<1>4. Parts[s] \in SUBSET S
  BY PartsRecursion
<1>5. t \in Parts[t]
  BY <1>4, PartsRecursion
<1> QED
  BY <1>3, <1>4, <1>5

\* The names of a list: those of its steps, each with what is named inside.
LEMMA NamesOfSteps ==
  ASSUME NEW s \in DOMAIN Schemas
  PROVE  Names(s) = UNION {NamedBy(Schemas[s][i]) : i \in Steps(s)}
<1>1. Parts[s] = {s} \cup UNION {Parts[t] : t \in Inners(s)}
  BY PartsRecursion
<1>2. Names(s) = OwnNames(s) \cup UNION {Names(t) : t \in Inners(s)}
  BY <1>1 DEF Names
<1>3. UNION {Names(t) : t \in Inners(s)} =
        UNION {IF Schemas[s][i].inner = 0 THEN {} ELSE Names(Schemas[s][i].inner) : i \in Steps(s)}
  <2> HIDE DEF Names
  <2> QED
    BY DEF Inners
<1> QED
  BY <1>2, <1>3 DEF OwnNames, NamedBy

\* The longest list.
LEMMA SchemasBounded == \E w \in Nat : \A s \in DOMAIN Schemas : Len(Schemas[s]) <= w
<1>1. PICK c \in Nat : c = Len(Schemas) /\ DOMAIN Schemas = 1..c
  BY SchemaTypes
<1>2. \A s \in 1..c : Len(Schemas[s]) \in Nat
  BY <1>1, SchemaTypes
<1> DEFINE P == {k \in 1..c : \E w \in Nat : \A s \in 1..k : Len(Schemas[s]) <= w}
<1>3. \A k \in 1..c : (k # 1 => k - 1 \in P) => k \in P
  <2> SUFFICES ASSUME NEW k \in 1..c, k # 1 => k - 1 \in P
               PROVE  \E w \in Nat : \A s \in 1..k : Len(Schemas[s]) <= w
    OBVIOUS
  <2>1. PICK w \in Nat : k # 1 => \A s \in 1..(k - 1) : Len(Schemas[s]) <= w
    OBVIOUS
  <2>2. PICK l \in Nat : l = Len(Schemas[k])
    BY <1>2
  <2>3. \A s \in 1..k : s = k \/ (k # 1 /\ s \in 1..(k - 1))
    OBVIOUS
  <2>4. \A s \in 1..k : Len(Schemas[s]) <= w + l
    <3> SUFFICES ASSUME NEW s \in 1..k PROVE Len(Schemas[s]) <= w + l
      OBVIOUS
    <3>1. Len(Schemas[s]) \in Nat /\ (Len(Schemas[s]) = l \/ Len(Schemas[s]) <= w)
      BY <1>2, <2>1, <2>2, <2>3
    <3> QED
      BY <3>1
  <2>5. w + l \in Nat
    OBVIOUS
  <2> QED
    BY <2>4, <2>5
<1>4. P = 1..c
  <2>1. P \in SUBSET (1..c)
    OBVIOUS
  <2> HIDE DEF P
  <2> QED
    BY <1>3, <2>1, UpTo
<1>5. CASE c = 0
  BY <1>1, <1>5
<1>6. CASE c # 0
  <2>0. c \in 1..c
    BY <1>6
  <2>1. c \in P
    BY <1>4, <2>0
  <2> QED
    BY <1>1, <2>1
<1> QED
  BY <1>5, <1>6

-----------------------------------------------------------------------------
(* Matching.                                                                *)

\* The instructions parsed below a caller are those it called, by place.
LEMMA ParsedPlaces ==
  ASSUME Ready, NEW v \in {0} \cup Decodable
  PROVE  /\ v \in Tree
         /\ ParsedBelow[v] \in Seq(CalledBy(v)) /\ Len(ParsedBelow[v]) \in Nat
         /\ \A k \in 1..Len(ParsedBelow[v]) :
              ParsedBelow[v][k] \in CalledBy(v) /\ Place(v, ParsedBelow[v][k]) = k
         /\ \A m \in CalledBy(v) :
              Place(v, m) \in 1..Len(ParsedBelow[v]) /\ ParsedBelow[v][Place(v, m)] = m
<1>1. v \in Tree /\ v \in Nat /\ n \in Nat /\ Decodable \subseteq Listed
  BY DEF Ready, Nested, Tree, Decodable, Listed
<1>2. CalledBy(v) = Top(v)
  <2> SUFFICES ASSUME NEW m \in Decodable PROVE m \in CalledBy(v) <=> m \in Top(v)
    BY DEF CalledBy, Top
  <2>1. m \in Nat /\ m \in Listed /\ \A q \in Callers(m) : q \in Nat /\ q # 0
    BY <1>1, CallersAreBefore DEF Listed
  <2>2. m \in Top(v) <=> v \in {0} \cup Callers(m) /\ \A q \in Callers(m) \cap Decodable : q <= v
    BY <2>1 DEF Top, Under
  <2>3. m \in CalledBy(v) <=> {q \in {0} \cup (Callers(m) \cap Decodable) : q >= v} = {v}
    BY DEF CalledBy
  <2>4. ASSUME v \in {0} \cup Callers(m), \A q \in Callers(m) \cap Decodable : q <= v
        PROVE  {q \in {0} \cup (Callers(m) \cap Decodable) : q >= v} = {v}
    <3>1. v \in {0} \cup (Callers(m) \cap Decodable) /\ v >= v
      BY <1>1, <2>1, <2>4
    <3>2. ASSUME NEW q \in {0} \cup (Callers(m) \cap Decodable), q >= v PROVE q = v
      BY <1>1, <2>1, <2>4, <3>2
    <3> QED
      BY <3>1, <3>2
  <2>5. ASSUME {q \in {0} \cup (Callers(m) \cap Decodable) : q >= v} = {v}
        PROVE  v \in {0} \cup Callers(m) /\ \A q \in Callers(m) \cap Decodable : q <= v
    <3>1. v \in {0} \cup (Callers(m) \cap Decodable)
      BY <2>5
    <3>2. ASSUME NEW q \in Callers(m) \cap Decodable PROVE q <= v
      <4>1. q >= v => q = v
        BY <2>5
      <4> QED
        BY <1>1, <2>1, <4>1
    <3> QED
      BY <3>1, <3>2
  <2> QED
    BY <2>2, <2>3, <2>4, <2>5
<1>3. PICK S : S = CalledBy(v)
  OBVIOUS
<1>4. PICK ixs : ixs = ParsedBelow[v]
  OBVIOUS
<1>5. ixs \in Seq(Listed) /\ Ascending(ixs) /\ \A m : Holds(ixs, m) <=> m \in S
  BY <1>1, <1>2, <1>3, <1>4, ParsedIsTop
<1>6. S \in SUBSET Int
  BY <1>3 DEF CalledBy, Decodable, Listed
<1>7. ixs \in Seq(S)
  <2>1. \A k \in 1..Len(ixs) : ixs[k] \in S
    BY <1>5 DEF Holds
  <2>2. Len(ixs) \in Nat /\ DOMAIN ixs = 1..Len(ixs) /\ ixs = [k \in 1..Len(ixs) |-> ixs[k]]
    BY <1>5, LenProperties
  <2>3. ixs \in [1..Len(ixs) -> S]
    BY <2>1, <2>2
  <2> QED
    BY <2>2, <2>3
<1>8. \A k \in 1..Len(ixs) : RankIn(S, ixs[k]) = k
  BY <1>5, <1>6, <1>7, AscendingIsInOrder
<1>9. \A m : Place(v, m) = RankIn(S, m)
  BY <1>3 DEF Place, RankIn
<1>10. \A m \in S : \E k \in 1..Len(ixs) : ixs[k] = m
  BY <1>5 DEF Holds
<1>11. \A k \in 1..Len(ixs) : ixs[k] \in S
  BY <1>5 DEF Holds
<1>12. Len(ixs) \in Nat
  BY <1>5
<1>13. \A k \in 1..Len(ixs) : ixs[k] \in S /\ Place(v, ixs[k]) = k
  BY <1>8, <1>9, <1>11
<1>14. \A m \in S : Place(v, m) \in 1..Len(ixs) /\ ixs[Place(v, m)] = m
  BY <1>10, <1>13
<1> QED
  BY <1>1, <1>3, <1>4, <1>7, <1>12, <1>13, <1>14

\* The calls match_nodes makes.
MatchCalls(x) ==
  LET nodes == Schemas[x.schema]
      ixs   == ParsedBelow[x.caller]
      node  == nodes[x.node]
  IN {y \in Positions :
        /\ x.node <= Len(nodes)
        /\ \/ node.any /\ y = [x EXCEPT !.node = @ + 1, !.any = TRUE]
           \/ /\ ~node.any /\ x.ix <= Len(ixs)
              /\ \/ y = [x EXCEPT !.node = @ + 1, !.ix = @ + 1, !.any = FALSE]
                 \/ y = [x EXCEPT !.ix = @ + 1]
                 \/ node.inner # 0 /\ y = FirstPosition(node.inner, ixs[x.ix])}

\* The positions that follow one.
LEMMA NextPositions ==
  ASSUME NEW x \in Positions
  PROVE  /\ [x EXCEPT !.node = @ + 1, !.any = TRUE] \in Positions
         /\ [x EXCEPT !.node = @ + 1, !.ix = @ + 1, !.any = FALSE] \in Positions
         /\ [x EXCEPT !.ix = @ + 1] \in Positions
<1>1. /\ x.schema \in DOMAIN Schemas /\ x.caller \in Tree
      /\ x.node \in Nat \ {0} /\ x.ix \in Nat \ {0} /\ x.any \in BOOLEAN
      /\ x = [schema |-> x.schema, caller |-> x.caller, node |-> x.node, ix |-> x.ix, any |-> x.any]
  BY DEF Positions
<1>2. PICK a \in Nat \ {0}, b \in Nat \ {0} : a = x.node + 1 /\ b = x.ix + 1
  BY <1>1
<1>3. /\ [x EXCEPT !.node = a, !.any = TRUE] \in Positions
      /\ [x EXCEPT !.node = a, !.ix = b, !.any = FALSE] \in Positions
      /\ [x EXCEPT !.ix = b] \in Positions
  BY <1>1 DEF Positions
<1> QED
  BY <1>2, <1>3

\* They are positions, if there is what they are about.
LEMMA CallsArePositions ==
  ASSUME Ready, NEW x \in Positions, x.node <= Len(Schemas[x.schema])
  PROVE  /\ x.node \in DOMAIN Schemas[x.schema]
         /\ Schemas[x.schema][x.node].any => [x EXCEPT !.node = @ + 1, !.any = TRUE] \in MatchCalls(x)
         /\ ~Schemas[x.schema][x.node].any /\ x.ix <= Len(ParsedBelow[x.caller]) =>
              /\ ParsedBelow[x.caller][x.ix] \in Listed
              /\ ParsedBelow[x.caller][x.ix] \in Top(x.caller)
              /\ [x EXCEPT !.node = @ + 1, !.ix = @ + 1, !.any = FALSE] \in MatchCalls(x)
              /\ [x EXCEPT !.ix = @ + 1] \in MatchCalls(x)
              /\ Schemas[x.schema][x.node].inner # 0 =>
                   FirstPosition(Schemas[x.schema][x.node].inner, ParsedBelow[x.caller][x.ix])
                     \in MatchCalls(x)
<1> DEFINE nodes == Schemas[x.schema]
           ixs   == ParsedBelow[x.caller]
           node  == nodes[x.node]
<1>1. /\ x.schema \in DOMAIN Schemas /\ x.caller \in Tree
      /\ x.node \in Nat \ {0} /\ x.ix \in Nat \ {0} /\ x.any \in BOOLEAN
  BY DEF Positions
<1>2. Len(nodes) \in Nat /\ DOMAIN nodes = 1..Len(nodes)
  BY <1>1, SchemaTypes
<1>3. x.node \in DOMAIN nodes
  BY <1>1, <1>2
<1>4. node.any => [x EXCEPT !.node = @ + 1, !.any = TRUE] \in MatchCalls(x)
  <2>1. [x EXCEPT !.node = @ + 1, !.any = TRUE] \in Positions
    BY NextPositions
  <2> QED
    BY <2>1 DEF MatchCalls
<1>5. ASSUME ~node.any, x.ix <= Len(ixs)
      PROVE  /\ ixs[x.ix] \in Listed /\ ixs[x.ix] \in Top(x.caller)
             /\ [x EXCEPT !.node = @ + 1, !.ix = @ + 1, !.any = FALSE] \in MatchCalls(x)
             /\ [x EXCEPT !.ix = @ + 1] \in MatchCalls(x)
             /\ node.inner # 0 => FirstPosition(node.inner, ixs[x.ix]) \in MatchCalls(x)
  <2>1. ixs \in Seq(Listed) /\ Len(ixs) \in Nat /\ \A m : Holds(ixs, m) <=> m \in Top(x.caller)
    BY <1>1, ParsedIsTop
  <2>2. x.ix \in 1..Len(ixs)
    BY <1>1, <1>5, <2>1
  <2>3. ixs[x.ix] \in Listed /\ ixs[x.ix] \in Top(x.caller)
    BY <2>1, <2>2, ElementOfSeq DEF Holds
  <2>4. /\ [x EXCEPT !.node = @ + 1, !.ix = @ + 1, !.any = FALSE] \in Positions
        /\ [x EXCEPT !.ix = @ + 1] \in Positions
    BY NextPositions
  <2>5. node.inner # 0 => FirstPosition(node.inner, ixs[x.ix]) \in Positions
    <3>1. x.node \in Steps(x.schema)
      BY <1>3, <1>5 DEF Steps
    <3>2. node.inner # 0 => node.inner \in DOMAIN Schemas
      BY <1>1, <3>1, SchemaTypes
    <3>3. ixs[x.ix] \in Tree
      BY <2>3 DEF Tree
    <3> HIDE DEF ixs, node
    <3> QED
      BY <3>2, <3>3 DEF Positions, FirstPosition
  <2>6. [x EXCEPT !.node = @ + 1, !.ix = @ + 1, !.any = FALSE] \in MatchCalls(x)
    BY <1>5, <2>4 DEF MatchCalls
  <2>7. [x EXCEPT !.ix = @ + 1] \in MatchCalls(x)
    BY <1>5, <2>4 DEF MatchCalls
  <2>8. node.inner # 0 => FirstPosition(node.inner, ixs[x.ix]) \in MatchCalls(x)
    BY <1>5, <2>5 DEF MatchCalls
  <2> QED
    BY <2>3, <2>6, <2>7, <2>8
<1> QED
  BY <1>3, <1>4, <1>5

\* What a call gives depends only on the calls it makes.
LEMMA MatchLooksAtCalls ==
  ASSUME Ready, NEW x \in Positions, NEW g, NEW h, \A y \in MatchCalls(x) : g[y] = h[y]
  PROVE  MatchNodes(g, x) = MatchNodes(h, x)
<1> DEFINE nodes == Schemas[x.schema]
           ixs   == ParsedBelow[x.caller]
           node  == nodes[x.node]
<1>0. x.node \in Nat /\ x.ix \in Nat /\ Len(nodes) \in Nat /\ Len(ixs) \in Nat
  BY SchemaTypes, ParsedIsTop DEF Positions
<1>1. CASE x.node > Len(nodes)
  BY <1>1 DEF MatchNodes
<1>2. CASE x.node <= Len(nodes) /\ node.any
  <2>1. g[[x EXCEPT !.node = @ + 1, !.any = TRUE]] = h[[x EXCEPT !.node = @ + 1, !.any = TRUE]]
    BY <1>2, CallsArePositions
  <2>2. ~(x.node > Len(nodes))
    BY <1>0, <1>2
  <2> QED
    BY <1>2, <2>1, <2>2 DEF MatchNodes
<1>3. CASE x.node <= Len(nodes) /\ ~node.any /\ x.ix > Len(ixs)
  BY <1>0, <1>3 DEF MatchNodes
<1>4. CASE x.node <= Len(nodes) /\ ~node.any /\ x.ix <= Len(ixs)
  <2>1. /\ g[[x EXCEPT !.node = @ + 1, !.ix = @ + 1, !.any = FALSE]]
             = h[[x EXCEPT !.node = @ + 1, !.ix = @ + 1, !.any = FALSE]]
        /\ g[[x EXCEPT !.ix = @ + 1]] = h[[x EXCEPT !.ix = @ + 1]]
        /\ node.inner # 0 => g[FirstPosition(node.inner, ixs[x.ix])] = h[FirstPosition(node.inner, ixs[x.ix])]
    BY <1>4, CallsArePositions
  <2>2. MatchInner(g, node.inner, ixs[x.ix]) = MatchInner(h, node.inner, ixs[x.ix])
    BY <2>1 DEF MatchInner
  <2>3. Matched(g, x) = Matched(h, x)
    BY <2>1, <2>2 DEF Matched, MatchedThen
  <2>4. Skipped(g, x) = Skipped(h, x)
    BY <2>1 DEF Skipped
  <2>5. ~(x.node > Len(nodes)) /\ ~(x.ix > Len(ixs))
    BY <1>0, <1>4
  <2> QED
    BY <1>4, <2>3, <2>4, <2>5 DEF MatchNodes
<1> QED
  BY <1>0, <1>1, <1>2, <1>3, <1>4

LEMMA ParsedBounded ==
  ASSUME Ready, NEW v \in Tree
  PROVE  Len(ParsedBelow[v]) \in Nat /\ Len(ParsedBelow[v]) <= n
<1>1. PICK s : s = ParsedBelow[v]
  OBVIOUS
<1>2. PICK S : S = {m \in Listed : Holds(s, m)}
  OBVIOUS
<1>3. s \in Seq(Listed) /\ Ascending(s) /\ Len(s) \in Nat
  BY <1>1, ParsedIsTop
<1>4. s \in Seq(S)
  <2>1. \A k \in 1..Len(s) : s[k] \in S
    BY <1>2, <1>3, ElementOfSeq DEF Holds
  <2>2. s = [k \in 1..Len(s) |-> s[k]]
    BY <1>3, LenProperties
  <2>3. s \in [1..Len(s) -> S]
    BY <2>1, <2>2
  <2> QED
    BY <1>3, <2>3
<1>5. n \in Nat /\ IsFiniteSet(Listed) /\ Cardinality(Listed) = n /\ S \in SUBSET Listed /\ S \in SUBSET Int
  BY <1>2, FS_Interval DEF Listed, Ready, Nested
<1>6. Cardinality(S) = Len(s)
  BY <1>2, <1>3, <1>4, <1>5, AscendingIsInOrder
<1>7. Cardinality(S) <= n
  BY <1>5, FS_Subset
<1> QED
  BY <1>1, <1>3, <1>6, <1>7

LEMMA Multiples ==
  ASSUME NEW a \in Nat, NEW b \in Nat, NEW w \in Nat, a < b
  PROVE  a * w \in Nat /\ b * w \in Nat /\ a * w + w <= b * w
<1>1. PICK d \in Nat : b = a + 1 + d
  <2>1. b - a - 1 \in Nat /\ b = a + 1 + (b - a - 1)
    OBVIOUS
  <2> QED
    BY <2>1
<1>2. b * w = a * w + w + d * w
  BY <1>1
<1>3. a * w \in Nat /\ d * w \in Nat
  OBVIOUS
<1> QED
  BY <1>2, <1>3

\* No call of match_nodes goes on for ever: the calls it makes are for an earlier
\* list, or further on in the list or among the instructions.
LEMMA MatchEnds ==
  ASSUME Ready
  PROVE  \E top \in Nat : \E rank \in [Positions -> 0..top] :
           \A x \in Positions : \A y \in MatchCalls(x) : rank[y] < rank[x]
<1>0. n \in Nat
  BY DEF Ready, Nested
<1>1. PICK w \in Nat : \A s \in DOMAIN Schemas : Len(Schemas[s]) <= w
  BY SchemasBounded
<1> DEFINE W == w + n + 1
           Left(bound, i) == IF i <= bound THEN bound + 1 - i ELSE 0
           Size(x) == Left(w, x.node) + Left(n, x.ix)
           top == (Len(Schemas) + 1) * W
           rank == [x \in Positions |-> x.schema * W + Size(x)]
<1>2. W \in Nat /\ Len(Schemas) \in Nat /\ Len(Schemas) + 1 \in Nat
  BY <1>0, SchemaTypes
<1>3. ASSUME NEW x \in Positions
      PROVE  /\ x.schema \in Nat /\ x.schema < Len(Schemas) + 1
             /\ Size(x) \in Nat /\ Size(x) < W
             /\ x.node \in Nat \ {0} /\ x.ix \in Nat \ {0}
             /\ Left(w, x.node) \in Nat /\ Left(n, x.ix) \in Nat
  <2>1. /\ x.schema \in 1..Len(Schemas)
        /\ x.node \in Nat \ {0} /\ x.ix \in Nat \ {0}
    BY SchemaTypes DEF Positions
  <2>2. Left(w, x.node) \in 0..w /\ Left(n, x.ix) \in 0..n
    BY <1>0, <2>1
  <2> HIDE DEF Left
  <2> QED
    BY <1>0, <1>2, <2>1, <2>2
<1>3a. ASSUME NEW b \in Nat, NEW i \in Nat \ {0}
       PROVE  Left(b, i + 1) <= Left(b, i) /\ (i <= b => Left(b, i + 1) < Left(b, i))
  OBVIOUS
<1> HIDE DEF W, Size, Left
<1>4. ASSUME NEW x \in Positions
      PROVE  x.schema * W \in Nat /\ x.schema * W + Size(x) \in 0..top
  <2>1. x.schema * W \in Nat /\ top \in Nat /\ x.schema * W + W <= top
    BY <1>2, <1>3, Multiples
  <2> HIDE DEF top
  <2> QED
    BY <1>2, <1>3, <2>1
<1>5. rank \in [Positions -> 0..top] /\ top \in Nat
  <2>1. top \in Nat
    BY <1>2
  <2> HIDE DEF top
  <2> QED
    BY <1>4, <2>1
<1>6. ASSUME NEW x \in Positions, NEW y \in MatchCalls(x) PROVE rank[y] < rank[x]
  <2>0. y \in Positions /\ rank[x] = x.schema * W + Size(x) /\ rank[y] = y.schema * W + Size(y)
    BY DEF MatchCalls
  <2>1. x.node <= Len(Schemas[x.schema])
    BY DEF MatchCalls
  <2>2. x.schema \in DOMAIN Schemas /\ x.caller \in Tree
    BY DEF Positions
  <2>2a. /\ Left(w, y.node) \in Nat /\ Left(n, y.ix) \in Nat
         /\ Left(w, x.node) \in Nat /\ Left(n, x.ix) \in Nat
         /\ x.node \in Nat \ {0} /\ x.ix \in Nat \ {0}
    BY <1>3, <2>0
  <2>3. x.node <= w
    BY <1>1, <1>3, <2>1, <2>2, SchemaTypes
  <2>4. CASE y.schema = x.schema /\ Size(y) < Size(x)
    BY <1>3, <1>4, <2>0, <2>4
  <2>5. CASE y.schema < x.schema
    <3>1. y.schema * W + W <= x.schema * W /\ y.schema * W \in Nat /\ x.schema * W \in Nat
      BY <1>2, <1>3, <2>0, <2>5, Multiples
    <3>2. Size(y) \in Nat /\ Size(y) < W /\ Size(x) \in Nat /\ W \in Nat
      BY <1>2, <1>3, <2>0
    <3>3. PICK a \in Nat, b \in Nat : a = x.schema * W /\ b = y.schema * W
      BY <3>1
    <3>4. b + Size(y) < a + Size(x)
      BY <3>1, <3>2, <3>3
    <3> HIDE DEF top, rank
    <3> QED
      BY <2>0, <3>3, <3>4
  <2>6. (y.schema = x.schema /\ Size(y) < Size(x)) \/ y.schema < x.schema
    <3> DEFINE node == Schemas[x.schema][x.node]
               ixs == ParsedBelow[x.caller]
    <3>1. CASE node.any /\ y = [x EXCEPT !.node = @ + 1, !.any = TRUE]
      <4>1. y.schema = x.schema /\ y.node = x.node + 1 /\ y.ix = x.ix
        BY <3>1 DEF Positions
      <4>2. Left(w, y.node) < Left(w, x.node) /\ Left(n, y.ix) = Left(n, x.ix)
        BY <1>3a, <2>2a, <2>3, <4>1
      <4>3. Size(y) < Size(x)
        BY <2>2a, <4>2 DEF Size
      <4> QED
        BY <4>1, <4>3
    <3>2. CASE ~node.any /\ x.ix <= Len(ixs)
      <4>1. x.ix <= n
        BY <1>0, <1>3, <2>2, <3>2, ParsedBounded
      <4>2. CASE y = [x EXCEPT !.node = @ + 1, !.ix = @ + 1, !.any = FALSE]
        <5>1. y.schema = x.schema /\ y.node = x.node + 1 /\ y.ix = x.ix + 1
          BY <4>2 DEF Positions
        <5>2. Left(w, y.node) < Left(w, x.node) /\ Left(n, y.ix) < Left(n, x.ix)
          BY <1>0, <1>3a, <2>2a, <2>3, <4>1, <5>1
        <5>3. Size(y) < Size(x)
          BY <2>2a, <5>2 DEF Size
        <5> QED
          BY <5>1, <5>3
      <4>3. CASE y = [x EXCEPT !.ix = @ + 1]
        <5>1. y.schema = x.schema /\ y.node = x.node /\ y.ix = x.ix + 1
          BY <4>3 DEF Positions
        <5>2. Left(w, y.node) = Left(w, x.node) /\ Left(n, y.ix) < Left(n, x.ix)
          BY <1>0, <1>3a, <2>2a, <4>1, <5>1
        <5>3. Size(y) < Size(x)
          BY <2>2a, <5>2 DEF Size
        <5> QED
          BY <5>1, <5>3
      <4>4. CASE node.inner # 0 /\ y = FirstPosition(node.inner, ixs[x.ix])
        <5>1. x.node \in Steps(x.schema)
          BY <2>1, <2>2, <3>2, CallsArePositions DEF Steps, Ready
        <5>2. node.inner < x.schema
          BY <2>2, <4>4, <5>1, SchemaTypes
        <5>3. y.schema = node.inner
          BY <4>4 DEF FirstPosition
        <5> QED
          BY <5>2, <5>3
      <4> QED
        BY <3>2, <4>2, <4>3, <4>4 DEF MatchCalls
    <3> QED
      BY <3>1, <3>2 DEF MatchCalls
  <2> QED
    BY <2>4, <2>5, <2>6
<1> HIDE DEF rank, top
<1> QED
  BY <1>5, <1>6

\* What holds at a position if it holds at those it calls holds at every position.
LEMMA MatchInduction ==
  ASSUME Ready, NEW P \in SUBSET Positions, \A x \in Positions : MatchCalls(x) \subseteq P => x \in P
  PROVE  P = Positions
<1>1. PICK top \in Nat : \E rank \in [Positions -> 0..top] :
        \A x \in Positions : \A y \in MatchCalls(x) : rank[y] < rank[x]
  BY MatchEnds
<1>2. PICK rank \in [Positions -> 0..top] :
        \A x \in Positions : \A y \in MatchCalls(x) : rank[y] < rank[x]
  BY <1>1
<1>3. \A x \in Positions : MatchCalls(x) \subseteq Positions
  BY DEF MatchCalls
<1>4. \A x \in Positions : (\A r \in Positions : rank[r] < rank[x] => r \in P) => x \in P
  BY <1>2, <1>3
<1>5. rank \in [Positions -> Nat]
  OBVIOUS
<1>6. Inductive(Positions, rank, P)
  BY <1>4, <1>5 DEF Inductive
<1> QED
  BY <1>6, ByRank

\* The maps from names to instructions.
AllNames == UNION {OwnNames(s) : s \in DOMAIN Schemas}
NameMaps == UNION {[D -> Listed] : D \in SUBSET AllNames}

LEMMA MapsMerge ==
  ASSUME NEW f \in NameMaps, NEW g \in NameMaps
  PROVE  MergeHashmaps(f, g) \in NameMaps
<1>1. PICK D \in SUBSET AllNames, E \in SUBSET AllNames : f \in [D -> Listed] /\ g \in [E -> Listed]
  BY DEF NameMaps
<1>2. MergeHashmaps(f, g) \in [D \cup E -> Listed]
  BY <1>1 DEF MergeHashmaps
<1>3. D \cup E \in SUBSET AllNames
  OBVIOUS
<1> QED
  BY <1>2, <1>3 DEF NameMaps

LEMMA MatchType ==
  ASSUME Ready, NEW g \in [Positions -> SUBSET NameMaps], NEW x \in Positions
  PROVE  MatchNodes(g, x) \in SUBSET NameMaps
<1> DEFINE nodes == Schemas[x.schema]
           ixs   == ParsedBelow[x.caller]
           node  == nodes[x.node]
<1>0. /\ x.node \in Nat /\ x.ix \in Nat /\ Len(nodes) \in Nat /\ Len(ixs) \in Nat
      /\ x.schema \in DOMAIN Schemas
  BY SchemaTypes, ParsedIsTop DEF Positions
<1>1. NoNames \in NameMaps
  <2>1. NoNames \in [{} -> Listed] /\ {} \in SUBSET AllNames
    BY DEF NoNames
  <2> QED
    BY <2>1 DEF NameMaps
<1>2. \A y \in MatchCalls(x) : y \in Positions /\ g[y] \in SUBSET NameMaps
  BY DEF MatchCalls
<1>3. CASE x.node > Len(nodes)
  BY <1>1, <1>3 DEF MatchNodes
<1>4. CASE x.node <= Len(nodes) /\ node.any
  <2>1. g[[x EXCEPT !.node = @ + 1, !.any = TRUE]] \in SUBSET NameMaps
    BY <1>2, <1>4, CallsArePositions
  <2>2. ~(x.node > Len(nodes))
    BY <1>0, <1>4
  <2> QED
    BY <1>4, <2>1, <2>2 DEF MatchNodes
<1>5. CASE x.node <= Len(nodes) /\ ~node.any /\ x.ix > Len(ixs)
  BY <1>0, <1>5 DEF MatchNodes
<1>6. CASE x.node <= Len(nodes) /\ ~node.any /\ x.ix <= Len(ixs)
  <2>1. /\ g[[x EXCEPT !.node = @ + 1, !.ix = @ + 1, !.any = FALSE]] \in SUBSET NameMaps
        /\ g[[x EXCEPT !.ix = @ + 1]] \in SUBSET NameMaps
        /\ node.inner # 0 => g[FirstPosition(node.inner, ixs[x.ix])] \in SUBSET NameMaps
        /\ ixs[x.ix] \in Listed
    BY <1>2, <1>6, CallsArePositions
  <2>2. MatchInner(g, node.inner, ixs[x.ix]) \in SUBSET NameMaps
    BY <1>1, <2>1 DEF MatchInner
  <2>3. [name \in {node.name} |-> ixs[x.ix]] \in NameMaps
    <3>1. x.node \in Steps(x.schema)
      BY <1>6, CallsArePositions DEF Steps
    <3>2. node.name \in AllNames
      BY <1>0, <3>1 DEF AllNames, OwnNames
    <3>3. [name \in {node.name} |-> ixs[x.ix]] \in [{node.name} -> Listed]
      BY <2>1
    <3>4. {node.name} \in SUBSET AllNames
      BY <3>2
    <3> QED
      BY <3>3, <3>4 DEF NameMaps
  <2>4. Matched(g, x) \in SUBSET NameMaps
    <3>1. \A rest \in g[[x EXCEPT !.node = @ + 1, !.ix = @ + 1, !.any = FALSE]] :
            \A inner \in MatchInner(g, node.inner, ixs[x.ix]) :
              MergeHashmaps(MergeHashmaps([name \in {node.name} |-> ixs[x.ix]], inner), rest) \in NameMaps
      <4> SUFFICES ASSUME NEW rest \in NameMaps, NEW inner \in NameMaps
                   PROVE  MergeHashmaps(MergeHashmaps([name \in {node.name} |-> ixs[x.ix]], inner), rest) \in NameMaps
        BY <2>1, <2>2
      <4>1. MergeHashmaps([name \in {node.name} |-> ixs[x.ix]], inner) \in NameMaps
        BY <2>3, MapsMerge
      <4> QED
        BY <4>1, MapsMerge
    <3> QED
      BY <3>1 DEF Matched, MatchedThen
  <2>5. Skipped(g, x) \in SUBSET NameMaps
    BY <2>1 DEF Skipped
  <2>6. ~(x.node > Len(nodes)) /\ ~(x.ix > Len(ixs))
    BY <1>0, <1>6
  <2> QED
    BY <1>6, <2>4, <2>5, <2>6 DEF MatchNodes
<1> QED
  BY <1>0, <1>3, <1>4, <1>5, <1>6

LEMMA MatchRecursion ==
  ASSUME Ready
  PROVE  \A x \in Positions : Match[x] = MatchNodes(Match, x) /\ Match[x] \in SUBSET NameMaps
<1> DEFINE X == SUBSET NameMaps
           Step1(g) == [x \in Positions |-> MatchNodes(g, x)]
           step == [g \in [Positions -> X] |-> Step1(g)]
<1>1. PICK top \in Nat : \E rank \in [Positions -> 0..top] :
        \A x \in Positions : \A y \in MatchCalls(x) : rank[y] < rank[x]
  BY MatchEnds
<1>2. PICK rank \in [Positions -> 0..top] :
        \A x \in Positions : \A y \in MatchCalls(x) : rank[y] < rank[x]
  BY <1>1
<1>3. step \in [[Positions -> X] -> [Positions -> X]]
  BY MatchType
<1>4. \A g, h \in [Positions -> X] : \A x \in Positions :
        (\A r \in Positions : rank[r] < rank[x] => g[r] = h[r]) => step[g][x] = step[h][x]
  <2> SUFFICES ASSUME NEW g \in [Positions -> X], NEW h \in [Positions -> X], NEW x \in Positions,
                      \A r \in Positions : rank[r] < rank[x] => g[r] = h[r]
               PROVE  MatchNodes(g, x) = MatchNodes(h, x)
    OBVIOUS
  <2>1. \A y \in MatchCalls(x) : y \in Positions
    BY DEF MatchCalls
  <2>2. \A y \in MatchCalls(x) : g[y] = h[y]
    BY <1>2, <2>1
  <2> QED
    BY <2>2, MatchLooksAtCalls
<1>5. Recursive(Positions, X, top, rank, step)
  <2>1. X # {}
    OBVIOUS
  <2> HIDE DEF X, step
  <2> QED
    BY <1>3, <1>4, <2>1 DEF Recursive
<1>6. PICK g \in [Positions -> X] : step[g] = g
  <2> HIDE DEF X, step
  <2> QED
    BY <1>5, Recursion
<1>7. g = Step1(g)
  BY <1>6
<1>8. Match = Step1(Match)
  <2>1. Match = CHOOSE f : f = Step1(f)
    BY DEF Match
  <2> HIDE DEF Step1
  <2> QED
    BY <1>7, <2>1
<1>9. \A x \in Positions : Match[x] = MatchNodes(Match, x) /\ g[x] = MatchNodes(g, x)
  BY <1>7, <1>8
<1> DEFINE P == {x \in Positions : Match[x] = g[x]}
<1>10. P = Positions
  <2>1. \A x \in Positions : MatchCalls(x) \subseteq P => x \in P
    <3> SUFFICES ASSUME NEW x \in Positions, MatchCalls(x) \subseteq P
                 PROVE  MatchNodes(Match, x) = MatchNodes(g, x)
      BY <1>9
    <3>1. \A y \in MatchCalls(x) : Match[y] = g[y]
      OBVIOUS
    <3> QED
      BY <3>1, MatchLooksAtCalls
  <2>2. P \in SUBSET Positions
    OBVIOUS
  <2> HIDE DEF P
  <2> QED
    BY <2>1, <2>2, MatchInduction
<1>11. \A x \in Positions : Match[x] = g[x] /\ g[x] \in X
  BY <1>10
<1> QED
  BY <1>9, <1>11

\* As Fits has it for the inner nodes of a list, at any depth.
FitsBelow(s, f) ==
  \A t \in Parts[s] : \A i \in Steps(t) :
    Schemas[t][i].inner # 0 => FitsNodes(Schemas[t][i].inner, f[Schemas[t][i].name], f)

FitsInner(s, m, f) == s # 0 => FitsNodes(s, m, f) /\ FitsBelow(s, f)

\* What f gives the steps of a list, and its place.
Chosen(x, i, f)      == f[Schemas[x.schema][i].name]
ChosenPlace(x, i, f) == Place(x.caller, Chosen(x, i, f))

\* What is still demanded of f at a position: the steps from there on stand where
\* the instructions from there on are.
FitsStep(x, i, f) ==
  /\ Chosen(x, i, f) \in CalledBy(x.caller)
  /\ Parsed(Chosen(x, i, f)) = Schemas[x.schema][i].type
  /\ ChosenPlace(x, i, f) >= x.ix
  /\ \A j \in Steps(x.schema) : x.node <= j /\ j < i => ChosenPlace(x, j, f) < ChosenPlace(x, i, f)
  /\ i = x.node /\ ~x.any => ChosenPlace(x, i, f) = x.ix
  /\ i - 1 \in Steps(x.schema) /\ x.node <= i - 1 =>
       ChosenPlace(x, i, f) = ChosenPlace(x, i - 1, f) + 1
  /\ FitsInner(Schemas[x.schema][i].inner, Chosen(x, i, f), f)

FitsFrom(x, f) == \A i \in Steps(x.schema) : x.node <= i => FitsStep(x, i, f)

\* The names that are given from a position on.
NamesFrom(s, a) == UNION {NamedBy(Schemas[s][i]) : i \in {j \in Steps(s) : a <= j}}

\* The steps of a list are numbers from 1.
LEMMA StepsAreNumbers ==
  ASSUME NEW s \in DOMAIN Schemas
  PROVE  \A i \in Steps(s) : i \in Nat /\ 1 <= i /\ i <= Len(Schemas[s])
<1>1. \A i \in Steps(s) : i \in 1..Len(Schemas[s]) /\ Len(Schemas[s]) \in Nat
  BY SchemaTypes
<1> QED
  BY <1>1

\* The places of the instructions called by v are numbers from 1.
LEMMA PlacesAreNumbers ==
  ASSUME Ready, NEW v \in {0} \cup Decodable, NEW m \in CalledBy(v)
  PROVE  Place(v, m) \in Nat /\ 1 <= Place(v, m)
<1>1. Place(v, m) \in 1..Len(ParsedBelow[v]) /\ Len(ParsedBelow[v]) \in Nat
  BY ParsedPlaces
<1> QED
  BY <1>1

\* What a list demands of all lists in it it demands step by step.
LEMMA FitsBelowSteps ==
  ASSUME NEW s \in DOMAIN Schemas, NEW f
  PROVE  FitsBelow(s, f) <=>
           \A i \in Steps(s) : FitsInner(Schemas[s][i].inner, f[Schemas[s][i].name], f)
<1> DEFINE Demand(t) == \A i \in Steps(t) : Schemas[t][i].inner # 0 =>
                          FitsNodes(Schemas[t][i].inner, f[Schemas[t][i].name], f)
<1>1. FitsBelow(s, f) <=> \A t \in Parts[s] : Demand(t)
  BY DEF FitsBelow
<1>2. Parts[s] = {s} \cup UNION {Parts[t] : t \in Inners(s)}
  BY PartsRecursion
<1>3. \A t \in Inners(s) : FitsBelow(t, f) <=> \A u \in Parts[t] : Demand(u)
  BY DEF FitsBelow
<1>4. (\A t \in Parts[s] : Demand(t)) <=> Demand(s) /\ \A t \in Inners(s) : FitsBelow(t, f)
  <2> HIDE DEF Demand
  <2> QED
    BY <1>2, <1>3
<1>5. (\A t \in Inners(s) : FitsBelow(t, f)) <=>
        \A i \in Steps(s) : Schemas[s][i].inner # 0 => FitsBelow(Schemas[s][i].inner, f)
  BY DEF Inners
<1> QED
  BY <1>1, <1>4, <1>5 DEF FitsInner

\* At the first position the demand is that of the list and all lists in it.
LEMMA FitsFirst ==
  ASSUME Ready, NEW s \in DOMAIN Schemas, NEW v \in {0} \cup Decodable, NEW f
  PROVE  FitsFrom(FirstPosition(s, v), f) <=> FitsNodes(s, v, f) /\ FitsBelow(s, f)
<1>1. PICK x : x = FirstPosition(s, v)
  OBVIOUS
<1>2. x.schema = s /\ x.caller = v /\ x.node = 1 /\ x.ix = 1 /\ ~x.any
  BY <1>1 DEF FirstPosition
<1>3. \A i \in Steps(s) : i \in Nat /\ 1 <= i /\ Chosen(x, i, f) = f[Schemas[s][i].name]
  BY <1>2, StepsAreNumbers DEF Chosen
<1> DEFINE StepOk(i) ==
             /\ Chosen(x, i, f) \in CalledBy(v)
             /\ Parsed(Chosen(x, i, f)) = Schemas[s][i].type
             /\ \A j \in Steps(s) : j < i => ChosenPlace(x, j, f) < ChosenPlace(x, i, f)
             /\ i = 1 => ChosenPlace(x, i, f) = 1
             /\ i - 1 \in Steps(s) => ChosenPlace(x, i, f) = ChosenPlace(x, i - 1, f) + 1
<1>4. \A i \in Steps(s) : FitsStep(x, i, f) <=> StepOk(i) /\ FitsInner(Schemas[s][i].inner, Chosen(x, i, f), f)
  <2> SUFFICES ASSUME NEW i \in Steps(s)
               PROVE  FitsStep(x, i, f) <=> StepOk(i) /\ FitsInner(Schemas[s][i].inner, Chosen(x, i, f), f)
    OBVIOUS
  <2>1. Chosen(x, i, f) \in CalledBy(v) => ChosenPlace(x, i, f) >= x.ix
    BY <1>2, PlacesAreNumbers DEF ChosenPlace
  <2>2. \A j \in Steps(s) : x.node <= j
    BY <1>2, <1>3
  <2>3. (\A j \in Steps(s) : x.node <= j /\ j < i => ChosenPlace(x, j, f) < ChosenPlace(x, i, f))
          <=> \A j \in Steps(s) : j < i => ChosenPlace(x, j, f) < ChosenPlace(x, i, f)
    BY <2>2
  <2>4. (i = x.node /\ ~x.any => ChosenPlace(x, i, f) = x.ix) <=> (i = 1 => ChosenPlace(x, i, f) = 1)
    BY <1>2
  <2>5. (i - 1 \in Steps(s) /\ x.node <= i - 1 => ChosenPlace(x, i, f) = ChosenPlace(x, i - 1, f) + 1)
          <=> (i - 1 \in Steps(s) => ChosenPlace(x, i, f) = ChosenPlace(x, i - 1, f) + 1)
    BY <2>2
  <2> QED
    BY <1>2, <2>1, <2>3, <2>4, <2>5 DEF FitsStep
<1>5. FitsFrom(x, f) <=>
        (\A i \in Steps(s) : StepOk(i)) /\ \A i \in Steps(s) : FitsInner(Schemas[s][i].inner, Chosen(x, i, f), f)
  <2> HIDE DEF StepOk
  <2> QED
    BY <1>2, <1>3, <1>4 DEF FitsFrom
<1>6. (\A i \in Steps(s) : StepOk(i)) <=> FitsNodes(s, v, f)
  BY <1>2 DEF FitsNodes, Chosen, ChosenPlace
<1>7. (\A i \in Steps(s) : FitsInner(Schemas[s][i].inner, Chosen(x, i, f), f)) <=> FitsBelow(s, f)
  BY <1>3, FitsBelowSteps
<1> QED
  BY <1>1, <1>5, <1>6, <1>7

\* Maps that give the names of a list the same instructions fit it alike.
LEMMA NodesAlike ==
  ASSUME NEW s \in DOMAIN Schemas, NEW v, NEW f, NEW g, \A nm \in OwnNames(s) : f[nm] = g[nm],
         FitsNodes(s, v, f)
  PROVE  FitsNodes(s, v, g)
<1>1. \A i \in Steps(s) : f[Schemas[s][i].name] = g[Schemas[s][i].name]
  BY DEF OwnNames
<1> QED
  BY <1>1 DEF FitsNodes

LEMMA InnerAlike ==
  ASSUME NEW s \in {0} \cup DOMAIN Schemas, NEW m, NEW f, NEW g,
         s # 0 => \A nm \in Names(s) : f[nm] = g[nm], FitsInner(s, m, f)
  PROVE  FitsInner(s, m, g)
<1> SUFFICES ASSUME s # 0 PROVE FitsNodes(s, m, g) /\ FitsBelow(s, g)
  BY DEF FitsInner
<1>1. s \in DOMAIN Schemas /\ s \in Parts[s] /\ FitsNodes(s, m, f) /\ FitsBelow(s, f)
  BY PartsRecursion DEF FitsInner
<1>2. ASSUME NEW t \in Parts[s] PROVE t \in DOMAIN Schemas /\ \A nm \in OwnNames(t) : f[nm] = g[nm]
  BY <1>1, PartsRecursion DEF Names
<1>3. ASSUME NEW t \in Parts[s], NEW i \in Steps(t), Schemas[t][i].inner # 0
      PROVE  FitsNodes(Schemas[t][i].inner, g[Schemas[t][i].name], g)
  <2>1. t \in DOMAIN Schemas /\ Parts[t] \subseteq Parts[s]
    BY <1>1, PartsOfParts
  <2>2. PICK u : u = Schemas[t][i].inner
    OBVIOUS
  <2>3. u \in Inners(t)
    BY <1>3, <2>2 DEF Inners
  <2>4. u \in DOMAIN Schemas /\ u \in Parts[u]
    BY <2>1, <2>3, InnersAreEarlier, PartsRecursion
  <2>5. u \in Parts[s]
    BY <2>1, <2>3, <2>4, PartsRecursion
  <2>6. f[Schemas[t][i].name] = g[Schemas[t][i].name]
    BY <1>2 DEF OwnNames
  <2>7. FitsNodes(u, f[Schemas[t][i].name], f)
    BY <1>1, <1>3, <2>2 DEF FitsBelow
  <2> QED
    BY <1>2, <2>2, <2>4, <2>5, <2>6, <2>7, NodesAlike
<1>4. FitsNodes(s, m, g)
  BY <1>1, <1>2, NodesAlike
<1> QED
  BY <1>3, <1>4 DEF FitsBelow

LEMMA FromAlike ==
  ASSUME NEW x \in Positions, NEW f, NEW g,
         \A nm \in NamesFrom(x.schema, x.node) : f[nm] = g[nm], FitsFrom(x, f)
  PROVE  FitsFrom(x, g)
<1>0. x.schema \in DOMAIN Schemas
  BY DEF Positions
<1>1. ASSUME NEW i \in Steps(x.schema), x.node <= i
      PROVE  /\ Chosen(x, i, f) = Chosen(x, i, g)
             /\ ChosenPlace(x, i, f) = ChosenPlace(x, i, g)
             /\ FitsInner(Schemas[x.schema][i].inner, Chosen(x, i, f), f) =>
                  FitsInner(Schemas[x.schema][i].inner, Chosen(x, i, g), g)
  <2>1. \A nm \in NamedBy(Schemas[x.schema][i]) : f[nm] = g[nm]
    BY <1>1 DEF NamesFrom
  <2>2. Chosen(x, i, f) = Chosen(x, i, g)
    BY <2>1 DEF Chosen, NamedBy
  <2>3. PICK s : s = Schemas[x.schema][i].inner
    OBVIOUS
  <2>4. s # 0 => \A nm \in Names(s) : f[nm] = g[nm]
    BY <2>1, <2>3 DEF NamedBy
  <2>5. s \in {0} \cup DOMAIN Schemas
    BY <1>0, <2>3, SchemaTypes
  <2>6. ASSUME FitsInner(s, Chosen(x, i, f), f) PROVE FitsInner(s, Chosen(x, i, g), g)
    BY <2>2, <2>4, <2>5, <2>6, InnerAlike
  <2> QED
    BY <2>2, <2>3, <2>6 DEF ChosenPlace
<1> SUFFICES ASSUME NEW i \in Steps(x.schema), x.node <= i PROVE FitsStep(x, i, g)
  BY DEF FitsFrom
<1>2. FitsStep(x, i, f)
  BY DEF FitsFrom
<1> QED
  BY <1>1, <1>2 DEF FitsStep

\* The demand at the position after an Any is the one before it.
LEMMA FitsAfterAny ==
  ASSUME NEW x \in Positions, x.node \notin Steps(x.schema), NEW f,
         NEW y, y = [x EXCEPT !.node = @ + 1, !.any = TRUE]
  PROVE  FitsFrom(y, f) <=> FitsFrom(x, f)
<1>1. /\ y.schema = x.schema /\ y.caller = x.caller /\ y.ix = x.ix /\ y.any = TRUE
      /\ y.node = x.node + 1 /\ x.node \in Nat /\ x.schema \in DOMAIN Schemas
  BY DEF Positions
<1>2. \A i : Chosen(y, i, f) = Chosen(x, i, f) /\ ChosenPlace(y, i, f) = ChosenPlace(x, i, f)
  BY <1>1 DEF Chosen, ChosenPlace
<1>3. \A i \in Steps(x.schema) : x.node <= i <=> y.node <= i
  BY <1>1, StepsAreNumbers
<1>4. ASSUME NEW i \in Steps(x.schema), x.node <= i PROVE FitsStep(y, i, f) <=> FitsStep(x, i, f)
  <2>1. i # x.node /\ ~(i = y.node /\ ~y.any)
    BY <1>1
  <2>2. /\ \A j \in Steps(x.schema) : x.node <= j /\ j < i <=> y.node <= j /\ j < i
        /\ i - 1 \in Steps(x.schema) => (x.node <= i - 1 <=> y.node <= i - 1)
    BY <1>3
  <2> QED
    BY <1>1, <1>2, <2>1, <2>2 DEF FitsStep
<1> QED
  BY <1>1, <1>3, <1>4 DEF FitsFrom

\* A map fits from a position on if it fits when the instruction is skipped; and
\* it fits then, if it does not give the instruction to the node.
LEMMA FitsAfterSkip ==
  ASSUME Ready, NEW x \in Positions, x.caller \in {0} \cup Decodable, x.any, NEW f,
         NEW y, y = [x EXCEPT !.ix = @ + 1]
  PROVE  /\ FitsFrom(y, f) => FitsFrom(x, f)
         /\ FitsFrom(x, f) /\ x.node \in Steps(x.schema) /\ ChosenPlace(x, x.node, f) # x.ix =>
              FitsFrom(y, f)
<1>1. /\ y.schema = x.schema /\ y.caller = x.caller /\ y.any = x.any /\ y.node = x.node
      /\ y.ix = x.ix + 1 /\ x.ix \in Nat /\ x.node \in Nat /\ x.schema \in DOMAIN Schemas
  BY DEF Positions
<1>2. \A i : Chosen(y, i, f) = Chosen(x, i, f) /\ ChosenPlace(y, i, f) = ChosenPlace(x, i, f)
  BY <1>1 DEF Chosen, ChosenPlace
<1>3. \A i : Chosen(x, i, f) \in CalledBy(x.caller) => ChosenPlace(x, i, f) \in Nat
  BY PlacesAreNumbers DEF ChosenPlace
<1>4. ASSUME FitsFrom(y, f), NEW i \in Steps(x.schema), x.node <= i PROVE FitsStep(x, i, f)
  <2>1. FitsStep(y, i, f)
    BY <1>1, <1>4 DEF FitsFrom
  <2>2. ChosenPlace(x, i, f) >= x.ix + 1 /\ ChosenPlace(x, i, f) \in Nat
    BY <1>1, <1>2, <1>3, <2>1 DEF FitsStep
  <2>3. ChosenPlace(x, i, f) >= x.ix
    BY <1>1, <2>2
  <2> QED
    BY <1>1, <1>2, <2>1, <2>3 DEF FitsStep
<1>5. ASSUME FitsFrom(x, f), x.node \in Steps(x.schema), ChosenPlace(x, x.node, f) # x.ix,
             NEW i \in Steps(x.schema), x.node <= i
      PROVE  FitsStep(y, i, f)
  <2>1. FitsStep(x, i, f) /\ FitsStep(x, x.node, f)
    BY <1>1, <1>5 DEF FitsFrom
  <2>2. /\ ChosenPlace(x, i, f) \in Nat /\ ChosenPlace(x, x.node, f) \in Nat
        /\ ChosenPlace(x, x.node, f) >= x.ix
    BY <1>3, <2>1 DEF FitsStep
  <2>3. x.node < i => ChosenPlace(x, x.node, f) < ChosenPlace(x, i, f)
    BY <1>1, <1>5, <2>1 DEF FitsStep
  <2>4. i \in Nat
    BY <1>1, StepsAreNumbers
  <2>5. ChosenPlace(x, i, f) >= x.ix + 1
    <3>1. CASE i = x.node
      BY <1>1, <1>5, <2>2, <3>1
    <3>2. CASE x.node < i
      BY <1>1, <1>5, <2>2, <2>3, <3>2
    <3> QED
      BY <1>1, <1>5, <2>4, <3>1, <3>2
  <2> QED
    BY <1>1, <1>2, <2>1, <2>5 DEF FitsStep
<1> QED
  BY <1>1, <1>4, <1>5 DEF FitsFrom

\* A map that gives the next node the next instruction, of its type, fits if it
\* fits from there on and in the inner nodes.
LEMMA FitsAfterMatch ==
  ASSUME Ready, NEW x \in Positions, x.caller \in {0} \cup Decodable,
         x.node \in Steps(x.schema), NEW f,
         Chosen(x, x.node, f) \in CalledBy(x.caller), ChosenPlace(x, x.node, f) = x.ix,
         Parsed(Chosen(x, x.node, f)) = Schemas[x.schema][x.node].type,
         NEW y, y = [x EXCEPT !.node = @ + 1, !.ix = @ + 1, !.any = FALSE]
  PROVE  /\ FitsInner(Schemas[x.schema][x.node].inner, Chosen(x, x.node, f), f) /\ FitsFrom(y, f) =>
              FitsFrom(x, f)
         /\ FitsFrom(x, f) =>
              /\ FitsInner(Schemas[x.schema][x.node].inner, Chosen(x, x.node, f), f)
              /\ FitsFrom(y, f)
<1>1. /\ y.schema = x.schema /\ y.caller = x.caller /\ y.any = FALSE /\ y.node = x.node + 1
      /\ y.ix = x.ix + 1 /\ x.ix \in Nat /\ x.node \in Nat /\ x.schema \in DOMAIN Schemas
  BY DEF Positions
<1>2. \A i : Chosen(y, i, f) = Chosen(x, i, f) /\ ChosenPlace(y, i, f) = ChosenPlace(x, i, f)
  BY <1>1 DEF Chosen, ChosenPlace
<1>3. \A i : Chosen(x, i, f) \in CalledBy(x.caller) => ChosenPlace(x, i, f) \in Nat
  BY PlacesAreNumbers DEF ChosenPlace
<1>4. \A i \in Steps(x.schema) : i \in Nat
  BY <1>1, StepsAreNumbers
<1>5. ASSUME FitsInner(Schemas[x.schema][x.node].inner, Chosen(x, x.node, f), f), FitsFrom(y, f),
             NEW i \in Steps(x.schema), x.node <= i
      PROVE  FitsStep(x, i, f)
  <2>1. CASE i = x.node
    <3>1. \A j \in Steps(x.schema) : ~(x.node <= j /\ j < i)
      BY <1>1, <1>4, <2>1
    <3>2. ~(x.node <= i - 1) /\ x.ix >= x.ix
      BY <1>1, <2>1
    <3> QED
      BY <1>5, <2>1, <3>1, <3>2 DEF FitsStep
  <2>2. CASE i # x.node
    <3>1. i \in Nat /\ y.node <= i /\ i - 1 \in Int /\ x.node <= i - 1
      BY <1>1, <1>4, <1>5, <2>2
    <3>2. FitsStep(y, i, f)
      BY <1>1, <1>5, <3>1 DEF FitsFrom
    <3>3. ChosenPlace(x, i, f) \in Nat /\ ChosenPlace(x, i, f) >= x.ix + 1
      BY <1>1, <1>2, <1>3, <3>2 DEF FitsStep
    <3>4. ChosenPlace(x, i, f) >= x.ix
      BY <1>1, <3>3
    <3>5. ASSUME NEW j \in Steps(x.schema), x.node <= j, j < i
          PROVE  ChosenPlace(x, j, f) < ChosenPlace(x, i, f)
      <4>1. CASE j = x.node
        BY <1>1, <3>3, <4>1
      <4>2. CASE j # x.node
        <5>1. y.node <= j
          BY <1>1, <1>4, <3>5, <4>2
        <5> QED
          BY <1>1, <1>2, <3>2, <3>5, <5>1 DEF FitsStep
      <4> QED
        BY <4>1, <4>2
    <3>6. ASSUME i - 1 \in Steps(x.schema)
          PROVE  ChosenPlace(x, i, f) = ChosenPlace(x, i - 1, f) + 1
      <4>1. CASE i - 1 = x.node
        <5>1. i = y.node
          BY <1>1, <3>1, <4>1
        <5> QED
          BY <1>1, <1>2, <3>2, <4>1, <5>1 DEF FitsStep
      <4>2. CASE i - 1 # x.node
        <5>1. y.node <= i - 1
          BY <1>1, <3>1, <4>2
        <5> QED
          BY <1>1, <1>2, <3>2, <3>6, <5>1 DEF FitsStep
      <4> QED
        BY <4>1, <4>2
    <3> QED
      BY <1>1, <1>2, <2>2, <3>2, <3>4, <3>5, <3>6 DEF FitsStep
  <2> QED
    BY <2>1, <2>2
<1>6. ASSUME FitsFrom(x, f), NEW i \in Steps(x.schema), y.node <= i PROVE FitsStep(y, i, f)
  <2>1. i \in Nat /\ x.node < i /\ x.node <= i /\ x.node <= x.node
    BY <1>1, <1>4, <1>6
  <2>2. FitsStep(x, i, f)
    BY <1>6, <2>1 DEF FitsFrom
  <2>3. x.ix < ChosenPlace(x, i, f) /\ ChosenPlace(x, i, f) \in Nat
    BY <1>3, <2>1, <2>2 DEF FitsStep
  <2>4. ChosenPlace(x, i, f) >= x.ix + 1
    BY <1>1, <2>3
  <2>5. i = y.node => ChosenPlace(x, i, f) = x.ix + 1
    <3>1. i = y.node => i - 1 = x.node
      BY <1>1
    <3> QED
      BY <1>1, <2>2, <3>1 DEF FitsStep
  <2>6. /\ \A j \in Steps(x.schema) : y.node <= j => x.node <= j
        /\ y.node <= i - 1 => x.node <= i - 1
    BY <1>1, <1>4, <2>1
  <2> QED
    BY <1>1, <1>2, <2>2, <2>4, <2>5, <2>6 DEF FitsStep
<1>7. FitsFrom(x, f) => FitsInner(Schemas[x.schema][x.node].inner, Chosen(x, x.node, f), f)
  BY <1>1 DEF FitsFrom, FitsStep
<1> QED
  BY <1>1, <1>5, <1>6, <1>7 DEF FitsFrom

\* The names from a step on are those named by it and those after it, and no name
\* is given twice.
LEMMA NamesFromStep ==
  ASSUME NEW s \in DOMAIN Schemas, NEW a \in Steps(s)
  PROVE  /\ NamesFrom(s, a) = NamedBy(Schemas[s][a]) \cup NamesFrom(s, a + 1)
         /\ NamedBy(Schemas[s][a]) \cap NamesFrom(s, a + 1) = {}
         /\ Schemas[s][a].inner # 0 => Schemas[s][a].name \notin Names(Schemas[s][a].inner)
<1>1. \A i \in Steps(s) : i \in Nat
  BY StepsAreNumbers
<1>2. {i \in Steps(s) : a <= i} = {a} \cup {i \in Steps(s) : a + 1 <= i}
  BY <1>1
<1>3. \A i \in Steps(s) : a + 1 <= i => i # a
  BY <1>1
<1>4. \A i, j \in Steps(s) :
        /\ i # j => NamedBy(Schemas[s][i]) \cap NamedBy(Schemas[s][j]) = {}
        /\ Schemas[s][i].inner # 0 => Schemas[s][i].name \notin Names(Schemas[s][i].inner)
  BY NamesAssumption
<1>5. NamesFrom(s, a) = NamedBy(Schemas[s][a]) \cup NamesFrom(s, a + 1)
  BY <1>2 DEF NamesFrom
<1>6. NamedBy(Schemas[s][a]) \cap NamesFrom(s, a + 1) = {}
  BY <1>3, <1>4 DEF NamesFrom
<1> QED
  BY <1>4, <1>5, <1>6

\* An Any, and what is behind the last node, names nothing.
LEMMA NamesFromAny ==
  ASSUME NEW s \in DOMAIN Schemas, NEW a \in Nat
  PROVE  /\ a \notin Steps(s) => NamesFrom(s, a) = NamesFrom(s, a + 1)
         /\ a > Len(Schemas[s]) => NamesFrom(s, a) = {} /\ \A i \in Steps(s) : ~(a <= i)
         /\ NamesFrom(s, 1) = Names(s)
<1>1. \A i \in Steps(s) : i \in Nat /\ 1 <= i /\ i <= Len(Schemas[s]) /\ Len(Schemas[s]) \in Nat
  BY StepsAreNumbers, SchemaTypes
<1>2. ASSUME a \notin Steps(s) PROVE NamesFrom(s, a) = NamesFrom(s, a + 1)
  <2>1. {i \in Steps(s) : a <= i} = {i \in Steps(s) : a + 1 <= i}
    BY <1>1, <1>2
  <2> QED
    BY <2>1 DEF NamesFrom
<1>3. ASSUME a > Len(Schemas[s]) PROVE \A i \in Steps(s) : ~(a <= i)
  BY <1>1, <1>3
<1>4. a > Len(Schemas[s]) => NamesFrom(s, a) = {}
  BY <1>3 DEF NamesFrom
<1>5. NamesFrom(s, 1) = Names(s)
  <2>1. {i \in Steps(s) : 1 <= i} = Steps(s)
    BY <1>1
  <2> QED
    BY <2>1, NamesOfSteps DEF NamesFrom
<1> QED
  BY <1>2, <1>3, <1>4, <1>5

\* What a map found from a position on is: it has the names from there on and fits.
Found(x, f) == DOMAIN f = NamesFrom(x.schema, x.node) /\ FitsFrom(x, f)
OnlyTrue    == {x \in Positions : x.caller \in {0} \cup Decodable => \A f \in Match[x] : Found(x, f)}

LEMMA MatchedIsTrue ==
  ASSUME Ready, NEW x \in Positions, MatchCalls(x) \subseteq OnlyTrue, x.caller \in {0} \cup Decodable,
         x.node \in Steps(x.schema), x.ix <= Len(ParsedBelow[x.caller]),
         Parsed(ParsedBelow[x.caller][x.ix]) = Schemas[x.schema][x.node].type,
         NEW f \in Matched(Match, x)
  PROVE  Found(x, f)
<1>1. PICK s, a, node, m :
        s = x.schema /\ a = x.node /\ node = Schemas[s][a] /\ m = ParsedBelow[x.caller][x.ix]
  OBVIOUS
<1>2. PICK y : y = [x EXCEPT !.node = @ + 1, !.ix = @ + 1, !.any = FALSE]
  OBVIOUS
<1>3. s \in DOMAIN Schemas /\ a \in Steps(s) /\ a \in Nat /\ a <= Len(Schemas[s]) /\ ~node.any
  BY <1>1, StepsAreNumbers DEF Positions, Steps
<1>4. y \in MatchCalls(x) /\ (node.inner # 0 => FirstPosition(node.inner, m) \in MatchCalls(x))
  BY <1>1, <1>2, <1>3, CallsArePositions
<1>5. /\ y.schema = s /\ y.caller = x.caller /\ y.node = a + 1
      /\ x.ix \in Nat \ {0} /\ y \in Positions
  BY <1>1, <1>2, <1>4 DEF Positions, MatchCalls
<1>6. m \in CalledBy(x.caller) /\ Place(x.caller, m) = x.ix /\ m \in Decodable
  <2>1. x.ix \in 1..Len(ParsedBelow[x.caller])
    BY <1>5, ParsedPlaces
  <2>2. m \in CalledBy(x.caller) /\ Place(x.caller, m) = x.ix
    BY <1>1, <2>1, ParsedPlaces
  <2> QED
    BY <2>2 DEF CalledBy
<1>7. PICK rest \in Match[y], inner \in MatchInner(Match, node.inner, m) :
        f = MergeHashmaps(MergeHashmaps([name \in {node.name} |-> m], inner), rest)
  BY <1>1, <1>2 DEF Matched, MatchedThen
<1>8. DOMAIN rest = NamesFrom(s, a + 1) /\ FitsFrom(y, rest)
  <2>1. y \in OnlyTrue
    BY <1>4
  <2> QED
    BY <1>5, <1>7, <2>1 DEF OnlyTrue, Found
<1>9. /\ DOMAIN inner = IF node.inner = 0 THEN {} ELSE Names(node.inner)
      /\ FitsInner(node.inner, m, inner)
  <2>1. CASE node.inner = 0
    BY <1>7, <2>1 DEF MatchInner, NoNames, FitsInner
  <2>2. CASE node.inner # 0
    <3>1. PICK z : z = FirstPosition(node.inner, m)
      OBVIOUS
    <3>2. z \in OnlyTrue /\ inner \in Match[z]
      BY <1>4, <1>7, <2>2, <3>1 DEF MatchInner
    <3>3. z.schema = node.inner /\ z.caller = m /\ z.node = 1
      BY <3>1 DEF FirstPosition
    <3>4. DOMAIN inner = NamesFrom(node.inner, 1) /\ FitsFrom(z, inner)
      BY <1>6, <3>2, <3>3 DEF OnlyTrue, Found
    <3>5. node.inner \in DOMAIN Schemas
      BY <1>1, <1>3, <2>2, SchemaTypes
    <3>6. FitsNodes(node.inner, m, inner) /\ FitsBelow(node.inner, inner)
      BY <1>6, <3>1, <3>4, <3>5, FitsFirst
    <3> QED
      BY <2>2, <3>4, <3>5, <3>6, NamesFromAny DEF FitsInner
  <2> QED
    BY <2>1, <2>2
<1>10. /\ NamesFrom(s, a) = NamedBy(node) \cup NamesFrom(s, a + 1)
       /\ NamedBy(node) \cap NamesFrom(s, a + 1) = {}
       /\ node.inner # 0 => node.name \notin Names(node.inner)
  BY <1>1, <1>3, NamesFromStep
<1>11. NamedBy(node) = {node.name} \cup DOMAIN inner /\ node.name \notin DOMAIN inner
  BY <1>9, <1>10 DEF NamedBy
<1>12. /\ DOMAIN f = {node.name} \cup DOMAIN inner \cup DOMAIN rest
       /\ f[node.name] = m
       /\ \A nm \in DOMAIN inner : f[nm] = inner[nm]
       /\ \A nm \in DOMAIN rest : f[nm] = rest[nm]
  <2>1. PICK own : own = [name \in {node.name} |-> m]
    OBVIOUS
  <2>2. PICK e : e = MergeHashmaps(own, inner)
    OBVIOUS
  <2>3. DOMAIN own = {node.name} /\ own[node.name] = m
    BY <2>1
  <2>4. /\ DOMAIN e = {node.name} \cup DOMAIN inner
        /\ e[node.name] = m
        /\ \A nm \in DOMAIN inner : e[nm] = inner[nm]
    BY <1>11, <2>2, <2>3 DEF MergeHashmaps
  <2>5. f = MergeHashmaps(e, rest)
    BY <1>7, <2>1, <2>2
  <2>6. \A nm \in DOMAIN e : nm \notin DOMAIN rest
    BY <1>8, <1>10, <1>11, <2>4
  <2> QED
    BY <2>4, <2>5, <2>6 DEF MergeHashmaps
<1>13. DOMAIN f = NamesFrom(s, a)
  BY <1>8, <1>10, <1>11, <1>12
<1>14. FitsFrom(y, f)
  <2>1. \A nm \in NamesFrom(y.schema, y.node) : rest[nm] = f[nm]
    BY <1>5, <1>8, <1>12
  <2> QED
    BY <1>5, <1>8, <2>1, FromAlike
<1>15. FitsInner(node.inner, m, f)
  <2>1. node.inner \in {0} \cup DOMAIN Schemas
    BY <1>1, <1>3, SchemaTypes
  <2>2. node.inner # 0 => \A nm \in Names(node.inner) : inner[nm] = f[nm]
    BY <1>9, <1>12
  <2> QED
    BY <1>9, <2>1, <2>2, InnerAlike
<1>16. Chosen(x, x.node, f) = m
  BY <1>1, <1>12 DEF Chosen
<1>17. FitsFrom(x, f)
  <2>1. ChosenPlace(x, x.node, f) = x.ix
    BY <1>6, <1>16 DEF ChosenPlace
  <2> QED
    BY <1>1, <1>2, <1>6, <1>14, <1>15, <1>16, <2>1, FitsAfterMatch
<1> QED
  BY <1>1, <1>13, <1>17 DEF Found

\* Everything match_nodes finds, at any position, is there.
LEMMA MatchIsTrue ==
  ASSUME Ready
  PROVE  OnlyTrue = Positions
<1>1. OnlyTrue \in SUBSET Positions
  BY DEF OnlyTrue
<1>2. ASSUME NEW x \in Positions, MatchCalls(x) \subseteq OnlyTrue, x.caller \in {0} \cup Decodable,
             NEW f \in Match[x]
      PROVE  Found(x, f)
  <2> DEFINE nodes == Schemas[x.schema]
             node  == nodes[x.node]
             ixs   == ParsedBelow[x.caller]
  <2>1. f \in MatchNodes(Match, x)
    BY <1>2, MatchRecursion
  <2>2. /\ x.schema \in DOMAIN Schemas /\ x.node \in Nat \ {0} /\ x.ix \in Nat \ {0}
        /\ Len(nodes) \in Nat /\ DOMAIN nodes = 1..Len(nodes) /\ Len(ixs) \in Nat
    BY <1>2, SchemaTypes, ParsedPlaces DEF Positions
  <2>3. CASE x.node > Len(nodes)
    <3>1. f = NoNames
      BY <2>1, <2>3 DEF MatchNodes
    <3>2. DOMAIN f = {}
      BY <3>1 DEF NoNames
    <3> QED
      BY <2>2, <2>3, <3>2, NamesFromAny DEF Found, FitsFrom
  <2>4. CASE x.node <= Len(nodes) /\ node.any
    <3>1. PICK y : y = [x EXCEPT !.node = @ + 1, !.any = TRUE]
      OBVIOUS
    <3>2. f \in Match[y]
      <4>1. ~(x.node > Len(nodes))
        BY <2>2, <2>4
      <4> QED
        BY <2>1, <2>4, <3>1, <4>1 DEF MatchNodes
    <3>3. y \in MatchCalls(x)
      BY <2>4, <3>1, CallsArePositions
    <3>4. y.schema = x.schema /\ y.caller = x.caller /\ y.node = x.node + 1
      BY <3>1 DEF Positions
    <3>5. Found(y, f)
      BY <1>2, <3>2, <3>3, <3>4 DEF OnlyTrue
    <3>6. x.node \notin Steps(x.schema)
      BY <2>4 DEF Steps
    <3>7. NamesFrom(x.schema, x.node) = NamesFrom(x.schema, x.node + 1)
      BY <2>2, <3>6, NamesFromAny
    <3>8. FitsFrom(y, f) <=> FitsFrom(x, f)
      BY <3>1, <3>6, FitsAfterAny
    <3> QED
      BY <3>4, <3>5, <3>7, <3>8 DEF Found
  <2>5. CASE x.node <= Len(nodes) /\ ~node.any
    <3>1. x.node \in Steps(x.schema) /\ ~(x.node > Len(nodes))
      BY <2>2, <2>5 DEF Steps
    <3>2. x.ix <= Len(ixs)
      BY <2>1, <2>2, <2>5, <3>1 DEF MatchNodes
    <3>3. CASE Parsed(ixs[x.ix]) = node.type
      <4>1. f \in Matched(Match, x)
        BY <2>1, <2>2, <2>5, <3>1, <3>2, <3>3 DEF MatchNodes
      <4> QED
        BY <1>2, <3>1, <3>2, <3>3, <4>1, MatchedIsTrue
    <3>4. CASE Parsed(ixs[x.ix]) # node.type
      <4>1. PICK y : y = [x EXCEPT !.ix = @ + 1]
        OBVIOUS
      <4>2. x.any /\ f \in Match[y]
        <5>1. f \in Skipped(Match, x)
          BY <2>1, <2>2, <2>5, <3>1, <3>2, <3>4 DEF MatchNodes
        <5> QED
          BY <4>1, <5>1 DEF Skipped
      <4>3. y \in MatchCalls(x)
        BY <2>5, <3>2, <4>1, CallsArePositions
      <4>4. y.schema = x.schema /\ y.caller = x.caller /\ y.node = x.node
        BY <4>1 DEF Positions
      <4>5. Found(y, f)
        BY <1>2, <4>2, <4>3, <4>4 DEF OnlyTrue
      <4>6. FitsFrom(y, f) => FitsFrom(x, f)
        BY <1>2, <4>1, <4>2, FitsAfterSkip
      <4> QED
        BY <4>4, <4>5, <4>6 DEF Found
    <3> QED
      BY <3>3, <3>4
  <2> QED
    BY <2>2, <2>3, <2>4, <2>5
<1>3. \A x \in Positions : MatchCalls(x) \subseteq OnlyTrue => x \in OnlyTrue
  BY <1>2 DEF OnlyTrue
<1> QED
  BY <1>1, <1>3, MatchInduction

\* The flag any says that the node before is an Any.
AfterAny(x) == x.node > 1 /\ x.node - 1 \in DOMAIN Schemas[x.schema] \ Steps(x.schema)

\* Where a map fits something is found, for the lists Definite is about.
NoneMissed ==
  {x \in Positions :
     /\ x.caller \in {0} \cup Decodable
     /\ Definite(x.schema)
     /\ x.any <=> AfterAny(x)
     /\ \E f : FitsFrom(x, f)
     => Match[x] # {}}

\* The inner lists of a definite list are.
LEMMA InnersAreDefinite ==
  ASSUME NEW s \in DOMAIN Schemas, Definite(s), NEW i \in Steps(s), Schemas[s][i].inner # 0
  PROVE  Definite(Schemas[s][i].inner)
<1>1. PICK t : t = Schemas[s][i].inner
  OBVIOUS
<1>2. t \in Inners(s) /\ t \in DOMAIN Schemas
  BY <1>1, SchemaTypes DEF Inners
<1>3. Parts[t] \subseteq Parts[s]
  BY <1>2, PartsRecursion
<1> QED
  BY <1>1, <1>3 DEF Definite

\* When the instruction is of the node's type, what fits must give it to the node,
\* or to no node before the next Any.
LEMMA MatchedIsFound ==
  ASSUME Ready, NEW x \in Positions, MatchCalls(x) \subseteq NoneMissed,
         x.caller \in {0} \cup Decodable, Definite(x.schema), x.any <=> AfterAny(x),
         NEW f, FitsFrom(x, f),
         x.node \in Steps(x.schema), x.ix <= Len(ParsedBelow[x.caller]),
         Parsed(ParsedBelow[x.caller][x.ix]) = Schemas[x.schema][x.node].type
  PROVE  Matched(Match, x) # {}
<1>1. PICK s, a, node, m :
        s = x.schema /\ a = x.node /\ node = Schemas[s][a] /\ m = ParsedBelow[x.caller][x.ix]
  OBVIOUS
<1>2. PICK y : y = [x EXCEPT !.node = @ + 1, !.ix = @ + 1, !.any = FALSE]
  OBVIOUS
<1>3. /\ s \in DOMAIN Schemas /\ a \in Steps(s) /\ a \in Nat /\ a <= Len(Schemas[s]) /\ ~node.any
      /\ \A i \in Steps(s) : i \in Nat
  BY <1>1, StepsAreNumbers DEF Positions, Steps
<1>4. y \in MatchCalls(x) /\ (node.inner # 0 => FirstPosition(node.inner, m) \in MatchCalls(x))
  BY <1>1, <1>2, <1>3, CallsArePositions
<1>5. /\ y.schema = s /\ y.caller = x.caller /\ y.node = a + 1 /\ y.ix = x.ix + 1 /\ y.any = FALSE
      /\ x.ix \in Nat \ {0} /\ y \in Positions
  BY <1>1, <1>2, <1>4 DEF Positions, MatchCalls
<1>6. m \in CalledBy(x.caller) /\ Place(x.caller, m) = x.ix /\ m \in Decodable
  <2>1. x.ix \in 1..Len(ParsedBelow[x.caller])
    BY <1>5, ParsedPlaces
  <2>2. m \in CalledBy(x.caller) /\ Place(x.caller, m) = x.ix
    BY <1>1, <2>1, ParsedPlaces
  <2> QED
    BY <2>2 DEF CalledBy
<1>7. FitsStep(x, a, f)
  BY <1>1, <1>3 DEF FitsFrom
<1>8. /\ Chosen(x, a, f) \in CalledBy(x.caller)
      /\ ChosenPlace(x, a, f) \in Nat /\ ChosenPlace(x, a, f) >= x.ix
      /\ ParsedBelow[x.caller][ChosenPlace(x, a, f)] = Chosen(x, a, f)
  BY <1>7, ParsedPlaces, PlacesAreNumbers DEF FitsStep, ChosenPlace
<1>9. FitsFrom(y, f) /\ MatchInner(Match, node.inner, m) # {}
  <2>1. CASE ~x.any
    <3>1. ChosenPlace(x, a, f) = x.ix
      BY <1>1, <1>7, <2>1 DEF FitsStep
    <3>2. Chosen(x, a, f) = m
      BY <1>1, <1>8, <3>1
    <3>3. FitsInner(node.inner, m, f) /\ FitsFrom(y, f)
      BY <1>1, <1>2, <1>3, <1>8, <3>1, <3>2, FitsAfterMatch
    <3>4. ASSUME node.inner # 0 PROVE Match[FirstPosition(node.inner, m)] # {}
      <4>1. PICK z : z = FirstPosition(node.inner, m)
        OBVIOUS
      <4>2. z.schema = node.inner /\ z.caller = m /\ z.node = 1 /\ ~z.any
        BY <4>1 DEF FirstPosition
      <4>3. z \in NoneMissed
        BY <1>4, <3>4, <4>1
      <4>4. node.inner \in DOMAIN Schemas /\ Definite(node.inner)
        BY <1>1, <1>3, <3>4, SchemaTypes, InnersAreDefinite
      <4>5. FitsFrom(z, f)
        BY <1>6, <3>3, <3>4, <4>1, <4>4, FitsFirst DEF FitsInner
      <4>6. ~AfterAny(z)
        BY <4>2 DEF AfterAny
      <4> QED
        BY <1>6, <4>1, <4>2, <4>3, <4>4, <4>5, <4>6 DEF NoneMissed
    <3> QED
      BY <3>3, <3>4 DEF MatchInner
  <2>2. CASE x.any
    <3>1. node.inner = 0 /\ a + 1 \notin Steps(s)
      <4>1. a - 1 \in DOMAIN Schemas[s] \ Steps(s) /\ s \in Parts[s]
        BY <1>1, <1>3, <2>2, PartsRecursion DEF AfterAny
      <4> QED
        BY <1>1, <1>3, <4>1 DEF Definite
    <3>2. ASSUME NEW i \in Steps(s), y.node <= i PROVE FitsStep(y, i, f)
      <4>1. i \in Nat /\ i # a + 1 /\ a < i /\ y.node <= i - 1 /\ a <= i - 1 /\ a <= i
        BY <1>3, <1>5, <3>1, <3>2
      <4>2. FitsStep(x, i, f)
        BY <1>1, <4>1 DEF FitsFrom
      <4>3. ChosenPlace(x, i, f) \in Nat /\ ChosenPlace(x, a, f) < ChosenPlace(x, i, f)
        <5>1. Chosen(x, i, f) \in CalledBy(x.caller)
          BY <4>2 DEF FitsStep
        <5>2. a \in Steps(x.schema) /\ x.node <= a
          BY <1>1, <1>3
        <5>3. ChosenPlace(x, a, f) < ChosenPlace(x, i, f)
          BY <4>1, <4>2, <5>2 DEF FitsStep
        <5>4. ChosenPlace(x, i, f) \in Nat
          BY <5>1, PlacesAreNumbers DEF ChosenPlace
        <5> QED
          BY <5>3, <5>4
      <4>4. ChosenPlace(x, i, f) >= y.ix
        BY <1>5, <1>8, <4>3
      <4>5. /\ \A j : Chosen(y, j, f) = Chosen(x, j, f) /\ ChosenPlace(y, j, f) = ChosenPlace(x, j, f)
            /\ \A j \in Steps(s) : y.node <= j => x.node <= j
            /\ x.node <= i - 1 /\ i # y.node
        BY <1>1, <1>3, <1>5, <4>1 DEF Chosen, ChosenPlace
      <4> QED
        BY <1>1, <1>5, <4>2, <4>4, <4>5 DEF FitsStep
    <3>3. MatchInner(Match, node.inner, m) = {NoNames}
      BY <3>1 DEF MatchInner
    <3> QED
      BY <1>5, <3>2, <3>3 DEF FitsFrom
  <2> QED
    BY <2>1, <2>2
<1>10. Match[y] # {}
  <2>1. y \in NoneMissed
    BY <1>4
  <2>2. ~AfterAny(y)
    BY <1>3, <1>5 DEF AfterAny
  <2> QED
    BY <1>1, <1>5, <1>9, <2>1, <2>2 DEF NoneMissed
<1>11. PICK rest \in Match[y], inner \in MatchInner(Match, node.inner, m) : TRUE
  BY <1>9, <1>10
<1>12. MergeHashmaps(MergeHashmaps([name \in {node.name} |-> m], inner), rest) \in Matched(Match, x)
  BY <1>1, <1>2, <1>11 DEF Matched, MatchedThen
<1> QED
  BY <1>12

LEMMA MatchMissesNone ==
  ASSUME Ready
  PROVE  NoneMissed = Positions
<1>1. NoneMissed \in SUBSET Positions
  BY DEF NoneMissed
<1>2. ASSUME NEW x \in Positions, MatchCalls(x) \subseteq NoneMissed,
             x.caller \in {0} \cup Decodable, Definite(x.schema), x.any <=> AfterAny(x),
             NEW f, FitsFrom(x, f)
      PROVE  Match[x] # {}
  <2> DEFINE nodes == Schemas[x.schema]
             node  == nodes[x.node]
             ixs   == ParsedBelow[x.caller]
  <2>1. Match[x] = MatchNodes(Match, x)
    BY <1>2, MatchRecursion
  <2>2. /\ x.schema \in DOMAIN Schemas /\ x.node \in Nat \ {0} /\ x.ix \in Nat \ {0}
        /\ Len(nodes) \in Nat /\ DOMAIN nodes = 1..Len(nodes) /\ Len(ixs) \in Nat
    BY <1>2, SchemaTypes, ParsedPlaces DEF Positions
  <2>3. CASE x.node > Len(nodes)
    BY <2>1, <2>3 DEF MatchNodes
  <2>4. CASE x.node <= Len(nodes) /\ node.any
    <3>1. PICK y : y = [x EXCEPT !.node = @ + 1, !.any = TRUE]
      OBVIOUS
    <3>2. Match[x] = Match[y]
      <4>1. ~(x.node > Len(nodes))
        BY <2>2, <2>4
      <4> QED
        BY <2>1, <2>4, <3>1, <4>1 DEF MatchNodes
    <3>3. y \in NoneMissed
      BY <1>2, <2>4, <3>1, CallsArePositions
    <3>4. y.schema = x.schema /\ y.caller = x.caller /\ y.node = x.node + 1 /\ y.any = TRUE
      BY <3>1 DEF Positions
    <3>5. x.node \in DOMAIN nodes \ Steps(x.schema)
      BY <2>2, <2>4 DEF Steps
    <3>6. AfterAny(y)
      BY <2>2, <3>4, <3>5 DEF AfterAny
    <3>7. FitsFrom(y, f)
      BY <1>2, <3>1, <3>5, FitsAfterAny
    <3> QED
      BY <1>2, <3>2, <3>3, <3>4, <3>6, <3>7 DEF NoneMissed
  <2>5. CASE x.node <= Len(nodes) /\ ~node.any
    <3>1. x.node \in Steps(x.schema) /\ ~(x.node > Len(nodes))
      BY <2>2, <2>5 DEF Steps
    <3>2. FitsStep(x, x.node, f)
      BY <1>2, <2>2, <3>1 DEF FitsFrom
    <3>3. /\ ChosenPlace(x, x.node, f) \in 1..Len(ixs) /\ ChosenPlace(x, x.node, f) >= x.ix
          /\ ixs[ChosenPlace(x, x.node, f)] = Chosen(x, x.node, f)
      BY <1>2, <3>2, ParsedPlaces DEF FitsStep, ChosenPlace
    <3>4. x.ix <= Len(ixs) /\ ~(x.ix > Len(ixs))
      BY <2>2, <3>3
    <3>5. CASE Parsed(ixs[x.ix]) = node.type
      <4>1. Matched(Match, x) # {}
        BY <1>2, <3>1, <3>4, <3>5, MatchedIsFound
      <4> QED
        BY <2>1, <2>5, <3>1, <3>4, <3>5, <4>1 DEF MatchNodes
    <3>6. CASE Parsed(ixs[x.ix]) # node.type
      <4>1. PICK y : y = [x EXCEPT !.ix = @ + 1]
        OBVIOUS
      <4>2. ChosenPlace(x, x.node, f) # x.ix
        <5>1. Parsed(Chosen(x, x.node, f)) = node.type
          BY <3>2 DEF FitsStep
        <5> QED
          BY <3>3, <3>6, <5>1
      <4>3. x.any
        BY <3>2, <4>2 DEF FitsStep
      <4>4. Match[x] = Match[y]
        <5>1. Match[x] = Skipped(Match, x)
          BY <2>1, <2>5, <3>1, <3>4, <3>6 DEF MatchNodes
        <5> QED
          BY <4>1, <4>3, <5>1 DEF Skipped
      <4>5. y \in NoneMissed
        BY <1>2, <2>5, <3>4, <4>1, CallsArePositions
      <4>6. y.schema = x.schema /\ y.caller = x.caller /\ y.node = x.node /\ y.any = x.any
        BY <4>1 DEF Positions
      <4>7. AfterAny(y) <=> AfterAny(x)
        BY <4>6 DEF AfterAny
      <4>8. FitsFrom(y, f)
        BY <1>2, <3>1, <4>1, <4>2, <4>3, FitsAfterSkip
      <4> QED
        BY <1>2, <4>4, <4>5, <4>6, <4>7, <4>8 DEF NoneMissed
    <3> QED
      BY <3>5, <3>6
  <2> QED
    BY <2>2, <2>3, <2>4, <2>5
<1>3. \A x \in Positions : MatchCalls(x) \subseteq NoneMissed => x \in NoneMissed
  BY <1>2 DEF NoneMissed
<1> QED
  BY <1>1, <1>3, MatchInduction

\* A pipe's first call of match_nodes.
LEMMA RootPosition ==
  ASSUME Ready, NEW s \in DOMAIN Schemas, NEW x, x = FirstPosition(s, 0)
  PROVE  /\ x \in Positions /\ x.schema = s /\ x.caller = 0 /\ x.node = 1 /\ ~x.any
         /\ \A f : FitsFrom(x, f) <=> Fits(s, f)
<1>1. x \in Positions /\ x.schema = s /\ x.caller = 0 /\ x.node = 1 /\ ~x.any
  BY DEF FirstPosition, Positions, Tree
<1>2. \A f : FitsFrom(x, f) <=> FitsNodes(s, 0, f) /\ FitsBelow(s, f)
  BY FitsFirst
<1>3. \A f : Fits(s, f) <=> FitsNodes(s, 0, f) /\ FitsBelow(s, f)
  BY DEF Fits, FitsBelow
<1> QED
  BY <1>1, <1>2, <1>3

\* The data a transaction pipe gives its processor are in the transaction, in the
\* way its schema demands: for every schema, however deep, and every transaction.
THEOREM MatchesAreTrue == DispatchSpec => []NoFalseMatch
<1>1. DispatchInv /\ LevelInv => NoFalseMatch
  <2> SUFFICES ASSUME DispatchInv, LevelInv, NEW pipe \in JustCalled, pipe.schema # 0, ~pipe.acceptsNull,
                      NEW f \in Given(pipe).data
               PROVE  DOMAIN f = Names(pipe.schema) /\ Fits(pipe.schema, f)
    BY DEF NoFalseMatch
  <2>1. Ready /\ pipe.schema \in DOMAIN Schemas
    BY CalledIsReady, SchemasAssumption
  <2>2. PICK x : x = FirstPosition(pipe.schema, 0)
    OBVIOUS
  <2>3. f \in Match[x]
    BY <2>2 DEF Given, MatchSchema
  <2>4. x \in Positions /\ x.schema = pipe.schema /\ x.caller = 0 /\ x.node = 1
    BY <2>1, <2>2, RootPosition
  <2>5. Found(x, f)
    BY <2>1, <2>3, <2>4, MatchIsTrue DEF OnlyTrue
  <2>6. NamesFrom(pipe.schema, 1) = Names(pipe.schema)
    BY <2>1, NamesFromAny
  <2>7. Fits(pipe.schema, f)
    BY <2>1, <2>2, <2>5, RootPosition DEF Found
  <2> QED
    BY <2>4, <2>5, <2>6, <2>7 DEF Found
<1> QED
  BY <1>1, DispatchInvariance, TransactionsAreLeveled, PTL

\* A transaction pipe whose schema is definite finds data whenever some of the
\* transaction's instructions are what the schema demands.
THEOREM MissesAreTrue == DispatchSpec => []NoFalseMiss
<1>1. DispatchInv /\ LevelInv => NoFalseMiss
  <2> SUFFICES ASSUME DispatchInv, LevelInv, NEW pipe \in JustCalled,
                      pipe.schema # 0, Given(pipe).data = {}, Definite(pipe.schema),
                      NEW f, Fits(pipe.schema, f)
               PROVE  FALSE
    BY DEF NoFalseMiss
  <2>1. Ready /\ pipe.schema \in DOMAIN Schemas
    BY CalledIsReady, SchemasAssumption
  <2>2. PICK x : x = FirstPosition(pipe.schema, 0)
    OBVIOUS
  <2>3. Match[x] = {}
    BY <2>2 DEF Given, MatchSchema
  <2>4. x \in Positions /\ x.schema = pipe.schema /\ x.caller = 0 /\ x.node = 1 /\ ~x.any
    BY <2>1, <2>2, RootPosition
  <2>5. ~AfterAny(x)
    BY <2>4 DEF AfterAny
  <2>6. FitsFrom(x, f)
    BY <2>1, <2>2, RootPosition
  <2> QED
    BY <2>1, <2>3, <2>4, <2>5, <2>6, MatchMissesNone DEF NoneMissed
<1> QED
  BY <1>1, DispatchInvariance, TransactionsAreLeveled, PTL
=============================================================================
