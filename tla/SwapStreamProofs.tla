--------------------------- MODULE SwapStreamProofs ---------------------------
(***************************************************************************)
(* Proofs about SwapStream, VolumeBackfill and EmaBackfill, for any finite *)
(* set of swaps grouped into transactions and pairs in any way, any batch  *)
(* sizes and any limits.                                                   *)
(*                                                                         *)
(* The writers of the table (indexer, enricher and the two scripts) and    *)
(* the restarts and losses of the listener all act on one queue, so the    *)
(* invariant below relates the table, the queue, the buffer and what the   *)
(* clients were sent.  Its conjuncts are kept by SwapStream's own steps    *)
(* and by those of either script.                                          *)
(***************************************************************************)
EXTENDS EmaBackfill, FiniteSetTheorems, SequenceTheorems, TLAPS

USE TxOfAssumption, SwapsAssumption DEF TxOfAssumption, SwapsAssumption

\* The fields of a notification, by names the provers keep whole.
Kind(n)     == n.op
RowOf(n)    == n.row
VolumeOf(n) == n.volume

Waiting(s)  == \E i \in 1..Len(buffer) : buffer[i] = s
Told(s)     == emitted[s] # <<>>
HasVolume(s) == volume[s] \notin {"absent", "null"}

\* An INSERT in the queue has no volume yet, and the rows are in the table.
NotesOk ==
  \A i \in 1..Len(toGrpc) :
    /\ Kind(toGrpc[i]) = "INSERT" => VolumeOf(toGrpc[i]) = "null"
    /\ volume[RowOf(toGrpc[i])] # "absent"

\* Nothing is known of a row before it is in the table.
FirstSeen ==
  \A s \in Swaps : volume[s] = "absent" => ~Told(s) /\ ~Waiting(s)

\* An INSERT in the queue is the first thing the listener hears of its row.
InsertFirst ==
  \A s \in Swaps : \A i \in 1..Len(toGrpc) :
    Kind(toGrpc[i]) = "INSERT" /\ RowOf(toGrpc[i]) = s =>
      ~Told(s) /\ ~Waiting(s) /\ \A j \in 1..(i - 1) : RowOf(toGrpc[j]) # s

\* A row that waits in the buffer was not broadcast yet.
WaitingUntold == \A s \in Swaps : Waiting(s) => ~Told(s)

\* While a row has no volume nobody is told, or about to be told, of one.
ToldPlain(s) == \A k \in 1..Len(emitted[s]) : emitted[s][k] = "null"
OnlyPlain ==
  \A s \in Swaps : ~HasVolume(s) =>
    /\ ToldPlain(s)
    /\ \A i \in 1..Len(toGrpc) : RowOf(toGrpc[i]) = s => VolumeOf(toGrpc[i]) = "null"

\* What is queued without a volume comes before all that has one.
PlainAhead ==
  \A s \in Swaps : \A i \in 1..Len(toGrpc) :
    RowOf(toGrpc[i]) = s /\ VolumeOf(toGrpc[i]) = "null" =>
      /\ ToldPlain(s)
      /\ \A j \in 1..(i - 1) : RowOf(toGrpc[j]) = s => VolumeOf(toGrpc[j]) = "null"

\* The last the queue says of s is what the table holds.
QueueAgrees(s) ==
  \E i \in 1..Len(toGrpc) :
    /\ RowOf(toGrpc[i]) = s /\ VolumeOf(toGrpc[i]) = volume[s]
    /\ \A j \in i..Len(toGrpc) : RowOf(toGrpc[j]) = s => VolumeOf(toGrpc[j]) = volume[s]

\* The queue says nothing of s, and the clients were last told what the table
\* holds.
ClientsAgree(s) ==
  /\ \A i \in 1..Len(toGrpc) : RowOf(toGrpc[i]) # s
  /\ Told(s) /\ emitted[s][Len(emitted[s])] = volume[s]

Agreement ==
  ~missed => \A s \in Swaps : HasVolume(s) => QueueAgrees(s) \/ ClientsAgree(s)

\* A row alone in its transaction is announced, waits or was broadcast.
Tracked(s) ==
  Told(s) \/ Waiting(s) \/ \E i \in 1..Len(toGrpc) : RowOf(toGrpc[i]) = s

NoneLost ==
  ~missed => \A s \in Swaps :
    volume[s] # "absent" /\ Siblings(s) = {s} => Tracked(s)

\* The inductive invariant of the stream.
StreamInv ==
  /\ TypeOK
  /\ NotesOk /\ FirstSeen /\ InsertFirst /\ WaitingUntold
  /\ OnlyPlain /\ PlainAhead /\ VolumesStayTold
  /\ Agreement
  /\ NoneLost

-----------------------------------------------------------------------------
(* The buffer and the notifications.                                       *)

\* Others(s) keeps exactly the entries of other transactions, each once.
LEMMA OthersOk ==
  ASSUME TypeOK, NEW s \in Swaps
  PROVE  /\ Others(s) \in Seq(Swaps)
         /\ \A i, j \in 1..Len(Others(s)) : TxOf[Others(s)[i]] = TxOf[Others(s)[j]] => i = j
         /\ \A i \in 1..Len(Others(s)) :
              TxOf[Others(s)[i]] # TxOf[s] /\ \E k \in 1..Len(buffer) : buffer[k] = Others(s)[i]
         /\ \A k \in 1..Len(buffer) : TxOf[buffer[k]] # TxOf[s] =>
              \E i \in 1..Len(Others(s)) : Others(s)[i] = buffer[k]
<1> DEFINE places == {i \in 1..Len(buffer) : TxOf[buffer[i]] = TxOf[s]}
           here   == CHOOSE i \in places : TRUE
           front  == SubSeq(buffer, 1, here - 1)
           rest   == SubSeq(buffer, here + 1, Len(buffer))
<1>1. /\ buffer \in Seq(Swaps)
      /\ \A i, j \in 1..Len(buffer) : TxOf[buffer[i]] = TxOf[buffer[j]] => i = j
  BY DEF TypeOK
<1>2. CASE places = {}
  <2>1. Others(s) = buffer
    BY <1>2 DEF Others
  <2>2. \A i \in 1..Len(buffer) : TxOf[buffer[i]] # TxOf[s]
    BY <1>2
  <2> QED BY <1>1, <2>1, <2>2
<1>3. CASE places # {}
  <2>1. here \in 1..Len(buffer) /\ TxOf[buffer[here]] = TxOf[s]
    BY <1>3
  <2>2. Others(s) = front \o rest
    BY <1>3 DEF Others
  <2> HIDE DEF here
  <2>3. /\ front \in Seq(Swaps) /\ Len(front) = here - 1
        /\ \A i \in 1..(here - 1) : front[i] = buffer[i]
    BY <1>1, <2>1
  <2>4. /\ rest \in Seq(Swaps) /\ Len(rest) = Len(buffer) - here
        /\ \A i \in 1..(Len(buffer) - here) : rest[i] = buffer[here + i]
    BY <1>1, <2>1
  <2> DEFINE kept == Others(s)
  <2> HIDE DEF front, rest
  <2>5. /\ kept \in Seq(Swaps) /\ Len(kept) = Len(buffer) - 1
        /\ \A i \in 1..Len(kept) :
             kept[i] = IF i < here THEN buffer[i] ELSE buffer[i + 1]
    <3>3. /\ kept \in Seq(Swaps) /\ Len(kept) = Len(front) + Len(rest)
          /\ \A i \in 1..Len(kept) :
               kept[i] = IF i <= Len(front) THEN front[i] ELSE rest[i - Len(front)]
      <4> DEFINE joined == front \o rest
      <4>1. /\ joined \in Seq(Swaps) /\ Len(joined) = Len(front) + Len(rest)
            /\ \A i \in 1..Len(front) + Len(rest) :
                 joined[i] = IF i <= Len(front) THEN front[i] ELSE rest[i - Len(front)]
        BY <2>3, <2>4, ConcatProperties, Zenon
      <4>2. kept = joined
        BY <2>2
      <4> HIDE DEF joined, kept
      <4> QED BY <4>1, <4>2
    <3>1. kept \in Seq(Swaps) /\ Len(kept) = Len(buffer) - 1
      BY <1>1, <2>1, <2>3, <2>4, <3>3
    <3>2. ASSUME NEW i \in 1..Len(kept)
          PROVE  kept[i] = IF i < here THEN buffer[i] ELSE buffer[i + 1]
      <4>1. kept[i] = IF i <= Len(front) THEN front[i] ELSE rest[i - Len(front)]
        BY <3>3
      <4>2. CASE i < here
        BY <4>1, <4>2, <2>1, <2>3
      <4>3. CASE ~(i < here)
        <5>1. i - (here - 1) \in 1..(Len(buffer) - here) /\ here + (i - (here - 1)) = i + 1
          BY <1>1, <2>1, <3>1, <4>3
        <5>2. kept[i] = rest[i - (here - 1)]
          BY <4>1, <4>3, <2>1, <2>3
        <5> QED BY <5>1, <5>2, <4>3, <2>4
      <4> QED BY <4>2, <4>3
    <3> QED BY <3>1, <3>2
  <2> HIDE DEF kept
  <2>6. \A i \in 1..Len(kept) : IF i < here THEN i \in 1..Len(buffer) ELSE i + 1 \in 1..Len(buffer)
    BY <1>1, <2>1, <2>5
  <2>7. \A k \in 1..Len(buffer) : TxOf[buffer[k]] = TxOf[s] => k = here
    BY <1>1, <2>1
  <2>8. \A i, j \in 1..Len(kept) : TxOf[kept[i]] = TxOf[kept[j]] => i = j
    <3> SUFFICES ASSUME NEW i \in 1..Len(kept), NEW j \in 1..Len(kept),
                        TxOf[kept[i]] = TxOf[kept[j]]
                 PROVE  i = j
      OBVIOUS
    <3>1. (IF i < here THEN i ELSE i + 1) = (IF j < here THEN j ELSE j + 1)
      BY <1>1, <2>5, <2>6
    <3> QED BY <3>1, <2>1
  <2>9. \A i \in 1..Len(kept) :
          TxOf[kept[i]] # TxOf[s] /\ \E k \in 1..Len(buffer) : buffer[k] = kept[i]
    BY <2>1, <2>5, <2>6, <2>7
  <2>10. ASSUME NEW k \in 1..Len(buffer), TxOf[buffer[k]] # TxOf[s]
         PROVE  \E i \in 1..Len(kept) : kept[i] = buffer[k]
    <3>1. k # here
      BY <2>1, <2>10
    <3>2. CASE k < here
      BY <3>2, <2>1, <2>5
    <3>3. CASE k > here
      <4>1. k - 1 \in 1..Len(kept) /\ ~(k - 1 < here) /\ (k - 1) + 1 = k
        BY <1>1, <3>3, <2>1, <2>5
      <4> QED BY <4>1, <2>5
    <3> QED BY <3>1, <3>2, <3>3, <2>1, <1>1
  <2>12. \A k \in 1..Len(buffer) : TxOf[buffer[k]] # TxOf[s] =>
           \E i \in 1..Len(kept) : kept[i] = buffer[k]
    BY <2>10
  <2> QED BY <2>5, <2>8, <2>9, <2>12 DEF kept
<1> QED BY <1>2, <1>3

LEMMA NoteFields ==
  \A n \in Notifications :
    Kind(n) \in {"INSERT", "UPDATE"} /\ RowOf(n) \in Swaps /\ VolumeOf(n) \in Volumes
  BY DEF Notifications, Kind, RowOf, VolumeOf

\* A statement that touches the rows sends each of them its notification, and
\* nothing else.
LEMMA NoticesOk ==
  ASSUME NEW touched \in SUBSET Swaps, NEW v, NEW ns \in UpdateNotices(touched, v)
  PROVE  /\ ns \in Seq([op : {"UPDATE"}, row : touched, volume : {v}])
         /\ \A i \in 1..Len(ns) :
              Kind(ns[i]) = "UPDATE" /\ RowOf(ns[i]) \in touched /\ VolumeOf(ns[i]) = v
         /\ \A r \in touched : \E i \in 1..Len(ns) : RowOf(ns[i]) = r
<1>1. Cardinality(touched) \in Nat
  BY FS_Subset, FS_CardinalityType
<1>2. ns \in [1..Cardinality(touched) -> [op : {"UPDATE"}, row : touched, volume : {v}]]
  BY DEF UpdateNotices
<1> DEFINE n    == Cardinality(touched)
           Note == [op : {"UPDATE"}, row : touched, volume : {v}]
<1>3. n \in Nat /\ ns \in [1..n -> Note]
  BY <1>1, <1>2
<1> HIDE DEF n, Note
<1>5. Len(ns) = n /\ ns \in Seq(Note)
  BY <1>3
<1>4. \A r \in touched : \E i \in DOMAIN ns : RowOf(ns[i]) = r
  BY DEF UpdateNotices, RowOf
<1>6. \A i \in 1..Len(ns) : ns[i] \in Note
  BY <1>5
<1>7. \A m \in Note : Kind(m) = "UPDATE" /\ RowOf(m) \in touched /\ VolumeOf(m) = v
  BY DEF Note, Kind, RowOf, VolumeOf
<1>8. DOMAIN ns = 1..Len(ns)
  BY <1>3, <1>5
<1>9. ns \in Seq([op : {"UPDATE"}, row : touched, volume : {v}])
  BY <1>5 DEF Note
<1> QED BY <1>4, <1>6, <1>7, <1>8, <1>9, Zenon

-----------------------------------------------------------------------------
LEMMA StreamStart == Init => StreamInv
<1> SUFFICES ASSUME Init PROVE StreamInv
  OBVIOUS
<1>1. /\ volume = [s \in Swaps |-> "absent"] /\ emitted = [s \in Swaps |-> <<>>]
      /\ toGrpc = <<>> /\ buffer = <<>>
  BY DEF Init
<1>2. TypeOK
  <2>1. emitted \in [Swaps -> Seq(Volumes)]
    BY <1>1
  <2>2. /\ toGrpc \in Seq(Notifications) /\ buffer \in Seq(Swaps)
        /\ \A i, j \in 1..Len(buffer) : TxOf[buffer[i]] = TxOf[buffer[j]] => i = j
    BY <1>1
  <2> QED BY <1>1, <2>1, <2>2 DEF Init, TypeOK
<1>3. NotesOk /\ FirstSeen /\ InsertFirst /\ WaitingUntold
  BY <1>1 DEF NotesOk, FirstSeen, InsertFirst, WaitingUntold, Told, Waiting
<1>4. OnlyPlain /\ PlainAhead /\ VolumesStayTold /\ Agreement /\ NoneLost
  BY <1>1 DEF OnlyPlain, PlainAhead, VolumesStayTold, ToldPlain, Agreement, NoneLost, HasVolume
<1> QED BY <1>2, <1>3, <1>4 DEF StreamInv

-----------------------------------------------------------------------------
(* What a commit and a read do to the queue.                               *)

LEMMA Sent ==
  ASSUME TypeOK, NEW ns \in Seq(Notifications), Notify(ns)
  PROVE  /\ toGrpc' \in Seq(Notifications)
         /\ link = "up" =>
              /\ Len(toGrpc') = Len(toGrpc) + Len(ns)
              /\ \A i \in 1..Len(ns) : toGrpc'[Len(toGrpc) + i] = ns[i]
         /\ \A i \in 1..Len(toGrpc) : i \in 1..Len(toGrpc') /\ toGrpc'[i] = toGrpc[i]
         /\ \A i \in 1..Len(toGrpc') :
              \/ i \in 1..Len(toGrpc)
              \/ \E k \in 1..Len(ns) : i = Len(toGrpc) + k /\ toGrpc'[i] = ns[k]
         /\ link # "up" => toGrpc' = <<>>
         /\ ~missed' => ~missed /\ link = "up"
         /\ missed' \in BOOLEAN
<1>1. /\ toGrpc \in Seq(Notifications) /\ missed \in BOOLEAN
      /\ link # "up" => toGrpc = <<>>
  BY DEF TypeOK
<1>2. /\ toGrpc' = IF link = "up" THEN toGrpc \o ns ELSE toGrpc
      /\ missed' = (missed \/ link # "up")
  BY DEF Notify
<1> DEFINE joined == toGrpc \o ns
<1>3. /\ joined \in Seq(Notifications) /\ Len(joined) = Len(toGrpc) + Len(ns)
      /\ \A i \in 1..Len(toGrpc) + Len(ns) :
           joined[i] = IF i <= Len(toGrpc) THEN toGrpc[i] ELSE ns[i - Len(toGrpc)]
  <2>1. toGrpc \in Seq(Notifications)
    BY <1>1
  <2> HIDE DEF Notifications
  <2> QED BY <2>1, ConcatProperties
<1>4. Len(toGrpc) \in Nat /\ Len(ns) \in Nat
  BY <1>1
<1> HIDE DEF joined
<1>5. CASE link = "up"
  <2>1. toGrpc' = joined
    BY <1>2, <1>5 DEF joined
  <2>2. \A i \in 1..Len(ns) : joined[Len(toGrpc) + i] = ns[i]
    BY <1>3, <1>4
  <2>3. \A i \in 1..Len(joined) :
          \/ i \in 1..Len(toGrpc)
          \/ \E k \in 1..Len(ns) : i = Len(toGrpc) + k /\ joined[i] = ns[k]
    <3> SUFFICES ASSUME NEW i \in 1..Len(joined), i \notin 1..Len(toGrpc)
                 PROVE  \E k \in 1..Len(ns) : i = Len(toGrpc) + k /\ joined[i] = ns[k]
      OBVIOUS
    <3>1. i - Len(toGrpc) \in 1..Len(ns) /\ i = Len(toGrpc) + (i - Len(toGrpc))
      BY <1>3, <1>4
    <3>2. joined[i] = ns[i - Len(toGrpc)]
      BY <1>3, <1>4
    <3> QED BY <3>1, <3>2
  <2>4. \A i \in 1..Len(toGrpc) : i \in 1..Len(joined) /\ joined[i] = toGrpc[i]
    BY <1>3, <1>4
  <2> QED BY <1>1, <1>2, <1>3, <1>5, <2>1, <2>2, <2>3, <2>4
<1>6. CASE link # "up"
  BY <1>1, <1>2, <1>6
<1> QED BY <1>5, <1>6

LEMMA Received ==
  ASSUME TypeOK, toGrpc # <<>>, toGrpc' = Tail(toGrpc)
  PROVE  /\ Head(toGrpc) = toGrpc[1] /\ Head(toGrpc) \in Notifications
         /\ 1 \in 1..Len(toGrpc)
         /\ toGrpc' \in Seq(Notifications)
         /\ Len(toGrpc') = Len(toGrpc) - 1 /\ Len(toGrpc) \in Nat
         /\ \A i \in 1..Len(toGrpc') : i + 1 \in 1..Len(toGrpc) /\ toGrpc'[i] = toGrpc[i + 1]
         /\ \A i \in 1..Len(toGrpc) : i # 1 =>
              i - 1 \in 1..Len(toGrpc') /\ toGrpc'[i - 1] = toGrpc[i]
<1>1. toGrpc \in Seq(Notifications)
  BY DEF TypeOK
<1> QED BY <1>1

-----------------------------------------------------------------------------
(* The writers of the table.                                               *)

LEMMA InsertStep ==
  ASSUME StreamInv, NEW s \in Swaps, Insert(s)
  PROVE  StreamInv'
<1> DEFINE note == [op |-> "INSERT", row |-> s, volume |-> "null"]
           ns   == <<note>>
<1>1. /\ volume[s] = "absent" /\ volume' = [volume EXCEPT ![s] = "null"]
      /\ Notify(ns) /\ jobs' = jobs \cup {s}
      /\ UNCHANGED <<link, buffer, emitted, restarted>>
  BY DEF Insert
<1>2. /\ TypeOK /\ NotesOk /\ FirstSeen /\ InsertFirst /\ WaitingUntold
      /\ OnlyPlain /\ PlainAhead /\ VolumesStayTold
      /\ Agreement /\ NoneLost
  BY DEF StreamInv
<1>3. ns \in Seq(Notifications) /\ Len(ns) = 1 /\ ns[1] = note
  BY DEF Notifications, Volumes
<1>4. Kind(note) = "INSERT" /\ RowOf(note) = s /\ VolumeOf(note) = "null"
  BY DEF Kind, RowOf, VolumeOf
<1> HIDE DEF note, ns
<1>5. /\ toGrpc' \in Seq(Notifications)
      /\ link = "up" => Len(toGrpc') = Len(toGrpc) + 1 /\ toGrpc'[Len(toGrpc) + 1] = note
      /\ \A i \in 1..Len(toGrpc) : i \in 1..Len(toGrpc') /\ toGrpc'[i] = toGrpc[i]
      /\ \A i \in 1..Len(toGrpc') :
           i \in 1..Len(toGrpc) \/ (i = Len(toGrpc) + 1 /\ toGrpc'[i] = note)
      /\ link # "up" => toGrpc' = <<>>
      /\ ~missed' => ~missed /\ link = "up"
      /\ missed' \in BOOLEAN
  <2>1. /\ toGrpc' \in Seq(Notifications)
        /\ link = "up" =>
             /\ Len(toGrpc') = Len(toGrpc) + Len(ns)
             /\ \A i \in 1..Len(ns) : toGrpc'[Len(toGrpc) + i] = ns[i]
        /\ \A i \in 1..Len(toGrpc) : i \in 1..Len(toGrpc') /\ toGrpc'[i] = toGrpc[i]
        /\ \A i \in 1..Len(toGrpc') :
             \/ i \in 1..Len(toGrpc)
             \/ \E k \in 1..Len(ns) : i = Len(toGrpc) + k /\ toGrpc'[i] = ns[k]
        /\ link # "up" => toGrpc' = <<>>
        /\ ~missed' => ~missed /\ link = "up"
        /\ missed' \in BOOLEAN
    BY <1>1, <1>2, <1>3, Sent, Zenon
  <2>2. \A i \in 1..Len(ns) : i = 1
    BY <1>3
  <2>3. 1 \in 1..Len(ns)
    BY <1>3
  <2> QED BY <1>3, <2>1, <2>2, <2>3, Zenon
<1>6. Len(toGrpc) \in Nat /\ Len(toGrpc') \in Nat /\ DOMAIN volume = Swaps
  BY <1>2, <1>5 DEF TypeOK
<1>7. /\ volume'[s] = "null"
      /\ \A r \in Swaps : r # s => volume'[r] = volume[r]
  BY <1>1, <1>6
<1>8. TypeOK'
  <2>1. DOMAIN volume' = Swaps /\ \A r \in Swaps :
          volume'[r] \in {"absent", "null", "zero"} \cup Siblings(r)
    BY <1>1, <1>2, <1>7 DEF TypeOK
  <2> QED BY <1>1, <1>2, <1>5, <2>1 DEF TypeOK, Siblings
<1>9. \A r \in Swaps : Waiting(r)' = Waiting(r) /\ Told(r)' = Told(r)
  BY <1>1 DEF Waiting, Told
<1>10. \A i \in 1..Len(toGrpc) : RowOf(toGrpc[i]) \in Swaps /\ RowOf(toGrpc[i]) # s
  <2>1. \A i \in 1..Len(toGrpc) : toGrpc[i] \in Notifications
    BY <1>2 DEF TypeOK
  <2> QED BY <1>1, <1>2, <2>1, NoteFields DEF NotesOk
<1>11. NotesOk'
  BY <1>2, <1>4, <1>5, <1>7, <1>10 DEF NotesOk
<1>12. FirstSeen' /\ WaitingUntold'
  BY <1>2, <1>7, <1>9 DEF FirstSeen, WaitingUntold
<1>13. InsertFirst'
  <2> SUFFICES ASSUME NEW r \in Swaps, NEW i \in 1..Len(toGrpc'),
                      Kind(toGrpc'[i]) = "INSERT", RowOf(toGrpc'[i]) = r
               PROVE  /\ ~Told(r)' /\ ~Waiting(r)'
                      /\ \A j \in 1..(i - 1) : RowOf(toGrpc'[j]) # r
    BY DEF InsertFirst
  <2>1. CASE i \in 1..Len(toGrpc)
    <3>1. \A j \in 1..(i - 1) : j \in 1..Len(toGrpc)
      BY <1>6, <2>1
    <3> QED BY <1>2, <1>5, <1>9, <1>10, <2>1, <3>1 DEF InsertFirst
  <2>2. CASE i = Len(toGrpc) + 1 /\ toGrpc'[i] = note
    <3>1. \A j \in 1..(i - 1) : j \in 1..Len(toGrpc)
      BY <1>6, <2>2
    <3>2. ~Told(s) /\ ~Waiting(s)
      BY <1>1, <1>2 DEF FirstSeen
    <3> QED BY <1>4, <1>5, <1>9, <1>10, <2>2, <3>1, <3>2
  <2> QED BY <1>5, <2>1, <2>2
<1>14. VolumesStayTold' /\ \A r \in Swaps : ToldPlain(r)' = ToldPlain(r)
  BY <1>1, <1>2 DEF VolumesStayTold, ToldPlain
<1>17. ToldPlain(s) /\ \A r \in Swaps : r # s => HasVolume(r)' = HasVolume(r)
  BY <1>1, <1>2, <1>7 DEF OnlyPlain, HasVolume
<1>18. OnlyPlain'
  BY <1>2, <1>4, <1>5, <1>10, <1>14, <1>17 DEF OnlyPlain
<1>19. PlainAhead'
  <2> SUFFICES ASSUME NEW r \in Swaps, NEW i \in 1..Len(toGrpc'),
                      RowOf(toGrpc'[i]) = r, VolumeOf(toGrpc'[i]) = "null"
               PROVE  /\ ToldPlain(r)'
                      /\ \A j \in 1..(i - 1) : RowOf(toGrpc'[j]) = r => VolumeOf(toGrpc'[j]) = "null"
    BY DEF PlainAhead
  <2>1. \A j \in 1..(i - 1) : j \in 1..Len(toGrpc)
    BY <1>5, <1>6
  <2>2. CASE i \in 1..Len(toGrpc)
    BY <1>2, <1>5, <1>14, <2>1, <2>2 DEF PlainAhead
  <2>3. CASE i = Len(toGrpc) + 1 /\ toGrpc'[i] = note
    BY <1>4, <1>5, <1>10, <1>14, <1>17, <2>1, <2>3
  <2> QED BY <1>5, <2>2, <2>3
<1>15. Agreement'
  <2> SUFFICES ASSUME ~missed', NEW r \in Swaps, HasVolume(r)'
               PROVE  QueueAgrees(r)' \/ ClientsAgree(r)'
    BY DEF Agreement
  <2>1. r # s /\ volume'[r] = volume[r] /\ HasVolume(r)
    BY <1>7 DEF HasVolume
  <2>2. CASE QueueAgrees(r)
    BY <1>4, <1>5, <1>6, <2>1, <2>2 DEF QueueAgrees
  <2>3. CASE ClientsAgree(r)
    BY <1>1, <1>4, <1>5, <1>9, <2>1, <2>3 DEF ClientsAgree
  <2> QED BY <1>2, <1>5, <2>1, <2>2, <2>3 DEF Agreement
<1>16. NoneLost'
  <2> SUFFICES ASSUME ~missed', NEW r \in Swaps, volume'[r] # "absent", Siblings(r) = {r}
               PROVE  Tracked(r)'
    BY DEF NoneLost, Siblings
  <2>1. CASE r = s
    <3>1. Len(toGrpc) + 1 \in 1..Len(toGrpc') /\ RowOf(toGrpc'[Len(toGrpc) + 1]) = r
      BY <1>4, <1>5, <1>6, <2>1
    <3> QED BY <3>1 DEF Tracked
  <2>2. CASE r # s
    <3>1. Tracked(r)
      BY <1>2, <1>5, <1>7, <2>2 DEF NoneLost
    <3> QED BY <1>5, <1>9, <3>1 DEF Tracked
  <2> QED BY <2>1, <2>2
<1> QED BY <1>8, <1>11, <1>12, <1>13, <1>14, <1>15, <1>16, <1>18, <1>19 DEF StreamInv

\* An UPDATE of some rows of the table that takes no volume away: what the
\* enricher and both scripts do.
LEMMA WriteStep ==
  ASSUME StreamInv, NEW touched \in SUBSET Inserted, NEW ns \in Seq(Notifications),
         \A i \in 1..Len(ns) : /\ Kind(ns[i]) = "UPDATE" /\ RowOf(ns[i]) \in touched
                               /\ VolumeOf(ns[i]) = volume'[RowOf(ns[i])],
         \A r \in touched : \E i \in 1..Len(ns) : RowOf(ns[i]) = r,
         DOMAIN volume' = Swaps,
         \A r \in touched : /\ volume'[r] \in {"null", "zero"} \cup Siblings(r)
                            /\ volume'[r] = "null" => volume[r] = "null",
         \A r \in Swaps : r \notin touched => volume'[r] = volume[r],
         Notify(ns), jobs' \subseteq Swaps, UNCHANGED <<link, buffer, emitted, restarted>>
  PROVE  StreamInv'
<1>1. \A r \in touched : r \in Swaps /\ volume[r] # "absent" /\ volume'[r] # "absent"
  BY DEF Inserted, Siblings
<1>2. /\ TypeOK /\ NotesOk /\ FirstSeen /\ InsertFirst /\ WaitingUntold
      /\ OnlyPlain /\ PlainAhead /\ VolumesStayTold
      /\ Agreement /\ NoneLost
  BY DEF StreamInv
<1>3. \A r \in Swaps : volume'[r] = "absent" <=> volume[r] = "absent"
  BY <1>1
<1>5. ns \in Seq(Notifications)
  OBVIOUS
<1>6. /\ toGrpc' \in Seq(Notifications)
      /\ link = "up" =>
           /\ Len(toGrpc') = Len(toGrpc) + Len(ns)
           /\ \A i \in 1..Len(ns) : toGrpc'[Len(toGrpc) + i] = ns[i]
      /\ \A i \in 1..Len(toGrpc) : i \in 1..Len(toGrpc') /\ toGrpc'[i] = toGrpc[i]
      /\ \A i \in 1..Len(toGrpc') :
           \/ i \in 1..Len(toGrpc)
           \/ \E k \in 1..Len(ns) : i = Len(toGrpc) + k /\ toGrpc'[i] = ns[k]
      /\ link # "up" => toGrpc' = <<>>
      /\ ~missed' => ~missed /\ link = "up"
      /\ missed' \in BOOLEAN
  BY <1>2, <1>5, Sent, Zenon
<1>7. \A i \in 1..Len(toGrpc') :
        \/ i \in 1..Len(toGrpc)
        \/ /\ i > Len(toGrpc) /\ Kind(toGrpc'[i]) = "UPDATE" /\ RowOf(toGrpc'[i]) \in touched
           /\ VolumeOf(toGrpc'[i]) = volume'[RowOf(toGrpc'[i])]
  <2>1. Len(toGrpc) \in Nat /\ Len(ns) \in Nat
    BY <1>2, <1>5 DEF TypeOK
  <2> SUFFICES ASSUME NEW i \in 1..Len(toGrpc'), i \notin 1..Len(toGrpc)
               PROVE  /\ i > Len(toGrpc) /\ Kind(toGrpc'[i]) = "UPDATE"
                      /\ RowOf(toGrpc'[i]) \in touched
                      /\ VolumeOf(toGrpc'[i]) = volume'[RowOf(toGrpc'[i])]
    OBVIOUS
  <2>2. PICK k \in 1..Len(ns) : i = Len(toGrpc) + k /\ toGrpc'[i] = ns[k]
    BY <1>6, Zenon
  <2>3. i > Len(toGrpc)
    BY <2>1, <2>2
  <2>4. /\ Kind(ns[k]) = "UPDATE" /\ RowOf(ns[k]) \in touched
        /\ VolumeOf(ns[k]) = volume'[RowOf(ns[k])]
    OBVIOUS
  <2> QED BY <2>2, <2>3, <2>4, Zenon
<1>8. Len(toGrpc) \in Nat /\ Len(toGrpc') \in Nat /\ Len(ns) \in Nat
  BY <1>2, <1>5, <1>6 DEF TypeOK
<1>10. TypeOK'
  <2>1. \A r \in Swaps : volume'[r] \in {"absent", "null", "zero"} \cup Siblings(r)
    BY <1>2 DEF TypeOK
  <2> QED BY <1>2, <1>6, <2>1 DEF TypeOK, Siblings
<1>11. \A r \in Swaps : Waiting(r)' = Waiting(r) /\ Told(r)' = Told(r) /\ ToldPlain(r)' = ToldPlain(r)
  BY DEF Waiting, Told, ToldPlain
<1>12. \A i \in 1..Len(toGrpc) : RowOf(toGrpc[i]) \in Swaps
  <2>1. \A i \in 1..Len(toGrpc) : toGrpc[i] \in Notifications
    BY <1>2 DEF TypeOK
  <2> QED BY <2>1, NoteFields
<1>13. NotesOk'
  BY <1>1, <1>2, <1>3, <1>6, <1>7, <1>12 DEF NotesOk
<1>14. FirstSeen' /\ WaitingUntold' /\ VolumesStayTold'
  BY <1>2, <1>3, <1>11 DEF FirstSeen, WaitingUntold, VolumesStayTold
<1>18. \A r \in Swaps : ~HasVolume(r)' => ~HasVolume(r)
  BY <1>1, <1>3 DEF HasVolume
<1>19. OnlyPlain'
  <2> SUFFICES ASSUME NEW r \in Swaps, ~HasVolume(r)'
               PROVE  /\ ToldPlain(r)'
                      /\ \A i \in 1..Len(toGrpc') : RowOf(toGrpc'[i]) = r => VolumeOf(toGrpc'[i]) = "null"
    BY DEF OnlyPlain
  <2>1. /\ ToldPlain(r)
        /\ \A i \in 1..Len(toGrpc) : RowOf(toGrpc[i]) = r => VolumeOf(toGrpc[i]) = "null"
    BY <1>2, <1>18 DEF OnlyPlain
  <2>2. r \in touched => volume'[r] = "null"
    BY <1>1 DEF HasVolume
  <2> QED BY <1>6, <1>7, <1>11, <2>1, <2>2
<1>20. PlainAhead'
  <2> SUFFICES ASSUME NEW r \in Swaps, NEW i \in 1..Len(toGrpc'),
                      RowOf(toGrpc'[i]) = r, VolumeOf(toGrpc'[i]) = "null"
               PROVE  /\ ToldPlain(r)'
                      /\ \A j \in 1..(i - 1) : RowOf(toGrpc'[j]) = r => VolumeOf(toGrpc'[j]) = "null"
    BY DEF PlainAhead
  <2>1. CASE i \in 1..Len(toGrpc)
    <3>1. \A j \in 1..(i - 1) : j \in 1..Len(toGrpc)
      BY <1>8, <2>1
    <3> QED BY <1>2, <1>6, <1>11, <2>1, <3>1 DEF PlainAhead
  <2>2. CASE i \notin 1..Len(toGrpc)
    <3>1. r \in touched /\ volume'[r] = "null"
      BY <1>7, <2>2
    <3>2. ~HasVolume(r)'
      BY <3>1 DEF HasVolume
    <3>3. \A j \in 1..(i - 1) : j \in 1..Len(toGrpc')
      BY <1>8
    <3> QED BY <1>19, <3>2, <3>3 DEF OnlyPlain
  <2> QED BY <2>1, <2>2
<1>15. InsertFirst'
  <2> SUFFICES ASSUME NEW r \in Swaps, NEW i \in 1..Len(toGrpc'),
                      Kind(toGrpc'[i]) = "INSERT", RowOf(toGrpc'[i]) = r
               PROVE  /\ ~Told(r)' /\ ~Waiting(r)'
                      /\ \A j \in 1..(i - 1) : RowOf(toGrpc'[j]) # r
    BY DEF InsertFirst
  <2>1. i \in 1..Len(toGrpc)
    BY <1>7
  <2>2. \A j \in 1..(i - 1) : j \in 1..Len(toGrpc)
    BY <1>8, <2>1
  <2> QED BY <1>2, <1>6, <1>11, <1>12, <2>1, <2>2 DEF InsertFirst
<1>16. Agreement'
  <2> SUFFICES ASSUME ~missed', NEW r \in Swaps, HasVolume(r)'
               PROVE  QueueAgrees(r)' \/ ClientsAgree(r)'
    BY DEF Agreement
  <2>1. CASE r \in touched
    <3>1. PICK k \in 1..Len(ns) : RowOf(ns[k]) = r
      BY <2>1
    <3>2. Len(toGrpc) + k \in 1..Len(toGrpc') /\ toGrpc'[Len(toGrpc) + k] = ns[k]
      BY <1>6, <1>8
    <3>3. \A j \in (Len(toGrpc) + k)..Len(toGrpc') : j \in 1..Len(toGrpc') /\ j \notin 1..Len(toGrpc)
      BY <1>8
    <3> QED BY <1>7, <2>1, <3>1, <3>2, <3>3 DEF QueueAgrees
  <2>2. CASE r \notin touched
    <3>1. volume'[r] = volume[r] /\ HasVolume(r)
      BY <2>2 DEF HasVolume
    <3>2. CASE QueueAgrees(r)
      <4>1. PICK i \in 1..Len(toGrpc) :
              /\ RowOf(toGrpc[i]) = r /\ VolumeOf(toGrpc[i]) = volume[r]
              /\ \A j \in i..Len(toGrpc) : RowOf(toGrpc[j]) = r => VolumeOf(toGrpc[j]) = volume[r]
        BY <3>2 DEF QueueAgrees
      <4>2. \A j \in i..Len(toGrpc') : j \in 1..Len(toGrpc') /\ (j \in 1..Len(toGrpc) => j \in i..Len(toGrpc))
        BY <1>8
      <4>3. i \in 1..Len(toGrpc') /\ RowOf(toGrpc'[i]) = r /\ VolumeOf(toGrpc'[i]) = volume'[r]
        BY <1>6, <3>1, <4>1
      <4>4. ASSUME NEW j \in i..Len(toGrpc'), RowOf(toGrpc'[j]) = r
            PROVE  VolumeOf(toGrpc'[j]) = volume'[r]
        <5>1. j \in 1..Len(toGrpc)
          BY <1>7, <2>2, <4>2, <4>4
        <5> QED BY <1>6, <3>1, <4>1, <4>2, <4>4, <5>1
      <4>5. QueueAgrees(r)'
        BY <4>3, <4>4 DEF QueueAgrees
      <4> QED BY <4>5
    <3>3. CASE ClientsAgree(r)
      <4>1. \A i \in 1..Len(toGrpc') : RowOf(toGrpc'[i]) # r
        BY <1>6, <1>7, <2>2, <3>3 DEF ClientsAgree
      <4>2. Told(r)' /\ emitted'[r][Len(emitted'[r])] = volume'[r]
        BY <1>11, <3>1, <3>3 DEF ClientsAgree
      <4> QED BY <4>1, <4>2 DEF ClientsAgree
    <3> QED BY <1>2, <1>6, <3>1, <3>2, <3>3 DEF Agreement
  <2> QED BY <2>1, <2>2
<1>17. NoneLost'
  <2> SUFFICES ASSUME ~missed', NEW r \in Swaps, volume'[r] # "absent", Siblings(r) = {r}
               PROVE  Tracked(r)'
    BY DEF NoneLost, Siblings
  <2>1. Tracked(r)
    BY <1>2, <1>3, <1>6 DEF NoneLost
  <2> QED BY <1>6, <1>11, <2>1 DEF Tracked
<1> QED BY <1>10, <1>13, <1>14, <1>15, <1>16, <1>17, <1>19, <1>20 DEF StreamInv

\* The enricher's and the volume script's: every row of a transaction.
LEMMA VolumeStep ==
  ASSUME StreamInv, NEW s \in Swaps, NEW touched, NEW v \in ComputedVolumes(s),
         NEW ns \in UpdateNotices(touched, v),
         touched = {r \in Siblings(s) : volume[r] # "absent"},
         volume' = [r \in Swaps |-> IF r \in touched THEN v ELSE volume[r]],
         Notify(ns), jobs' \subseteq Swaps, UNCHANGED <<link, buffer, emitted, restarted>>
  PROVE  StreamInv'
<1>1. touched \in SUBSET Swaps /\ touched \in SUBSET Inserted /\ v \in Swaps \cup {"zero"}
  BY DEF Siblings, ComputedVolumes, Inserted
<1>2. \A r \in touched : volume'[r] = v /\ v # "null" /\ v \in {"null", "zero"} \cup Siblings(r)
  BY <1>1 DEF Siblings, ComputedVolumes
<1>4. /\ ns \in Seq([op : {"UPDATE"}, row : touched, volume : {v}])
      /\ \A i \in 1..Len(ns) :
           Kind(ns[i]) = "UPDATE" /\ RowOf(ns[i]) \in touched /\ VolumeOf(ns[i]) = v
      /\ \A r \in touched : \E i \in 1..Len(ns) : RowOf(ns[i]) = r
  BY <1>1, NoticesOk
<1>5. ns \in Seq(Notifications)
  <2> DEFINE Note == [op : {"UPDATE"}, row : touched, volume : {v}]
  <2>1. Note \subseteq Notifications
    BY <1>1 DEF Notifications, Volumes
  <2>2. ns \in Seq(Note)
    BY <1>4
  <2> HIDE DEF Note
  <2> QED BY <2>1, <2>2
<1>6. DOMAIN volume' = Swaps /\ \A r \in Swaps : r \notin touched => volume'[r] = volume[r]
  OBVIOUS
<1>7. \A i \in 1..Len(ns) : /\ Kind(ns[i]) = "UPDATE" /\ RowOf(ns[i]) \in touched
                            /\ VolumeOf(ns[i]) = volume'[RowOf(ns[i])]
  BY <1>2, <1>4
<1>8. \A r \in touched : /\ volume'[r] \in {"null", "zero"} \cup Siblings(r)
                         /\ volume'[r] = "null" => volume[r] = "null"
  BY <1>2
<1> QED BY <1>1, <1>4, <1>5, <1>6, <1>7, <1>8, WriteStep

-----------------------------------------------------------------------------
(* The listener.                                                           *)

LEMMA ListenerInsertStep ==
  ASSUME StreamInv, ListenerInsert
  PROVE  StreamInv'
<1> DEFINE n == Head(toGrpc)
<1>s. PICK s \in Swaps : s = RowOf(n)
  <2>1. Head(toGrpc) \in Notifications
    BY Received DEF ListenerInsert, StreamInv
  <2> QED BY <2>1, NoteFields
<1>1. /\ toGrpc # <<>> /\ Kind(n) = "INSERT" /\ toGrpc' = Tail(toGrpc)
      /\ buffer' = Append(Others(s), s)
      /\ UNCHANGED <<volume, jobs, link, emitted, missed, restarted>>
  BY <1>s DEF ListenerInsert, Kind, RowOf
<1>2. /\ TypeOK /\ NotesOk /\ FirstSeen /\ InsertFirst /\ WaitingUntold
      /\ OnlyPlain /\ PlainAhead /\ VolumesStayTold
      /\ Agreement /\ NoneLost
  BY DEF StreamInv
<1>3. /\ n = toGrpc[1] /\ n \in Notifications
      /\ 1 \in 1..Len(toGrpc)
      /\ toGrpc' \in Seq(Notifications)
      /\ Len(toGrpc') = Len(toGrpc) - 1 /\ Len(toGrpc) \in Nat
      /\ \A i \in 1..Len(toGrpc') : i + 1 \in 1..Len(toGrpc) /\ toGrpc'[i] = toGrpc[i + 1]
      /\ \A i \in 1..Len(toGrpc) : i # 1 =>
           i - 1 \in 1..Len(toGrpc') /\ toGrpc'[i - 1] = toGrpc[i]
  BY <1>1, <1>2, Received
<1>4. s \in Swaps /\ volume[s] # "absent" /\ VolumeOf(n) = "null"
  BY <1>s, <1>1, <1>2, <1>3, NoteFields DEF NotesOk
<1> HIDE DEF n
<1>5. ~Told(s)
  BY <1>s, <1>1, <1>2, <1>3, <1>4 DEF InsertFirst
<1>6. /\ Others(s) \in Seq(Swaps)
      /\ \A i, j \in 1..Len(Others(s)) : TxOf[Others(s)[i]] = TxOf[Others(s)[j]] => i = j
      /\ \A i \in 1..Len(Others(s)) :
           TxOf[Others(s)[i]] # TxOf[s] /\ \E k \in 1..Len(buffer) : buffer[k] = Others(s)[i]
      /\ \A k \in 1..Len(buffer) : TxOf[buffer[k]] # TxOf[s] =>
           \E i \in 1..Len(Others(s)) : Others(s)[i] = buffer[k]
  BY <1>2, <1>4, OthersOk
<1> DEFINE kept == Others(s)
<1> HIDE DEF kept
<1>7. /\ buffer' \in Seq(Swaps) /\ Len(buffer') = Len(kept) + 1 /\ Len(kept) \in Nat
      /\ buffer'[Len(kept) + 1] = s
      /\ \A i \in 1..Len(kept) : i \in 1..Len(buffer') /\ buffer'[i] = kept[i]
      /\ \A i \in 1..Len(buffer') : i \in 1..Len(kept) \/ i = Len(kept) + 1
  <2>1. kept \in Seq(Swaps) /\ buffer' = Append(kept, s)
    BY <1>1, <1>6 DEF kept
  <2> QED BY <1>4, <2>1
<1>8. \A i, j \in 1..Len(buffer') : TxOf[buffer'[i]] = TxOf[buffer'[j]] => i = j
  <2>1. /\ \A i, j \in 1..Len(kept) : TxOf[kept[i]] = TxOf[kept[j]] => i = j
        /\ \A i \in 1..Len(kept) : TxOf[kept[i]] # TxOf[s]
    BY <1>6 DEF kept
  <2> QED BY <1>7, <2>1
<1>9. TypeOK'
  <2>1. link # "up" => toGrpc' = <<>>
    BY <1>1, <1>2 DEF TypeOK
  <2> QED BY <1>1, <1>2, <1>3, <1>7, <1>8, <2>1 DEF TypeOK, Siblings
<1>10. \A r \in Swaps : Waiting(r)' => Waiting(r) \/ r = s
  <2>1. \A i \in 1..Len(kept) : \E k \in 1..Len(buffer) : buffer[k] = kept[i]
    BY <1>6 DEF kept
  <2> QED BY <1>7, <2>1 DEF Waiting
<1>11. \A r \in Swaps : Waiting(r) /\ TxOf[r] # TxOf[s] => Waiting(r)'
  <2>1. \A k \in 1..Len(buffer) : TxOf[buffer[k]] # TxOf[s] =>
          \E i \in 1..Len(kept) : kept[i] = buffer[k]
    BY <1>6 DEF kept
  <2> QED BY <1>7, <2>1 DEF Waiting
<1>12. Waiting(s)'
  <2>1. Len(kept) + 1 \in 1..Len(buffer')
    BY <1>7
  <2> QED BY <1>7, <2>1 DEF Waiting
<1>13. \A r \in Swaps : Told(r)' = Told(r) /\ volume'[r] = volume[r]
  BY <1>1 DEF Told
<1>14. NotesOk'
  BY <1>1, <1>2, <1>3 DEF NotesOk
<1>15. FirstSeen' /\ WaitingUntold'
  BY <1>1, <1>2, <1>4, <1>5, <1>10, <1>13 DEF FirstSeen, WaitingUntold
<1>20. VolumesStayTold' /\ \A r \in Swaps : ToldPlain(r)' = ToldPlain(r) /\ HasVolume(r)' = HasVolume(r)
  BY <1>1, <1>2 DEF VolumesStayTold, ToldPlain, HasVolume
<1>21. OnlyPlain'
  BY <1>2, <1>3, <1>20 DEF OnlyPlain
<1>22. PlainAhead'
  <2> SUFFICES ASSUME NEW r \in Swaps, NEW i \in 1..Len(toGrpc'),
                      RowOf(toGrpc'[i]) = r, VolumeOf(toGrpc'[i]) = "null"
               PROVE  /\ ToldPlain(r)'
                      /\ \A j \in 1..(i - 1) : RowOf(toGrpc'[j]) = r => VolumeOf(toGrpc'[j]) = "null"
    BY DEF PlainAhead
  <2>1. /\ ToldPlain(r)
        /\ \A j \in 1..((i + 1) - 1) : RowOf(toGrpc[j]) = r => VolumeOf(toGrpc[j]) = "null"
    BY <1>2, <1>3 DEF PlainAhead
  <2>2. \A j \in 1..(i - 1) : j \in 1..Len(toGrpc') /\ j + 1 \in 1..((i + 1) - 1)
    BY <1>3
  <2> QED BY <1>3, <1>20, <2>1, <2>2
<1>16. InsertFirst'
  <2> SUFFICES ASSUME NEW r \in Swaps, NEW i \in 1..Len(toGrpc'),
                      Kind(toGrpc'[i]) = "INSERT", RowOf(toGrpc'[i]) = r
               PROVE  /\ ~Told(r)' /\ ~Waiting(r)'
                      /\ \A j \in 1..(i - 1) : RowOf(toGrpc'[j]) # r
    BY DEF InsertFirst
  <2>1. /\ ~Told(r) /\ ~Waiting(r)
        /\ \A j \in 1..((i + 1) - 1) : RowOf(toGrpc[j]) # r
    BY <1>2, <1>3 DEF InsertFirst
  <2>2. \A j \in 1..(i - 1) : j \in 1..Len(toGrpc') /\ j + 1 \in 1..((i + 1) - 1)
    BY <1>3
  <2>3. 1 \in 1..((i + 1) - 1)
    BY <1>3
  <2>4. r # s
    BY <1>s, <1>3, <2>1, <2>3
  <2> QED BY <1>3, <1>10, <1>13, <2>1, <2>2, <2>4
<1>17. Agreement'
  <2> SUFFICES ASSUME ~missed', NEW r \in Swaps, HasVolume(r)'
               PROVE  QueueAgrees(r)' \/ ClientsAgree(r)'
    BY DEF Agreement
  <2>1. HasVolume(r) /\ volume'[r] = volume[r]
    BY <1>13 DEF HasVolume
  <2>2. CASE QueueAgrees(r)
    <3>1. PICK i \in 1..Len(toGrpc) :
            /\ RowOf(toGrpc[i]) = r /\ VolumeOf(toGrpc[i]) = volume[r]
            /\ \A j \in i..Len(toGrpc) : RowOf(toGrpc[j]) = r => VolumeOf(toGrpc[j]) = volume[r]
      BY <2>2 DEF QueueAgrees
    <3>2. i # 1
      BY <1>s, <1>3, <1>4, <2>1, <3>1 DEF HasVolume
    <3>3. i - 1 \in 1..Len(toGrpc') /\ toGrpc'[i - 1] = toGrpc[i]
      BY <1>3, <3>2
    <3>4. \A j \in (i - 1)..Len(toGrpc') : j \in 1..Len(toGrpc') /\ j + 1 \in i..Len(toGrpc)
      BY <1>3, <3>2
    <3>5. ASSUME NEW j \in (i - 1)..Len(toGrpc'), RowOf(toGrpc'[j]) = r
          PROVE  VolumeOf(toGrpc'[j]) = volume'[r]
      <4>1. toGrpc'[j] = toGrpc[j + 1] /\ j + 1 \in i..Len(toGrpc)
        BY <1>3, <3>4
      <4> QED BY <2>1, <3>1, <3>5, <4>1
    <3>6. RowOf(toGrpc'[i - 1]) = r /\ VolumeOf(toGrpc'[i - 1]) = volume'[r]
      BY <2>1, <3>1, <3>3
    <3>7. QueueAgrees(r)'
      BY <3>3, <3>5, <3>6 DEF QueueAgrees
    <3> QED BY <3>7
  <2>3. CASE ClientsAgree(r)
    <3>1. \A i \in 1..Len(toGrpc') : RowOf(toGrpc'[i]) # r
      BY <1>3, <2>3 DEF ClientsAgree
    <3>2. Told(r)' /\ emitted'[r][Len(emitted'[r])] = volume'[r]
      BY <1>1, <1>13, <2>1, <2>3 DEF ClientsAgree
    <3> QED BY <3>1, <3>2 DEF ClientsAgree
  <2> QED BY <1>1, <1>2, <2>1, <2>2, <2>3 DEF Agreement
<1>18. NoneLost'
  <2> SUFFICES ASSUME ~missed', NEW r \in Swaps, volume'[r] # "absent", Siblings(r) = {r}
               PROVE  Tracked(r)'
    BY DEF NoneLost, Siblings
  <2>1. Tracked(r)
    BY <1>1, <1>2 DEF NoneLost
  <2>2. r = s \/ TxOf[r] # TxOf[s]
    BY <1>4 DEF Siblings
  <2>3. CASE \E i \in 1..Len(toGrpc) : RowOf(toGrpc[i]) = r
    <3>1. PICK i \in 1..Len(toGrpc) : RowOf(toGrpc[i]) = r
      BY <2>3
    <3>2. CASE i = 1
      BY <1>s, <1>3, <1>12, <3>1, <3>2 DEF Tracked
    <3>3. CASE i # 1
      BY <1>3, <3>1, <3>3 DEF Tracked
    <3> QED BY <3>2, <3>3
  <2> QED BY <1>11, <1>12, <1>13, <2>1, <2>2, <2>3 DEF Tracked
<1> QED BY <1>9, <1>14, <1>15, <1>16, <1>17, <1>18, <1>20, <1>21, <1>22 DEF StreamInv

\* One more broadcast of one row.
LEMMA Appended ==
  ASSUME TypeOK, NEW s \in Swaps, NEW v \in Volumes,
         emitted' = [emitted EXCEPT ![s] = Append(emitted[s], v)]
  PROVE  /\ emitted' \in [Swaps -> Seq(Volumes)]
         /\ \A r \in Swaps : r # s => emitted'[r] = emitted[r]
         /\ Len(emitted'[s]) = Len(emitted[s]) + 1 /\ Len(emitted[s]) \in Nat
         /\ emitted'[s][Len(emitted[s]) + 1] = v
         /\ \A i \in 1..Len(emitted[s]) : emitted'[s][i] = emitted[s][i]
<1>1. emitted \in [Swaps -> Seq(Volumes)]
  BY DEF TypeOK
<1>2. emitted[s] \in Seq(Volumes)
  BY <1>1
<1> HIDE DEF Volumes
<1>3. Append(emitted[s], v) \in Seq(Volumes)
  BY <1>2
<1>4. emitted'[s] = Append(emitted[s], v)
  BY <1>1
<1>5. emitted' \in [Swaps -> Seq(Volumes)]
  BY <1>1, <1>3
<1>6. \A r \in Swaps : r # s => emitted'[r] = emitted[r]
  BY <1>1
<1> QED BY <1>2, <1>4, <1>5, <1>6

LEMMA ListenerUpdateStep ==
  ASSUME StreamInv, ListenerUpdate
  PROVE  StreamInv'
<1> DEFINE n == Head(toGrpc)
<1>s. PICK s \in Swaps : s = RowOf(n)
  <2>1. Head(toGrpc) \in Notifications
    BY Received DEF ListenerUpdate, StreamInv
  <2> QED BY <2>1, NoteFields
<1> DEFINE v == VolumeOf(n)
<1>1. /\ toGrpc # <<>> /\ Kind(n) = "UPDATE" /\ toGrpc' = Tail(toGrpc)
      /\ buffer' = Others(s)
      /\ emitted' = [emitted EXCEPT ![s] = Append(emitted[s], v)]
      /\ UNCHANGED <<volume, jobs, link, missed, restarted>>
  BY <1>s DEF ListenerUpdate, Emit, Kind, RowOf, VolumeOf
<1>2. /\ TypeOK /\ NotesOk /\ FirstSeen /\ InsertFirst /\ WaitingUntold
      /\ OnlyPlain /\ PlainAhead /\ VolumesStayTold
      /\ Agreement /\ NoneLost
  BY DEF StreamInv
<1>3. /\ n = toGrpc[1] /\ n \in Notifications
      /\ 1 \in 1..Len(toGrpc)
      /\ toGrpc' \in Seq(Notifications)
      /\ Len(toGrpc') = Len(toGrpc) - 1 /\ Len(toGrpc) \in Nat
      /\ \A i \in 1..Len(toGrpc') : i + 1 \in 1..Len(toGrpc) /\ toGrpc'[i] = toGrpc[i + 1]
      /\ \A i \in 1..Len(toGrpc) : i # 1 =>
           i - 1 \in 1..Len(toGrpc') /\ toGrpc'[i - 1] = toGrpc[i]
  BY <1>1, <1>2, Received
<1>4. volume[s] # "absent" /\ v \in Volumes
  BY <1>s, <1>1, <1>2, <1>3, NoteFields DEF NotesOk
<1> HIDE DEF n, v
<1>5. /\ emitted' \in [Swaps -> Seq(Volumes)]
      /\ \A r \in Swaps : r # s => emitted'[r] = emitted[r]
      /\ Len(emitted'[s]) = Len(emitted[s]) + 1 /\ Len(emitted[s]) \in Nat
      /\ emitted'[s][Len(emitted[s]) + 1] = v
      /\ \A i \in 1..Len(emitted[s]) : emitted'[s][i] = emitted[s][i]
  BY <1>1, <1>2, <1>4, Appended
<1>6. /\ Others(s) \in Seq(Swaps)
      /\ \A i, j \in 1..Len(Others(s)) : TxOf[Others(s)[i]] = TxOf[Others(s)[j]] => i = j
      /\ \A i \in 1..Len(Others(s)) :
           TxOf[Others(s)[i]] # TxOf[s] /\ \E k \in 1..Len(buffer) : buffer[k] = Others(s)[i]
      /\ \A k \in 1..Len(buffer) : TxOf[buffer[k]] # TxOf[s] =>
           \E i \in 1..Len(Others(s)) : Others(s)[i] = buffer[k]
  BY <1>2, <1>4, OthersOk
<1>9. TypeOK'
  <2>1. link # "up" => toGrpc' = <<>>
    BY <1>1, <1>2 DEF TypeOK
  <2> QED BY <1>1, <1>2, <1>3, <1>5, <1>6, <2>1 DEF TypeOK, Siblings
<1>10. \A r \in Swaps : Waiting(r)' => Waiting(r) /\ r # s
  <2> SUFFICES ASSUME NEW r \in Swaps, NEW i \in 1..Len(buffer'), buffer'[i] = r
               PROVE  r # s /\ \E k \in 1..Len(buffer) : buffer[k] = r
    BY Zenon DEF Waiting
  <2>1. TxOf[buffer'[i]] # TxOf[s] /\ \E k \in 1..Len(buffer) : buffer[k] = buffer'[i]
    BY <1>1, <1>6, Zenon
  <2> QED BY <2>1
<1>11. \A r \in Swaps : Waiting(r) /\ TxOf[r] # TxOf[s] => Waiting(r)'
  BY <1>1, <1>6 DEF Waiting
<1>12. Told(s)'
  BY <1>5 DEF Told
<1>13. \A r \in Swaps : /\ volume'[r] = volume[r]
                        /\ r # s => Told(r)' = Told(r)
  BY <1>1, <1>5 DEF Told
<1>14. NotesOk'
  BY <1>1, <1>2, <1>3 DEF NotesOk
<1>15. FirstSeen' /\ WaitingUntold'
  BY <1>2, <1>4, <1>10, <1>13 DEF FirstSeen, WaitingUntold
<1>20. \A r \in Swaps : r # s => ToldPlain(r)' = ToldPlain(r)
  BY <1>5 DEF ToldPlain
<1>21. v = "null" => ToldPlain(s) /\ ToldPlain(s)'
  <2> SUFFICES ASSUME v = "null" PROVE ToldPlain(s) /\ ToldPlain(s)'
    OBVIOUS
  <2>1. ToldPlain(s)
    BY <1>s, <1>2, <1>3 DEF PlainAhead, v
  <2>2. \A k \in 1..Len(emitted'[s]) : k \in 1..Len(emitted[s]) \/ k = Len(emitted[s]) + 1
    BY <1>5
  <2> QED BY <1>5, <2>1, <2>2 DEF ToldPlain
<1>22. VolumesStayTold'
  <2> SUFFICES ASSUME NEW r \in Swaps, NEW i \in 1..Len(emitted'[r]), NEW j \in 1..Len(emitted'[r]),
                      i < j, emitted'[r][i] # "null", emitted'[r][j] = "null"
               PROVE  FALSE
    BY DEF VolumesStayTold
  <2>1. CASE r # s
    BY <1>2, <1>5, <2>1 DEF VolumesStayTold
  <2>2. CASE r = s
    <3>1. i \in 1..Len(emitted[s]) /\ (j \in 1..Len(emitted[s]) \/ j = Len(emitted[s]) + 1)
      BY <1>5, <2>2
    <3>2. CASE j \in 1..Len(emitted[s])
      BY <1>2, <1>5, <2>2, <3>1, <3>2 DEF VolumesStayTold
    <3>3. CASE j = Len(emitted[s]) + 1
      BY <1>5, <1>21, <2>2, <3>1, <3>3 DEF ToldPlain
    <3> QED BY <3>1, <3>2, <3>3
  <2> QED BY <2>1, <2>2
<1>23. OnlyPlain'
  <2> SUFFICES ASSUME NEW r \in Swaps, ~HasVolume(r)
               PROVE  /\ ToldPlain(r)'
                      /\ \A i \in 1..Len(toGrpc') : RowOf(toGrpc'[i]) = r => VolumeOf(toGrpc'[i]) = "null"
    BY <1>1 DEF OnlyPlain, HasVolume
  <2>1. /\ ToldPlain(r)
        /\ \A i \in 1..Len(toGrpc) : RowOf(toGrpc[i]) = r => VolumeOf(toGrpc[i]) = "null"
    BY <1>2 DEF OnlyPlain
  <2>2. ToldPlain(r)'
    BY <1>s, <1>3, <1>20, <1>21, <2>1 DEF v
  <2> QED BY <1>3, <2>1, <2>2
<1>24. PlainAhead'
  <2> SUFFICES ASSUME NEW r \in Swaps, NEW i \in 1..Len(toGrpc'),
                      RowOf(toGrpc'[i]) = r, VolumeOf(toGrpc'[i]) = "null"
               PROVE  /\ ToldPlain(r)'
                      /\ \A j \in 1..(i - 1) : RowOf(toGrpc'[j]) = r => VolumeOf(toGrpc'[j]) = "null"
    BY DEF PlainAhead
  <2>1. /\ ToldPlain(r)
        /\ \A j \in 1..((i + 1) - 1) : RowOf(toGrpc[j]) = r => VolumeOf(toGrpc[j]) = "null"
    BY <1>2, <1>3 DEF PlainAhead
  <2>2. \A j \in 1..(i - 1) : j \in 1..Len(toGrpc') /\ j + 1 \in 1..((i + 1) - 1)
    BY <1>3
  <2>3. 1 \in 1..((i + 1) - 1)
    BY <1>3
  <2>4. ToldPlain(r)'
    BY <1>s, <1>3, <1>20, <1>21, <2>1, <2>3 DEF v
  <2> QED BY <1>3, <2>1, <2>2, <2>4
<1>16. InsertFirst'
  <2> SUFFICES ASSUME NEW r \in Swaps, NEW i \in 1..Len(toGrpc'),
                      Kind(toGrpc'[i]) = "INSERT", RowOf(toGrpc'[i]) = r
               PROVE  /\ ~Told(r)' /\ ~Waiting(r)'
                      /\ \A j \in 1..(i - 1) : RowOf(toGrpc'[j]) # r
    BY DEF InsertFirst
  <2>1. /\ ~Told(r) /\ ~Waiting(r)
        /\ \A j \in 1..((i + 1) - 1) : RowOf(toGrpc[j]) # r
    BY <1>2, <1>3 DEF InsertFirst
  <2>2. \A j \in 1..(i - 1) : j \in 1..Len(toGrpc') /\ j + 1 \in 1..((i + 1) - 1)
    BY <1>3
  <2>3. 1 \in 1..((i + 1) - 1)
    BY <1>3
  <2>4. r # s
    BY <1>s, <1>3, <2>1, <2>3
  <2> QED BY <1>3, <1>10, <1>13, <2>1, <2>2, <2>4
<1>17. Agreement'
  <2> SUFFICES ASSUME ~missed', NEW r \in Swaps, HasVolume(r)'
               PROVE  QueueAgrees(r)' \/ ClientsAgree(r)'
    BY DEF Agreement
  <2>1. HasVolume(r) /\ volume'[r] = volume[r]
    BY <1>13 DEF HasVolume
  <2>2. CASE QueueAgrees(r)
    <3>1. PICK i \in 1..Len(toGrpc) :
            /\ RowOf(toGrpc[i]) = r /\ VolumeOf(toGrpc[i]) = volume[r]
            /\ \A j \in i..Len(toGrpc) : RowOf(toGrpc[j]) = r => VolumeOf(toGrpc[j]) = volume[r]
      BY <2>2 DEF QueueAgrees
    <3>2. CASE i # 1
      <4>1. i - 1 \in 1..Len(toGrpc') /\ toGrpc'[i - 1] = toGrpc[i]
        BY <1>3, <3>2
      <4>2. \A j \in (i - 1)..Len(toGrpc') : j \in 1..Len(toGrpc') /\ j + 1 \in i..Len(toGrpc)
        BY <1>3, <3>2
      <4>3. ASSUME NEW j \in (i - 1)..Len(toGrpc'), RowOf(toGrpc'[j]) = r
            PROVE  VolumeOf(toGrpc'[j]) = volume'[r]
        <5>1. toGrpc'[j] = toGrpc[j + 1] /\ j + 1 \in i..Len(toGrpc)
          BY <1>3, <4>2
        <5> QED BY <2>1, <3>1, <4>3, <5>1
      <4>4. RowOf(toGrpc'[i - 1]) = r /\ VolumeOf(toGrpc'[i - 1]) = volume'[r]
        BY <2>1, <3>1, <4>1
      <4>5. QueueAgrees(r)'
        BY <4>1, <4>3, <4>4 DEF QueueAgrees
      <4> QED BY <4>5
    <3>3. CASE i = 1 /\ \E k \in 1..Len(toGrpc') : RowOf(toGrpc'[k]) = r
      <4>1. PICK k \in 1..Len(toGrpc') : RowOf(toGrpc'[k]) = r
        BY <3>3
      <4>2. \A j \in 1..Len(toGrpc') : j + 1 \in i..Len(toGrpc) /\ toGrpc'[j] = toGrpc[j + 1]
        BY <1>3, <3>3
      <4>3. \A j \in k..Len(toGrpc') : j \in 1..Len(toGrpc')
        BY <1>3
      <4>4. \A j \in 1..Len(toGrpc') :
              RowOf(toGrpc'[j]) = r => VolumeOf(toGrpc'[j]) = volume'[r]
        BY <2>1, <3>1, <4>2
      <4>5. QueueAgrees(r)'
        BY <4>1, <4>3, <4>4 DEF QueueAgrees
      <4> QED BY <4>5
    <3>4. CASE i = 1 /\ ~\E k \in 1..Len(toGrpc') : RowOf(toGrpc'[k]) = r
      <4>1. r = s /\ v = volume'[r]
        BY <1>s, <1>3, <2>1, <3>1, <3>4 DEF v
      <4>2. Told(r)' /\ emitted'[r][Len(emitted'[r])] = volume'[r]
        BY <1>5, <1>12, <4>1
      <4>3. ClientsAgree(r)'
        BY <3>4, <4>2 DEF ClientsAgree
      <4> QED BY <4>3
    <3> QED BY <3>2, <3>3, <3>4
  <2>3. CASE ClientsAgree(r)
    <3>1. \A i \in 1..Len(toGrpc') : RowOf(toGrpc'[i]) # r
      BY <1>3, <2>3 DEF ClientsAgree
    <3>3. r # s
      BY <1>s, <1>3, <2>3 DEF ClientsAgree
    <3>2. Told(r)' /\ emitted'[r][Len(emitted'[r])] = volume'[r]
      BY <1>5, <1>13, <2>1, <2>3, <3>3 DEF ClientsAgree
    <3> QED BY <3>1, <3>2 DEF ClientsAgree
  <2> QED BY <1>1, <1>2, <2>1, <2>2, <2>3 DEF Agreement
<1>18. NoneLost'
  <2> SUFFICES ASSUME ~missed', NEW r \in Swaps, volume'[r] # "absent", Siblings(r) = {r}
               PROVE  Tracked(r)'
    BY DEF NoneLost, Siblings
  <2>1. Tracked(r)
    BY <1>1, <1>2 DEF NoneLost
  <2>2. r = s \/ TxOf[r] # TxOf[s]
    BY <1>4 DEF Siblings
  <2>3. CASE \E i \in 1..Len(toGrpc) : RowOf(toGrpc[i]) = r
    <3>1. PICK i \in 1..Len(toGrpc) : RowOf(toGrpc[i]) = r
      BY <2>3
    <3>2. CASE i = 1
      BY <1>s, <1>3, <1>12, <3>1, <3>2 DEF Tracked
    <3>3. CASE i # 1
      BY <1>3, <3>1, <3>3 DEF Tracked
    <3> QED BY <3>2, <3>3
  <2> QED BY <1>11, <1>12, <1>13, <2>1, <2>2, <2>3 DEF Tracked
<1> QED BY <1>9, <1>14, <1>15, <1>16, <1>17, <1>18, <1>22, <1>23, <1>24 DEF StreamInv

LEMMA TickStep ==
  ASSUME StreamInv, Tick
  PROVE  StreamInv'
<1>1. PICK n \in 1..Len(buffer) :
        /\ buffer' = SubSeq(buffer, n + 1, Len(buffer))
        /\ emitted' = [s \in Swaps |->
             IF \E i \in 1..n : buffer[i] = s THEN Append(emitted[s], "null") ELSE emitted[s]]
  BY DEF Tick
<1>2. /\ TypeOK /\ NotesOk /\ FirstSeen /\ InsertFirst /\ WaitingUntold
      /\ OnlyPlain /\ PlainAhead /\ VolumesStayTold
      /\ Agreement /\ NoneLost
  BY DEF StreamInv
<1>3. UNCHANGED <<volume, jobs, link, toGrpc, missed, restarted>>
  BY DEF Tick
<1>4. /\ buffer' \in Seq(Swaps) /\ Len(buffer') = Len(buffer) - n /\ Len(buffer) \in Nat
      /\ \A i \in 1..Len(buffer') : n + i \in 1..Len(buffer) /\ buffer'[i] = buffer[n + i]
  <2>1. buffer \in Seq(Swaps)
    BY <1>2 DEF TypeOK
  <2> QED BY <1>1, <2>1
<1>5. \A i, j \in 1..Len(buffer') : TxOf[buffer'[i]] = TxOf[buffer'[j]] => i = j
  <2>1. \A i, j \in 1..Len(buffer) : TxOf[buffer[i]] = TxOf[buffer[j]] => i = j
    BY <1>2 DEF TypeOK
  <2> QED BY <1>4, <2>1
<1> DEFINE Expired(s) == \E i \in 1..n : buffer[i] = s
<1>6. \A s \in Swaps : Expired(s) => Waiting(s) /\ ~Told(s) /\ emitted'[s] = <<"null">>
  <2> SUFFICES ASSUME NEW s \in Swaps, Expired(s)
               PROVE  Waiting(s) /\ ~Told(s) /\ emitted'[s] = <<"null">>
    OBVIOUS
  <2>1. Waiting(s)
    BY <1>4 DEF Waiting
  <2>2. emitted[s] = <<>>
    BY <1>2, <2>1 DEF WaitingUntold, Told
  <2>3. Append(<<>>, "null") = <<"null">>
    OBVIOUS
  <2>4. emitted'[s] = Append(emitted[s], "null")
    BY <1>1
  <2> QED BY <2>1, <2>2, <2>3, <2>4 DEF Told
<1>7. \A s \in Swaps : ~Expired(s) => emitted'[s] = emitted[s]
  BY <1>1
<1>8. \A s \in Swaps : Waiting(s)' <=> Waiting(s) /\ ~Expired(s)
  <2>1. ASSUME NEW s \in Swaps, NEW i \in 1..Len(buffer'), buffer'[i] = s
        PROVE  Waiting(s) /\ ~Expired(s)
    <3>1. n + i \in 1..Len(buffer) /\ buffer[n + i] = s
      BY <1>4, <2>1
    <3>2. \A j \in 1..n : j \in 1..Len(buffer) /\ j # n + i
      BY <1>4
    <3>3. \A j \in 1..n : buffer[j] # s
      BY <1>2, <3>1, <3>2 DEF TypeOK
    <3> QED BY <3>1, <3>3 DEF Waiting
  <2>2. ASSUME NEW s \in Swaps, NEW i \in 1..Len(buffer), buffer[i] = s, ~Expired(s)
        PROVE  Waiting(s)'
    <3>1. i \notin 1..n
      BY <2>2
    <3>2. i - n \in 1..Len(buffer') /\ n + (i - n) = i
      BY <1>4, <3>1
    <3> QED BY <1>4, <2>2, <3>2 DEF Waiting
  <2> QED BY <2>1, <2>2 DEF Waiting
<1> HIDE DEF Expired
<1>9. TypeOK'
  <2>1. emitted' \in [Swaps -> Seq(Volumes)]
    <3>1. emitted \in [Swaps -> Seq(Volumes)]
      BY <1>2 DEF TypeOK
    <3>2. \A s \in Swaps : emitted'[s] \in Seq(Volumes)
      <4>1. <<"null">> \in Seq(Volumes)
        BY DEF Volumes
      <4> HIDE DEF Volumes
      <4> QED BY <1>6, <1>7, <3>1, <4>1
    <3> QED BY <1>1, <3>2
  <2> QED BY <1>2, <1>3, <1>4, <1>5, <2>1 DEF TypeOK, Siblings
<1>10. \A s \in Swaps : Told(s)' <=> Told(s) \/ Expired(s)
  BY <1>6, <1>7 DEF Told
<1>11. NotesOk'
  BY <1>2, <1>3 DEF NotesOk
<1>12. FirstSeen' /\ WaitingUntold'
  BY <1>2, <1>3, <1>6, <1>8, <1>10 DEF FirstSeen, WaitingUntold
<1>13. InsertFirst'
  BY <1>2, <1>3, <1>6, <1>8, <1>10 DEF InsertFirst
<1>14. VolumesStayTold' /\ \A s \in Swaps : ToldPlain(s) => ToldPlain(s)'
  <2>1. Len(<<"null">>) = 1 /\ <<"null">>[1] = "null"
    OBVIOUS
  <2>2. \A i, j \in 1..1 : ~(i < j)
    OBVIOUS
  <2>3. ASSUME NEW s \in Swaps, Expired(s)
        PROVE  ToldPlain(s)' /\ \A i, j \in 1..Len(emitted'[s]) : ~(i < j)
    <3>1. emitted'[s] = <<"null">>
      BY <1>6, <2>3
    <3>2. \A i \in 1..1 : i = 1
      OBVIOUS
    <3> QED BY <2>1, <2>2, <3>1, <3>2 DEF ToldPlain
  <2> QED BY <1>2, <1>7, <2>3 DEF VolumesStayTold, ToldPlain
<1>17. OnlyPlain' /\ PlainAhead'
  BY <1>2, <1>3, <1>14 DEF OnlyPlain, PlainAhead, HasVolume
<1>15. Agreement'
  <2> SUFFICES ASSUME ~missed', NEW s \in Swaps, HasVolume(s)'
               PROVE  QueueAgrees(s)' \/ ClientsAgree(s)'
    BY DEF Agreement
  <2>1. HasVolume(s)
    BY <1>3 DEF HasVolume
  <2>2. CASE QueueAgrees(s)
    BY <1>3, <2>2 DEF QueueAgrees
  <2>3. CASE ClientsAgree(s)
    <3>1. ~Expired(s)
      BY <1>6, <2>3 DEF ClientsAgree
    <3>2. emitted'[s] = emitted[s] /\ Told(s)'
      BY <1>7, <1>10, <2>3, <3>1 DEF ClientsAgree
    <3> QED BY <1>3, <2>3, <3>2 DEF ClientsAgree
  <2> QED BY <1>2, <1>3, <2>1, <2>2, <2>3 DEF Agreement
<1>16. NoneLost'
  <2> SUFFICES ASSUME ~missed', NEW s \in Swaps, volume'[s] # "absent", Siblings(s) = {s}
               PROVE  Tracked(s)'
    BY DEF NoneLost, Siblings
  <2>1. Tracked(s)
    BY <1>2, <1>3 DEF NoneLost
  <2> QED BY <1>3, <1>8, <1>10, <2>1 DEF Tracked
<1> QED BY <1>9, <1>11, <1>12, <1>13, <1>14, <1>15, <1>16, <1>17 DEF StreamInv

\* The session comes and goes; the server restarts.
LEMMA LinkStep ==
  ASSUME StreamInv, ListenerConnects \/ ListenerDies \/ ListenerLosesLink \/ GrpcRestarts
  PROVE  StreamInv'
<1>1. /\ TypeOK /\ NotesOk /\ FirstSeen /\ InsertFirst /\ WaitingUntold
      /\ OnlyPlain /\ PlainAhead /\ VolumesStayTold
      /\ Agreement /\ NoneLost
  BY DEF StreamInv
<1>2. CASE ListenerConnects \/ ListenerDies
  <2>1. /\ UNCHANGED <<volume, jobs, toGrpc, buffer, emitted, missed, restarted>>
        /\ link' \in {"up", "dead"} /\ link # "up"
    BY <1>2 DEF ListenerConnects, ListenerDies
  <2>2. TypeOK'
    BY <1>1, <2>1 DEF TypeOK, Siblings
  <2>3. \A s \in Swaps : Waiting(s)' = Waiting(s) /\ Told(s)' = Told(s)
    BY <2>1 DEF Waiting, Told
  <2>4. NotesOk' /\ FirstSeen' /\ InsertFirst' /\ WaitingUntold'
    BY <1>1, <2>1, <2>3 DEF NotesOk, FirstSeen, InsertFirst, WaitingUntold
  <2>8. OnlyPlain' /\ PlainAhead' /\ VolumesStayTold'
    BY <1>1, <2>1 DEF OnlyPlain, PlainAhead, VolumesStayTold, ToldPlain, HasVolume
  <2>5. Agreement'
    BY <1>1, <2>1 DEF Agreement, HasVolume, QueueAgrees, ClientsAgree, Told
  <2>6. NoneLost'
    BY <1>1, <2>1, <2>3 DEF NoneLost, Tracked, Siblings
  <2> QED BY <2>2, <2>4, <2>5, <2>6, <2>8 DEF StreamInv
<1>3. CASE ListenerLosesLink \/ GrpcRestarts
  <2>1. /\ UNCHANGED <<volume, jobs, emitted>> /\ toGrpc' = <<>>
        /\ buffer' = <<>> \/ buffer' = buffer
        /\ link' \in {"lost", "connecting"} /\ restarted' \in BOOLEAN /\ missed' \in BOOLEAN
        /\ ~missed' => ~missed /\ toGrpc = <<>> /\ (buffer' = <<>> => buffer = <<>>)
    BY <1>1, <1>3 DEF ListenerLosesLink, GrpcRestarts, TypeOK
  <2>2. TypeOK'
    <3>1. buffer' \in Seq(Swaps) /\ \A i, j \in 1..Len(buffer') :
            TxOf[buffer'[i]] = TxOf[buffer'[j]] => i = j
      <4>1. CASE buffer' = buffer
        BY <1>1, <4>1 DEF TypeOK
      <4>2. CASE buffer' = <<>>
        BY <4>2
      <4> QED BY <2>1, <4>1, <4>2
    <3>2. toGrpc' \in Seq(Notifications)
      BY <2>1
    <3> QED BY <1>1, <2>1, <3>1, <3>2 DEF TypeOK, Siblings
  <2>3. \A s \in Swaps : (Waiting(s)' => Waiting(s)) /\ Told(s)' = Told(s)
    BY <2>1 DEF Waiting, Told
  <2>4. NotesOk' /\ FirstSeen' /\ InsertFirst' /\ WaitingUntold'
    BY <1>1, <2>1, <2>3 DEF NotesOk, FirstSeen, InsertFirst, WaitingUntold
  <2>8. OnlyPlain' /\ PlainAhead' /\ VolumesStayTold'
    BY <1>1, <2>1 DEF OnlyPlain, PlainAhead, VolumesStayTold, ToldPlain, HasVolume
  <2>5. ~missed' => buffer' = buffer /\ toGrpc' = toGrpc /\ ~missed
    BY <2>1
  <2>6. Agreement'
    BY <1>1, <2>1, <2>5 DEF Agreement, HasVolume, QueueAgrees, ClientsAgree, Told
  <2>7. NoneLost'
    BY <1>1, <2>1, <2>5 DEF NoneLost, Tracked, Waiting, Told, Siblings
  <2> QED BY <2>2, <2>4, <2>6, <2>7, <2>8 DEF StreamInv
<1> QED BY <1>2, <1>3

LEMMA StreamIdle ==
  ASSUME StreamInv, jobs' \subseteq Swaps,
         UNCHANGED <<volume, link, toGrpc, buffer, emitted, missed, restarted>>
  PROVE  StreamInv'
<1>1. TypeOK'
  BY DEF StreamInv, TypeOK, Siblings
<1>2. NotesOk' /\ FirstSeen' /\ InsertFirst' /\ WaitingUntold'
  BY DEF StreamInv, NotesOk, FirstSeen, InsertFirst, WaitingUntold, Waiting, Told
<1>5. OnlyPlain' /\ PlainAhead' /\ VolumesStayTold'
  BY DEF StreamInv, OnlyPlain, PlainAhead, VolumesStayTold, ToldPlain, HasVolume
<1>3. Agreement'
  BY DEF StreamInv, Agreement, HasVolume, QueueAgrees, ClientsAgree, Told
<1>4. NoneLost'
  BY DEF StreamInv, NoneLost, Tracked, Waiting, Told, Siblings
<1> QED BY <1>1, <1>2, <1>3, <1>4, <1>5 DEF StreamInv

LEMMA StreamStep == StreamInv /\ [Next]_vars => StreamInv'
<1> SUFFICES ASSUME StreamInv, [Next]_vars PROVE StreamInv'
  OBVIOUS
<1>0. jobs \subseteq Swaps
  BY DEF StreamInv, TypeOK
<1>1. CASE \E s \in Swaps : Insert(s)
  BY <1>1, InsertStep
<1>2. ASSUME NEW s \in Swaps, Enrich(s) PROVE StreamInv'
  <2> DEFINE touched == {r \in Siblings(s) : volume[r] # "absent"}
  <2>5. PICK v \in ComputedVolumes(s) : \E ns \in UpdateNotices(touched, v) :
          /\ volume' = [r \in Swaps |-> IF r \in touched THEN v ELSE volume[r]]
          /\ Notify(ns)
    BY <1>2 DEF Enrich
  <2>1. PICK ns \in UpdateNotices(touched, v) :
          /\ volume' = [r \in Swaps |-> IF r \in touched THEN v ELSE volume[r]]
          /\ Notify(ns)
    BY <2>5
  <2>2. jobs' \subseteq Swaps /\ UNCHANGED <<link, buffer, emitted, restarted>>
    BY <1>0, <1>2 DEF Enrich
  <2> HIDE DEF touched
  <2>3. PICK t : t = touched
    OBVIOUS
  <2>4. t = {r \in Siblings(s) : volume[r] # "absent"}
    BY <2>3 DEF touched
  <2> QED BY <2>1, <2>2, <2>3, <2>4, VolumeStep
<1>3. CASE EnricherRestarts \/ \E s \in Swaps : EnrichFails(s)
  <2>1. jobs' \subseteq Swaps /\ UNCHANGED <<volume, grpcVars>>
    BY <1>0, <1>3 DEF EnricherRestarts, EnrichFails
  <2> QED BY <2>1, StreamIdle DEF grpcVars
<1>4. CASE ListenerConnects \/ ListenerDies \/ ListenerLosesLink \/ GrpcRestarts
  BY <1>4, LinkStep
<1>5. CASE ListenerInsert
  BY <1>5, ListenerInsertStep
<1>6. CASE ListenerUpdate
  BY <1>6, ListenerUpdateStep
<1>7. CASE Tick
  BY <1>7, TickStep
<1>8. CASE UNCHANGED vars
  BY <1>0, <1>8, StreamIdle DEF vars, grpcVars
<1> QED BY <1>1, <1>2, <1>3, <1>4, <1>5, <1>6, <1>7, <1>8 DEF Next

-----------------------------------------------------------------------------
(* With the backfill script beside it.                                     *)

LEMMA ScriptStep ==
  ASSUME StreamInv, Script \/ ScriptFails
  PROVE  StreamInv'
<1>0. jobs \subseteq Swaps
  BY DEF StreamInv, TypeOK
<1>1. CASE CountRows \/ Fetch \/ ScriptFails \/ \E s \in Swaps : Skip(s)
  <2>1. UNCHANGED vars
    BY <1>1 DEF CountRows, Fetch, ScriptFails, Skip
  <2> QED BY <1>0, <2>1, StreamIdle DEF vars, grpcVars
<1>2. ASSUME NEW s \in Swaps, Fill(s) PROVE StreamInv'
  <2> DEFINE touched == {r \in Siblings(s) : volume[r] # "absent"}
  <2>5. PICK v \in ComputedVolumes(s) : \E ns \in UpdateNotices(touched, v) :
          /\ volume' = [r \in Swaps |-> IF r \in touched THEN v ELSE volume[r]]
          /\ Notify(ns)
    BY <1>2 DEF Fill
  <2>1. PICK ns \in UpdateNotices(touched, v) :
          /\ volume' = [r \in Swaps |-> IF r \in touched THEN v ELSE volume[r]]
          /\ Notify(ns)
    BY <2>5
  <2>2. jobs' \subseteq Swaps /\ UNCHANGED <<link, buffer, emitted, restarted>>
    BY <1>0, <1>2 DEF Fill
  <2> HIDE DEF touched
  <2>3. PICK t : t = touched
    OBVIOUS
  <2>4. t = {r \in Siblings(s) : volume[r] # "absent"}
    BY <2>3 DEF touched
  <2> QED BY <2>1, <2>2, <2>3, <2>4, VolumeStep
<1> QED BY <1>1, <1>2 DEF Script

LEMMA BackfillStep == StreamInv /\ [BackfillNext]_allVars => StreamInv'
<1> SUFFICES ASSUME StreamInv, [BackfillNext]_allVars PROVE StreamInv'
  OBVIOUS
<1>1. CASE Stream
  BY <1>1, StreamStep DEF Stream
<1>2. CASE Script \/ ScriptFails
  BY <1>2, ScriptStep
<1>3. CASE UNCHANGED allVars
  BY <1>3, StreamStep DEF allVars
<1> QED BY <1>1, <1>2, <1>3 DEF BackfillNext

\* The queue, the buffer, the table and what the clients were sent stay in
\* step, with and without the script.
THEOREM StreamInvariant == Spec => []StreamInv
  BY StreamStart, StreamStep, PTL DEF Spec

THEOREM BackfillInvariant == BackfillSpec => []StreamInv
<1>1. BackfillInit => StreamInv
  BY StreamStart DEF BackfillInit
<1> QED BY <1>1, BackfillStep, PTL DEF BackfillSpec

\* As long as only volumes are updated, an UPDATE has one, and what has none is
\* the first that is told of its row.
NoPlainUpdate ==
  \A i \in 1..Len(toGrpc) : Kind(toGrpc[i]) = "UPDATE" => VolumeOf(toGrpc[i]) # "null"
PlainFirst == \A s \in Swaps : \A i \in 2..Len(emitted[s]) : emitted[s][i] # "null"
PlainInv   == NoPlainUpdate /\ PlainFirst

\* What the writers of volumes add to the queue keeps to that.
LEMMA WritersNotify ==
  ASSUME NEW s \in Swaps, Insert(s) \/ Enrich(s) \/ Fill(s)
  PROVE  \E ns \in Seq(Notifications) :
           Notify(ns) /\ \A i \in 1..Len(ns) : Kind(ns[i]) = "UPDATE" => VolumeOf(ns[i]) # "null"
<1>1. CASE Insert(s)
  <2> DEFINE note == [op |-> "INSERT", row |-> s, volume |-> "null"]
             ns   == <<note>>
  <2>1. ns \in Seq(Notifications) /\ Len(ns) = 1 /\ ns[1] = note
    BY DEF Notifications, Volumes
  <2>2. Kind(note) # "UPDATE"
    BY DEF Kind
  <2>3. Notify(ns)
    BY <1>1 DEF Insert
  <2> HIDE DEF note, ns
  <2>4. \A i \in 1..Len(ns) : i = 1
    BY <2>1
  <2> QED BY <2>1, <2>2, <2>3, <2>4
<1>2. CASE Enrich(s) \/ Fill(s)
  <2> DEFINE touched == {r \in Siblings(s) : volume[r] # "absent"}
  <2>1. PICK v \in ComputedVolumes(s) : \E ns \in UpdateNotices(touched, v) : Notify(ns)
    BY <1>2 DEF Enrich, Fill
  <2>2. PICK ns \in UpdateNotices(touched, v) : Notify(ns)
    BY <2>1
  <2>3. touched \in SUBSET Swaps /\ v \in Swaps \cup {"zero"}
    BY DEF Siblings, ComputedVolumes
  <2> HIDE DEF touched
  <2>4. /\ ns \in Seq([op : {"UPDATE"}, row : touched, volume : {v}])
        /\ \A i \in 1..Len(ns) : VolumeOf(ns[i]) = v
    <3>1. /\ ns \in Seq([op : {"UPDATE"}, row : touched, volume : {v}])
          /\ \A i \in 1..Len(ns) :
               Kind(ns[i]) = "UPDATE" /\ RowOf(ns[i]) \in touched /\ VolumeOf(ns[i]) = v
          /\ \A r \in touched : \E i \in 1..Len(ns) : RowOf(ns[i]) = r
      BY <2>3, NoticesOk
    <3> QED BY <3>1
  <2>5. ns \in Seq(Notifications)
    <3> DEFINE Note == [op : {"UPDATE"}, row : touched, volume : {v}]
    <3>1. Note \subseteq Notifications
      BY <2>3 DEF Notifications, Volumes
    <3>2. ns \in Seq(Note)
      BY <2>4
    <3> HIDE DEF Note
    <3> QED BY <3>1, <3>2
  <2>6. v # "null"
    BY <2>3
  <2> QED BY <2>2, <2>4, <2>5, <2>6
<1> QED BY <1>1, <1>2

LEMMA WritersTell ==
  ASSUME TypeOK, NoPlainUpdate, NEW s \in Swaps, Insert(s) \/ Enrich(s) \/ Fill(s)
  PROVE  NoPlainUpdate' /\ emitted' = emitted
<1>1. PICK ns \in Seq(Notifications) :
        Notify(ns) /\ \A i \in 1..Len(ns) : Kind(ns[i]) = "UPDATE" => VolumeOf(ns[i]) # "null"
  BY WritersNotify
<1>2. \A i \in 1..Len(toGrpc) : toGrpc'[i] = toGrpc[i]
  BY <1>1, Sent, Zenon
<1>3. \A i \in 1..Len(toGrpc') :
        i \in 1..Len(toGrpc) \/ \E k \in 1..Len(ns) : i = Len(toGrpc) + k /\ toGrpc'[i] = ns[k]
  BY <1>1, Sent, Zenon
<1>4. NoPlainUpdate'
  BY <1>1, <1>2, <1>3, Zenon DEF NoPlainUpdate
<1> QED BY <1>4 DEF Insert, Enrich, Fill

LEMMA ListenerTells ==
  ASSUME StreamInv, PlainInv, ListenerInsert \/ ListenerUpdate
  PROVE  PlainInv'
<1>1. TypeOK /\ toGrpc # <<>> /\ toGrpc' = Tail(toGrpc)
  BY DEF StreamInv, ListenerInsert, ListenerUpdate
<1>2. NoPlainUpdate'
  BY <1>1, Received DEF PlainInv, NoPlainUpdate
<1>3. CASE ListenerInsert
  BY <1>2, <1>3 DEF PlainInv, PlainFirst, ListenerInsert
<1>4. CASE ListenerUpdate
  <2> DEFINE s == RowOf(Head(toGrpc))
             v == VolumeOf(Head(toGrpc))
  <2>1. Head(toGrpc) = toGrpc[1] /\ Head(toGrpc) \in Notifications /\ 1 \in 1..Len(toGrpc)
    BY <1>1, Received
  <2>2. s \in Swaps /\ v \in Volumes
    BY <2>1, NoteFields
  <2>3. v # "null"
    BY <1>4, <2>1 DEF PlainInv, NoPlainUpdate, ListenerUpdate, Kind
  <2>4. emitted' = [emitted EXCEPT ![s] = Append(emitted[s], v)]
    BY <1>4 DEF ListenerUpdate, Emit, RowOf, VolumeOf
  <2> HIDE DEF s, v
  <2>5. /\ \A r \in Swaps : r # s => emitted'[r] = emitted[r]
        /\ Len(emitted'[s]) = Len(emitted[s]) + 1 /\ Len(emitted[s]) \in Nat
        /\ emitted'[s][Len(emitted[s]) + 1] = v
        /\ \A i \in 1..Len(emitted[s]) : emitted'[s][i] = emitted[s][i]
    BY <1>1, <2>2, <2>4, Appended
  <2>6. PlainFirst'
    <3> SUFFICES ASSUME NEW r \in Swaps, NEW i \in 2..Len(emitted'[r])
                 PROVE  emitted'[r][i] # "null"
      BY DEF PlainFirst
    <3>1. CASE r = s
      <4>1. i = Len(emitted[s]) + 1 \/ i \in 2..Len(emitted[s])
        BY <2>5, <3>1
      <4>2. \A k \in 2..Len(emitted[s]) : k \in 1..Len(emitted[s])
        BY <2>5
      <4> QED BY <2>2, <2>3, <2>5, <3>1, <4>1, <4>2 DEF PlainInv, PlainFirst
    <3>2. CASE r # s
      BY <2>5, <3>2 DEF PlainInv, PlainFirst
    <3> QED BY <3>1, <3>2
  <2> QED BY <1>2, <2>6 DEF PlainInv
<1> QED BY <1>3, <1>4

\* A tick tells of rows nobody was told of.
LEMMA TickTells ==
  ASSUME StreamInv, PlainInv, Tick
  PROVE  PlainInv'
<1>1. PICK n \in 1..Len(buffer) :
        emitted' = [s \in Swaps |->
          IF \E i \in 1..n : buffer[i] = s THEN Append(emitted[s], "null") ELSE emitted[s]]
  BY DEF Tick
<1>2. NoPlainUpdate'
  BY DEF PlainInv, NoPlainUpdate, Tick
<1>3. \A i \in 1..n : i \in 1..Len(buffer)
  <2>1. buffer \in Seq(Swaps)
    BY DEF StreamInv, TypeOK
  <2> QED BY <2>1
<1>4. ASSUME NEW s \in Swaps, NEW i \in 1..n, buffer[i] = s
      PROVE  emitted'[s] = <<"null">>
  <2>1. emitted[s] = <<>>
    BY <1>3, <1>4 DEF StreamInv, WaitingUntold, Waiting, Told
  <2>2. Append(<<>>, "null") = <<"null">>
    OBVIOUS
  <2>3. emitted'[s] = Append(emitted[s], "null")
    BY <1>1, <1>4
  <2> QED BY <2>1, <2>2, <2>3
<1>5. PlainFirst'
  <2> SUFFICES ASSUME NEW s \in Swaps, NEW i \in 2..Len(emitted'[s])
               PROVE  emitted'[s][i] # "null"
    BY DEF PlainFirst
  <2>1. ASSUME emitted'[s] = <<"null">> PROVE FALSE
    <3>1. Len(<<"null">>) = 1
      OBVIOUS
    <3>2. i \in 2..1
      BY <2>1, <3>1
    <3> QED BY <3>2
  <2>2. emitted'[s] = emitted[s]
    BY <1>1, <1>4, <2>1
  <2> QED BY <2>2 DEF PlainInv, PlainFirst
<1> QED BY <1>2, <1>5 DEF PlainInv

LEMMA PlainStep == StreamInv /\ PlainInv /\ [BackfillNext]_allVars => PlainInv'
<1> SUFFICES ASSUME StreamInv, PlainInv, [BackfillNext]_allVars PROVE PlainInv'
  OBVIOUS
<1>1. ASSUME emitted' = emitted, toGrpc' = toGrpc \/ toGrpc' = <<>> PROVE PlainInv'
  BY <1>1 DEF PlainInv, NoPlainUpdate, PlainFirst
<1>2. ASSUME NEW s \in Swaps, Insert(s) \/ Enrich(s) \/ Fill(s) PROVE PlainInv'
  BY <1>2, WritersTell DEF StreamInv, PlainInv, PlainFirst
<1>3. CASE EnricherRestarts \/ \E s \in Swaps : EnrichFails(s)
  BY <1>1, <1>3 DEF EnricherRestarts, EnrichFails, grpcVars
<1>4. CASE ListenerConnects \/ ListenerDies \/ ListenerLosesLink \/ GrpcRestarts
  BY <1>1, <1>4 DEF ListenerConnects, ListenerDies, ListenerLosesLink, GrpcRestarts
<1>5. CASE Next
  BY <1>2, <1>3, <1>4, <1>5, ListenerTells, TickTells DEF Next
<1>6. CASE CountRows \/ Fetch \/ ScriptFails \/ (\E s \in Swaps : Skip(s)) \/ UNCHANGED allVars
  <2>1. UNCHANGED vars
    BY <1>6 DEF CountRows, Fetch, ScriptFails, Skip, allVars
  <2> QED BY <1>1, <2>1 DEF vars, grpcVars
<1> QED BY <1>2, <1>5, <1>6 DEF BackfillNext, Stream, Script

LEMMA PlainStart == BackfillInit => PlainInv
  BY DEF BackfillInit, Init, PlainInv, NoPlainUpdate, PlainFirst

\* Without the EMA script a client sees a swap without its volume at most once, before any other,
\* however the writers, restarts and the two entries of one tx_sig interleave.
THEOREM PlainOnceAndFirst == BackfillSpec => []PlainComesFirst
<1>1. StreamInv /\ PlainInv => PlainComesFirst
  BY DEF StreamInv, PlainInv, PlainComesFirst, PlainFirst
<1> QED BY <1>1, PlainStart, BackfillInvariant, PlainStep, PTL DEF BackfillSpec

\* With nothing missed and nothing queued, the last broadcast of every enriched
\* swap is what the table holds.
LEMMA InvariantTellsTable == StreamInv => StreamAgreesWithTable
<1> SUFFICES ASSUME StreamInv, ~missed, toGrpc = <<>>, NEW s \in Inserted, volume[s] # "null"
             PROVE  emitted[s] # <<>> /\ emitted[s][Len(emitted[s])] = volume[s]
  BY DEF StreamAgreesWithTable
<1>1. s \in Swaps /\ HasVolume(s)
  BY DEF Inserted, HasVolume
<1>2. ~QueueAgrees(s)
  BY DEF QueueAgrees
<1> QED BY <1>1, <1>2 DEF StreamInv, Agreement, ClientsAgree, Told

\* A swap that is alone in its transaction is never dropped between the
\* trigger and the clients.
LEMMA InvariantKeepsLoneSwaps == StreamInv => NoSwapVanishes
<1> SUFFICES ASSUME StreamInv, ~missed, toGrpc = <<>>, NEW s \in Inserted, Siblings(s) = {s}
             PROVE  emitted[s] # <<>> \/ \E i \in 1..Len(buffer) : buffer[i] = s
  BY DEF NoSwapVanishes
<1>1. s \in Swaps /\ volume[s] # "absent"
  BY DEF Inserted
<1>2. Tracked(s)
  BY <1>1 DEF StreamInv, NoneLost
<1> QED BY <1>2 DEF Tracked, Told, Waiting

-----------------------------------------------------------------------------
(* The script.                                                             *)

ScriptTypeOK ==
  /\ script \in {"off", "fetching", "batch", "done", "failed"}
  /\ toProcess \in Nat /\ processed \in Nat
  /\ rows \subseteq Swaps /\ unknown \subseteq Swaps /\ counted \subseteq Swaps
  /\ late \in BOOLEAN

Running == script \in {"fetching", "batch"}

\* As many different rows of the count as processed says have their volume, and
\* none of them is in the batch.
Progress ==
  /\ rows \subseteq counted
  /\ \E filled \in SUBSET counted :
       Cardinality(filled) = processed /\ filled \cap Null = {} /\ filled \cap rows = {}

ScriptInv ==
  /\ ScriptTypeOK
  /\ counted \subseteq Inserted
  /\ script = "off" => processed = 0
  /\ script \in {"off", "fetching"} => rows = {}
  /\ Running /\ ~late => Null \subseteq counted
  /\ Running /\ ~late /\ Inserted \cap unknown = {} => Progress
  /\ FillsWhatItCounts

\* No step takes a row or its volume away; only an insert makes a row without
\* one.
LEMMA VolumesStay ==
  ASSUME TypeOK, [Next]_vars
  PROVE  /\ \A s \in Swaps : volume[s] # "absent" => volume'[s] # "absent"
         /\ \A s \in Swaps : volume'[s] = "null" => volume[s] = "null" \/ volume[s] = "absent"
<1>0. DOMAIN volume = Swaps
  BY DEF TypeOK
<1>1. ASSUME NEW s \in Swaps, Insert(s)
      PROVE  \A r \in Swaps : volume'[r] = IF r = s THEN "null" ELSE volume[r]
  BY <1>0, <1>1 DEF Insert
<1>2. ASSUME NEW s \in Swaps, Insert(s)
      PROVE  volume[s] = "absent"
  BY <1>2 DEF Insert
<1>3. ASSUME NEW s \in Swaps, Enrich(s)
      PROVE  \E v \in ComputedVolumes(s) : \A r \in Swaps : volume'[r] \in {v, volume[r]}
  BY <1>3 DEF Enrich
<1>4. \A s \in Swaps : \A v \in ComputedVolumes(s) : v \notin {"absent", "null"}
  BY DEF ComputedVolumes
<1>5. CASE UNCHANGED volume
  BY <1>5
<1>6. \/ UNCHANGED volume
      \/ \E s \in Swaps : Insert(s) \/ Enrich(s)
  BY DEF Next, vars, grpcVars, EnrichFails, EnricherRestarts, ListenerConnects, ListenerDies,
         ListenerLosesLink, ListenerInsert, ListenerUpdate, Tick, GrpcRestarts
<1>7. CASE \E s \in Swaps : Insert(s)
  <2>1. PICK s \in Swaps : Insert(s)
    BY <1>7
  <2> QED BY <1>1, <1>2, <2>1
<1>8. CASE \E s \in Swaps : Enrich(s)
  <2>1. PICK s \in Swaps : Enrich(s)
    BY <1>8
  <2>2. PICK v \in ComputedVolumes(s) : \A r \in Swaps : volume'[r] \in {v, volume[r]}
    BY <1>3, <2>1
  <2> QED BY <1>4, <2>2
<1> QED BY <1>5, <1>6, <1>7, <1>8

LEMMA FiniteRows ==
  \A S \in SUBSET Swaps : IsFiniteSet(S) /\ Cardinality(S) \in Nat
  BY FS_Subset, FS_CardinalityType

LEMMA ScriptStart == BackfillInit => ScriptInv
<1> SUFFICES ASSUME BackfillInit PROVE ScriptInv
  OBVIOUS
<1>1. /\ script = "off" /\ toProcess = 0 /\ processed = 0
      /\ unknown = {} /\ rows = {} /\ counted = {} /\ late = FALSE
  BY DEF BackfillInit
<1>2. ScriptTypeOK
  BY <1>1 DEF ScriptTypeOK
<1> QED BY <1>1, <1>2 DEF ScriptInv, Running, FillsWhatItCounts

LEMMA CountStep ==
  ASSUME TypeOK, ScriptInv, CountRows
  PROVE  ScriptInv'
<1>1. /\ script = "off" /\ unknown' \in Unknowns /\ counted' = Null
      /\ script' = IF Null = {} THEN "done" ELSE "fetching"
      /\ UNCHANGED <<volume, processed, rows, late>>
  BY DEF CountRows, vars
<1>2. processed = 0 /\ rows = {} /\ ScriptTypeOK
  BY <1>1 DEF ScriptInv
<1>3. Null \subseteq Inserted /\ Inserted \subseteq Swaps /\ Null' = Null /\ Inserted' = Inserted
  BY <1>1 DEF Null, Inserted
<1>4. toProcess' \in Nat
  <2>1. Cardinality(Null) \in Nat
    BY <1>3, FiniteRows
  <2>2. PICK limit \in Limits :
          toProcess' = IF limit # 0 /\ limit < Cardinality(Null) THEN limit ELSE Cardinality(Null)
    BY DEF CountRows
  <2> QED BY <2>1, <2>2, LimitsAssumption DEF LimitsAssumption
<1>5. ScriptTypeOK'
  BY <1>1, <1>2, <1>3, <1>4, UnknownsAssumption DEF ScriptTypeOK, UnknownsAssumption
<1>6. Progress'
  <2>1. Cardinality({}) = 0
    BY FS_EmptySet
  <2> QED BY <1>1, <1>2, <2>1 DEF Progress
<1>7. FillsWhatItCounts'
  BY <1>1 DEF FillsWhatItCounts
<1> QED BY <1>1, <1>2, <1>3, <1>5, <1>6, <1>7 DEF ScriptInv

\* The script stops because it has processed as many as it counted, which are
\* then all of them, or because there is nothing left.
LEMMA FetchStep ==
  ASSUME TypeOK, ScriptInv, Fetch
  PROVE  ScriptInv'
<1>1. /\ script = "fetching" /\ rows = {} /\ ScriptTypeOK /\ counted \subseteq Inserted
      /\ ~late => Null \subseteq counted
      /\ ~late /\ Inserted \cap unknown = {} => Progress
  BY DEF Fetch, ScriptInv, Running
<1>2. UNCHANGED <<volume, unknown, toProcess, processed, counted, late>>
  BY DEF Fetch, vars
<1>3. Null' = Null /\ Inserted' = Inserted
  BY <1>2 DEF Null, Inserted
<1>4. CASE processed >= toProcess \/ Null = {}
  <2>1. script' = "done" /\ rows' = rows
    BY <1>4 DEF Fetch
  <2>2. ASSUME ~late, toProcess = Cardinality(counted), Inserted \cap unknown = {}
        PROVE  counted \cap Null = {}
    <3>1. PICK filled \in SUBSET counted : Cardinality(filled) = processed /\ filled \cap Null = {}
      BY <1>1, <2>2 DEF Progress
    <3>2. CASE processed >= toProcess
      <4>1. IsFiniteSet(counted) /\ Cardinality(counted) \in Nat
        BY <1>1, FiniteRows DEF ScriptTypeOK
      <4>2. /\ Cardinality(filled) <= Cardinality(counted)
            /\ Cardinality(filled) = Cardinality(counted) => filled = counted
        BY <4>1, FS_Subset
      <4>3. Cardinality(filled) = Cardinality(counted)
        BY <1>1, <2>2, <3>1, <3>2, <4>1, <4>2 DEF ScriptTypeOK
      <4> QED BY <3>1, <4>2, <4>3
    <3> QED BY <1>4, <3>2
  <2>3. FillsWhatItCounts'
    BY <1>2, <1>3, <2>2 DEF FillsWhatItCounts
  <2>4. ScriptTypeOK'
    BY <1>1, <1>2, <2>1 DEF ScriptTypeOK
  <2> QED BY <1>1, <1>2, <1>3, <2>1, <2>3, <2>4 DEF ScriptInv, Running
<1>5. CASE ~(processed >= toProcess \/ Null = {})
  <2>1. script' = "batch" /\ rows' \subseteq Null
    BY <1>5 DEF Fetch, Batches
  <2>2. ScriptTypeOK'
    BY <1>1, <1>2, <2>1 DEF ScriptTypeOK, Null
  <2>3. ~late /\ Inserted \cap unknown = {} => Progress'
    BY <1>1, <1>2, <1>3, <2>1 DEF Progress
  <2>4. FillsWhatItCounts'
    BY <2>1 DEF FillsWhatItCounts
  <2> QED BY <1>1, <1>2, <1>3, <2>1, <2>2, <2>3, <2>4 DEF ScriptInv, Running
<1> QED BY <1>4, <1>5

LEMMA SkipStep ==
  ASSUME TypeOK, ScriptInv, NEW s \in Swaps, Skip(s)
  PROVE  ScriptInv'
<1>1. /\ script = "batch" /\ s \in rows /\ s \in unknown
      /\ rows' = rows \ {s} /\ script' = IF rows = {s} THEN "fetching" ELSE "batch"
      /\ processed' = processed + 1
      /\ UNCHANGED <<volume, unknown, toProcess, counted, late>>
  BY DEF Skip, AfterRow, vars
<1>2. Null' = Null /\ Inserted' = Inserted
  BY <1>1 DEF Null, Inserted
<1>3. ScriptTypeOK'
  BY <1>1 DEF ScriptInv, ScriptTypeOK
<1>4. late \/ Inserted \cap unknown # {}
  BY <1>1 DEF ScriptInv, Running, Progress
<1>5. script' = "fetching" => rows' = {}
  BY <1>1
<1> QED BY <1>1, <1>2, <1>3, <1>4, <1>5 DEF ScriptInv, Running, FillsWhatItCounts

LEMMA FillStep ==
  ASSUME TypeOK, ScriptInv, NEW s \in Swaps, Fill(s)
  PROVE  ScriptInv'
<1>1. /\ script = "batch" /\ s \in rows
      /\ rows' = rows \ {s} /\ script' = IF rows = {s} THEN "fetching" ELSE "batch"
      /\ processed' = processed + 1
      /\ UNCHANGED <<unknown, toProcess, counted, late>>
  BY DEF Fill, AfterRow
<1> DEFINE touched == {r \in Siblings(s) : volume[r] # "absent"}
<1>2. PICK v \in ComputedVolumes(s) : volume' = [r \in Swaps |-> IF r \in touched THEN v ELSE volume[r]]
  BY DEF Fill
<1>3. v \notin {"absent", "null"}
  BY DEF ComputedVolumes
<1>4. ScriptTypeOK /\ counted \subseteq Inserted
  BY DEF ScriptInv
<1>5. Inserted \subseteq Inserted' /\ Null' \subseteq Null
  BY <1>2, <1>3 DEF Inserted, Null
<1>6. ScriptTypeOK'
  BY <1>1, <1>4 DEF ScriptTypeOK
<1>7. s \in Inserted => s \notin Null'
  BY <1>2, <1>3 DEF Inserted, Null, Siblings
<1>8. script' \in {"fetching", "batch"} /\ (script' = "fetching" => rows' = {})
  BY <1>1
<1>9. ASSUME ~late, Inserted' \cap unknown = {}
      PROVE  Progress'
  <2>1. Inserted \cap unknown = {}
    BY <1>5, <1>9
  <2>2. rows \subseteq counted
    BY <1>1, <1>9, <2>1 DEF ScriptInv, Running, Progress
  <2>3. PICK filled \in SUBSET counted :
          Cardinality(filled) = processed /\ filled \cap Null = {} /\ filled \cap rows = {}
    BY <1>1, <1>9, <2>1 DEF ScriptInv, Running, Progress
  <2> DEFINE more == filled \cup {s}
  <2>4. Cardinality(more) = processed + 1
    <3>1. IsFiniteSet(filled)
      BY <1>4, FiniteRows DEF ScriptTypeOK
    <3>2. s \notin filled
      BY <1>1, <2>3
    <3> QED BY <2>3, <3>1, <3>2, FS_AddElement
  <2>5. more \in SUBSET counted /\ more \cap Null' = {} /\ more \cap rows' = {}
    BY <1>1, <1>4, <1>5, <1>7, <2>2, <2>3
  <2>6. rows' \subseteq counted'
    BY <1>1, <2>2
  <2> HIDE DEF more
  <2> QED BY <1>1, <2>4, <2>5, <2>6 DEF Progress
<1>10. ~late => Null' \subseteq counted
  BY <1>1, <1>5 DEF ScriptInv, Running
<1>11. counted' \subseteq Inserted'
  BY <1>1, <1>4, <1>5
<1>12. Running' /\ ~late' /\ Inserted' \cap unknown' = {} => Progress'
  BY <1>1, <1>9
<1> QED BY <1>1, <1>6, <1>8, <1>10, <1>11, <1>12 DEF ScriptInv, Running, FillsWhatItCounts

\* What the others write never gives a counted row back.
LEMMA BesideStep ==
  ASSUME TypeOK, ScriptInv, Stream
  PROVE  ScriptInv'
<1>1. /\ \A s \in Swaps : volume[s] # "absent" => volume'[s] # "absent"
      /\ \A s \in Swaps : volume'[s] = "null" => volume[s] = "null" \/ volume[s] = "absent"
  BY VolumesStay DEF Stream
<1>2. /\ late' = (late \/ (Running /\ Inserting))
      /\ UNCHANGED <<unknown, script, toProcess, processed, rows, counted>>
  BY DEF Stream, Running
<1>3. ScriptTypeOK /\ counted \subseteq Inserted
  BY DEF ScriptInv
<1>4. Inserted \subseteq Inserted' /\ counted \cap Null' \subseteq Null
  BY <1>1, <1>3 DEF Inserted, Null
<1>5. ScriptTypeOK'
  BY <1>2, <1>3 DEF ScriptTypeOK
<1>6. ASSUME Running, ~late'
      PROVE  ~late /\ Null' \subseteq Null
  BY <1>1, <1>2, <1>3, <1>6 DEF ScriptTypeOK, Inserting, Null
<1>7. ASSUME Running, ~late', Inserted' \cap unknown' = {}
      PROVE  Progress'
  <2>1. Progress
    BY <1>2, <1>4, <1>6, <1>7 DEF ScriptInv
  <2> QED BY <1>2, <1>6, <1>7, <2>1 DEF Progress
<1>8. Running => Running'
  BY <1>2 DEF Running
<1>9. FillsWhatItCounts'
  <2> SUFFICES ASSUME script' = "done", ~late', toProcess' = Cardinality(counted'),
                      Inserted' \cap unknown' = {}
               PROVE  counted' \cap Null' = {}
    BY DEF FillsWhatItCounts
  <2>1. ~late /\ Inserted \cap unknown = {}
    BY <1>2, <1>3, <1>4 DEF ScriptTypeOK
  <2>2. counted \cap Null = {}
    BY <1>2, <2>1 DEF ScriptInv, FillsWhatItCounts
  <2> QED BY <1>2, <1>4, <2>2
<1>10. counted' \subseteq Inserted'
  BY <1>2, <1>3, <1>4
<1>11. /\ script' = "off" => processed' = 0
       /\ script' \in {"off", "fetching"} => rows' = {}
  BY <1>2 DEF ScriptInv
<1>12. Running' /\ ~late' => Null' \subseteq counted'
  BY <1>2, <1>6 DEF ScriptInv, Running
<1>13. Running' /\ ~late' /\ Inserted' \cap unknown' = {} => Progress'
  BY <1>2, <1>7 DEF Running
<1> QED BY <1>5, <1>9, <1>10, <1>11, <1>12, <1>13 DEF ScriptInv

\* A step that leaves volumes and script alone keeps all of it.
LEMMA ScriptIdle ==
  ASSUME ScriptInv, UNCHANGED <<volume, scriptVars>>
  PROVE  ScriptInv'
<1>1. UNCHANGED <<volume, unknown, script, toProcess, processed, rows, counted, late>>
  BY DEF scriptVars
<1>2. Null' = Null /\ Inserted' = Inserted /\ (Progress' <=> Progress)
  BY <1>1 DEF Null, Inserted, Progress
<1> QED BY <1>1, <1>2 DEF ScriptInv, ScriptTypeOK, Running, FillsWhatItCounts

LEMMA ScriptInvStep == TypeOK /\ ScriptInv /\ [BackfillNext]_allVars => ScriptInv'
<1> SUFFICES ASSUME TypeOK, ScriptInv, [BackfillNext]_allVars PROVE ScriptInv'
  OBVIOUS
<1>1. CASE CountRows \/ Fetch
  BY <1>1, CountStep, FetchStep
<1>2. CASE \E s \in Swaps : Skip(s) \/ Fill(s)
  BY <1>2, SkipStep, FillStep
<1>3. CASE Stream
  BY <1>3, BesideStep
<1>4. CASE ScriptFails
  BY <1>4 DEF ScriptFails, ScriptInv, ScriptTypeOK, Running, FillsWhatItCounts
<1>5. CASE UNCHANGED allVars
  BY <1>5, ScriptIdle DEF allVars, vars
<1> QED BY <1>1, <1>2, <1>3, <1>4, <1>5 DEF BackfillNext, Script

-----------------------------------------------------------------------------
(* With the EMA script beside it.                                          *)

USE PairOfAssumption, SizesAssumption DEF PairOfAssumption, SizesAssumption

\* A priced row was announced as an UPDATE, or the clients know of it.
Announced ==
  ~missed => \A s \in priced :
    Told(s) \/ \E i \in 1..Len(toGrpc) : Kind(toGrpc[i]) = "UPDATE" /\ RowOf(toGrpc[i]) = s

\* What the script has read of a pair is priced or still in its memory, unless
\* it has given the pair up.
Accounted ==
  /\ ema = "off" => \A p \in Pairs : at[p] = "none"
  /\ chosen \subseteq Inserted
  /\ \A s \in selected :
       /\ at[PairOf[s]] \in {"writing", "written", "failed"}
       /\ at[PairOf[s]] = "writing" => s \in chosen \cup priced
       /\ at[PairOf[s]] = "written" => s \in priced

EmaInv == EmaTypeOK /\ Announced /\ Accounted

LEMMA PriceNoticesOk ==
  ASSUME StreamInv, NEW touched \in SUBSET Inserted, NEW ns \in PriceNotices(touched)
  PROVE  /\ ns \in Seq(Notifications)
         /\ \A i \in 1..Len(ns) : /\ Kind(ns[i]) = "UPDATE" /\ RowOf(ns[i]) \in touched
                                  /\ VolumeOf(ns[i]) = volume[RowOf(ns[i])]
         /\ \A r \in touched : \E i \in 1..Len(ns) : RowOf(ns[i]) = r
<1> DEFINE n    == Cardinality(touched)
           Note == {[op |-> "UPDATE", row |-> r, volume |-> volume[r]] : r \in touched}
<1>1. n \in Nat
  BY FS_Subset, FS_CardinalityType DEF Inserted
<1>2. ns \in [1..n -> Note]
  BY DEF PriceNotices
<1>3. \A m \in Note : /\ m \in Notifications
                      /\ Kind(m) = "UPDATE" /\ RowOf(m) \in touched
                      /\ VolumeOf(m) = volume[RowOf(m)]
  <2>1. \A r \in touched : r \in Swaps /\ volume[r] \in Volumes
    BY DEF StreamInv, TypeOK, Inserted, Siblings, Volumes
  <2> QED BY <2>1 DEF Notifications, Kind, RowOf, VolumeOf
<1>4. \A r \in touched : \E i \in DOMAIN ns : RowOf(ns[i]) = r
  BY DEF PriceNotices, RowOf
<1> HIDE DEF n, Note
<1>5. Len(ns) = n /\ ns \in Seq(Note) /\ DOMAIN ns = 1..Len(ns)
  BY <1>1, <1>2
<1>6. \A i \in 1..Len(ns) : ns[i] \in Note
  BY <1>5
<1>7. ns \in Seq(Notifications)
  BY <1>3, <1>5
<1> QED BY <1>3, <1>4, <1>5, <1>6, <1>7, Zenon

\* What is read or written of a pair are rows of the table.
LEMMA WrittenRows ==
  ASSUME Accounted, NEW p, NEW batch \in Parts(Chosen(p), RowBatch)
  PROVE  batch \in SUBSET Inserted /\ batch \subseteq chosen
  BY DEF Accounted, Parts, Chosen

LEMMA PriceStep ==
  ASSUME StreamInv, EmaInv, NEW p \in Pairs, WriteBatch(p)
  PROVE  StreamInv' /\ EmaInv'
<1>1. PICK batch \in Parts(Chosen(p), RowBatch) :
        /\ priced' = priced \cup batch
        /\ \E ns \in PriceNotices(batch) : Notify(ns)
        /\ chosen' = chosen \ batch
        /\ at' = [at EXCEPT ![p] = IF Chosen(p) = batch THEN "written" ELSE "writing"]
  BY DEF WriteBatch
<1>2. PICK ns \in PriceNotices(batch) : Notify(ns)
  BY <1>1
<1>3. UNCHANGED <<volume, jobs, link, buffer, emitted, restarted, scriptVars, ema, selected>> /\ at[p] = "writing"
  BY DEF WriteBatch
<1>4. batch \in SUBSET Inserted /\ batch \subseteq chosen
  BY WrittenRows DEF EmaInv
<1>5. /\ ns \in Seq(Notifications)
      /\ \A i \in 1..Len(ns) : /\ Kind(ns[i]) = "UPDATE" /\ RowOf(ns[i]) \in batch
                               /\ VolumeOf(ns[i]) = volume[RowOf(ns[i])]
      /\ \A r \in batch : \E i \in 1..Len(ns) : RowOf(ns[i]) = r
  BY <1>4, PriceNoticesOk
<1>6. StreamInv'
  <2>1. \A i \in 1..Len(ns) : /\ Kind(ns[i]) = "UPDATE" /\ RowOf(ns[i]) \in batch
                              /\ VolumeOf(ns[i]) = volume'[RowOf(ns[i])]
    BY <1>3, <1>5
  <2>2. DOMAIN volume' = Swaps /\ jobs' \subseteq Swaps
    BY <1>3 DEF StreamInv, TypeOK
  <2>3. \A r \in batch : /\ volume'[r] \in {"null", "zero"} \cup Siblings(r)
                         /\ volume'[r] = "null" => volume[r] = "null"
    <3>1. \A r \in batch : r \in Swaps /\ volume[r] # "absent"
      BY <1>4 DEF Inserted
    <3> QED BY <1>3, <3>1 DEF StreamInv, TypeOK
  <2>4. \A r \in Swaps : r \notin batch => volume'[r] = volume[r]
    BY <1>3
  <2>5. UNCHANGED <<link, buffer, emitted, restarted>>
    BY <1>3
  <2> QED BY <1>2, <1>4, <1>5, <2>1, <2>2, <2>3, <2>4, <2>5, WriteStep
<1>7. EmaTypeOK'
  <2>1. batch \subseteq Swaps
    BY <1>4 DEF Inserted
  <2> QED BY <1>1, <1>3, <2>1 DEF EmaInv, EmaTypeOK
<1>8. Announced'
  <2>1. /\ link = "up" =>
             /\ Len(toGrpc') = Len(toGrpc) + Len(ns)
             /\ \A i \in 1..Len(ns) : toGrpc'[Len(toGrpc) + i] = ns[i]
        /\ \A i \in 1..Len(toGrpc) : i \in 1..Len(toGrpc') /\ toGrpc'[i] = toGrpc[i]
        /\ ~missed' => ~missed /\ link = "up"
    BY <1>2, <1>5, Sent, Zenon DEF StreamInv
  <2>2. Len(toGrpc) \in Nat /\ Len(ns) \in Nat
    BY <1>5 DEF StreamInv, TypeOK
  <2> SUFFICES ASSUME ~missed', NEW s \in priced'
               PROVE  \/ Told(s)'
                      \/ \E i \in 1..Len(toGrpc') : Kind(toGrpc'[i]) = "UPDATE" /\ RowOf(toGrpc'[i]) = s
    BY DEF Announced
  <2>3. CASE s \in batch
    <3>1. PICK i \in 1..Len(ns) : RowOf(ns[i]) = s
      BY <1>5, <2>3
    <3>2. Len(toGrpc) + i \in 1..Len(toGrpc') /\ toGrpc'[Len(toGrpc) + i] = ns[i]
      BY <2>1, <2>2
    <3>3. Kind(ns[i]) = "UPDATE"
      BY <1>5
    <3> QED BY <3>1, <3>2, <3>3
  <2>4. CASE s \in priced
    <3>1. Told(s)' = Told(s)
      BY <1>3 DEF Told
    <3> QED BY <2>1, <2>4, <3>1 DEF EmaInv, Announced
  <2> QED BY <1>1, <2>3, <2>4
<1>9. Accounted'
  <2>1. Inserted' = Inserted /\ at \in [Pairs -> {"none", "left", "reading", "writing", "written", "failed"}]
    BY <1>3 DEF Inserted, EmaInv, EmaTypeOK
  <2>2. \A q \in Pairs : q # p => at'[q] = at[q]
    BY <1>1, <2>1
  <2>3. at'[p] = IF Chosen(p) = batch THEN "written" ELSE "writing"
    BY <1>1, <2>1
  <2>4. \A s \in selected : s \in Swaps /\ PairOf[s] \in Pairs
    BY DEF EmaInv, EmaTypeOK, Pairs
  <2>5. ema # "off"
    BY <1>3 DEF EmaInv, Accounted
  <2>6. ASSUME NEW s \in selected, PairOf[s] = p
        PROVE  /\ s \in chosen' \cup priced'
               /\ Chosen(p) = batch => s \in priced'
    BY <1>1, <1>3, <2>6 DEF EmaInv, Accounted, Chosen
  <2>7. ASSUME NEW s \in selected, PairOf[s] # p
        PROVE  /\ at'[PairOf[s]] = at[PairOf[s]]
               /\ s \in chosen => s \in chosen' \cup priced'
               /\ s \in priced => s \in priced'
    BY <1>1, <2>2, <2>4, <2>7
  <2>8. ASSUME NEW s \in selected
        PROVE  /\ at'[PairOf[s]] \in {"writing", "written", "failed"}
               /\ at'[PairOf[s]] = "writing" => s \in chosen' \cup priced'
               /\ at'[PairOf[s]] = "written" => s \in priced'
    <3>1. CASE PairOf[s] = p
      BY <2>3, <2>6, <3>1
    <3>2. CASE PairOf[s] # p
      BY <2>7, <3>2 DEF EmaInv, Accounted
    <3> QED BY <3>1, <3>2
  <2> QED BY <1>1, <1>3, <2>1, <2>5, <2>8 DEF EmaInv, Accounted
<1> QED BY <1>6, <1>7, <1>8, <1>9 DEF EmaInv

\* The script's other steps do not touch the stream.
LEMMA EmaScriptStep ==
  ASSUME EmaInv, ListPairs \/ StartGroup \/ AllTried \/ EmaFails
                 \/ (\E p \in Pairs : SelectRows(p) \/ PairFails(p))
  PROVE  EmaInv' /\ UNCHANGED allVars /\ UNCHANGED priced
<1>1. UNCHANGED vars /\ UNCHANGED priced /\ UNCHANGED allVars
  BY DEF ListPairs, StartGroup, AllTried, EmaFails, SelectRows, PairFails, allVars
<1>2. Announced'
  BY <1>1 DEF EmaInv, Announced, Told, vars, grpcVars
<1>3. Inserted' = Inserted /\ \A p : RowsOf(p)' = RowsOf(p)
  BY <1>1 DEF Inserted, RowsOf, vars
<1>4. at \in [Pairs -> {"none", "left", "reading", "writing", "written", "failed"}]
  BY DEF EmaInv, EmaTypeOK
<1>5. \A s \in selected : s \in Swaps /\ PairOf[s] \in Pairs
  BY DEF EmaInv, EmaTypeOK, Pairs
<1>6. CASE ListPairs
  <2>1. selected = {}
    BY <1>5, <1>6 DEF ListPairs, EmaInv, Accounted
  <2>2. EmaTypeOK' /\ Accounted'
    BY <1>1, <1>3, <1>6, <2>1 DEF ListPairs, EmaInv, EmaTypeOK, Accounted
  <2> QED BY <1>1, <1>2, <2>2 DEF EmaInv
<1>7. CASE StartGroup
  <2>1. PICK group \in Parts(At({"left"}), PairBatch) :
          at' = [p \in Pairs |-> IF p \in group THEN "reading" ELSE at[p]]
    BY <1>7 DEF StartGroup
  <2>2. \A p \in group : p \in Pairs /\ at[p] = "left"
    BY DEF Parts, At
  <2>3. \A s \in selected : at'[PairOf[s]] = at[PairOf[s]]
    BY <1>5, <2>1, <2>2 DEF EmaInv, Accounted
  <2>4. UNCHANGED <<ema, chosen, selected>> /\ ema # "off"
    BY <1>7 DEF StartGroup
  <2>5. EmaTypeOK'
    BY <1>1, <1>4, <2>1, <2>4 DEF EmaInv, EmaTypeOK
  <2>6. Accounted'
    BY <1>1, <1>3, <2>3, <2>4 DEF EmaInv, Accounted
  <2> QED BY <1>1, <1>2, <2>5, <2>6 DEF EmaInv
<1>8. CASE AllTried
  <2>1. UNCHANGED <<at, chosen, selected>> /\ ema' = "done"
    BY <1>8 DEF AllTried
  <2>2. EmaTypeOK' /\ Accounted'
    BY <1>1, <1>3, <2>1 DEF EmaInv, EmaTypeOK, Accounted
  <2> QED BY <1>1, <1>2, <2>2 DEF EmaInv
<1>9. CASE EmaFails
  <2>1. /\ at' = [p \in Pairs |-> "none"] /\ ema' = "failed"
        /\ chosen' = {} /\ selected' = {}
    BY <1>9 DEF EmaFails
  <2>2. EmaTypeOK' /\ Accounted'
    BY <1>1, <2>1 DEF EmaInv, EmaTypeOK, Accounted
  <2> QED BY <1>1, <1>2, <2>2 DEF EmaInv
<1>10. ASSUME NEW p \in Pairs, SelectRows(p) PROVE EmaInv'
  <2>1. /\ at[p] = "reading" /\ at' = [at EXCEPT ![p] = "writing"]
        /\ chosen' = chosen \cup RowsOf(p) /\ selected' = selected \cup RowsOf(p)
        /\ UNCHANGED <<ema, priced>>
    BY <1>10 DEF SelectRows
  <2>2. RowsOf(p) \subseteq Inserted /\ RowsOf(p) \subseteq Swaps /\ \A s \in RowsOf(p) : PairOf[s] = p
    BY DEF RowsOf, Inserted
  <2>3. at'[p] = "writing" /\ \A q \in Pairs : q # p => at'[q] = at[q]
    BY <1>4, <2>1
  <2>4. \A s \in selected : PairOf[s] # p
    BY <2>1 DEF EmaInv, Accounted
  <2>5. EmaTypeOK'
    BY <1>1, <2>1, <2>2 DEF EmaInv, EmaTypeOK
  <2>6. ema # "off"
    BY <2>1 DEF EmaInv, Accounted
  <2>7. \A s \in selected : at'[PairOf[s]] = at[PairOf[s]]
    BY <1>5, <2>3, <2>4
  <2>8. Accounted'
    BY <1>1, <1>3, <2>1, <2>2, <2>3, <2>6, <2>7 DEF EmaInv, Accounted
  <2> QED BY <1>2, <2>5, <2>8 DEF EmaInv
<1>11. ASSUME NEW p \in Pairs, PairFails(p) PROVE EmaInv'
  <2>1. /\ at[p] \in {"reading", "writing"} /\ at' = [at EXCEPT ![p] = "failed"]
        /\ chosen' = chosen \ Chosen(p) /\ UNCHANGED <<ema, priced, selected>>
    BY <1>11 DEF PairFails
  <2>2. at'[p] = "failed" /\ \A q \in Pairs : q # p => at'[q] = at[q]
    BY <1>4, <2>1
  <2>3. EmaTypeOK'
    BY <1>1, <2>1 DEF EmaInv, EmaTypeOK
  <2>4. ema # "off"
    BY <2>1 DEF EmaInv, Accounted
  <2>5. ASSUME NEW s \in selected
        PROVE  /\ at'[PairOf[s]] \in {"writing", "written", "failed"}
               /\ at'[PairOf[s]] = "writing" => s \in chosen' \cup priced
               /\ at'[PairOf[s]] = "written" => s \in priced
    <3>1. CASE PairOf[s] = p
      BY <2>2, <3>1
    <3>2. CASE PairOf[s] # p
      <4>1. at'[PairOf[s]] = at[PairOf[s]]
        BY <1>5, <2>2, <3>2
      <4>2. s \in chosen => s \in chosen'
        BY <2>1, <3>2 DEF Chosen
      <4> QED BY <4>1, <4>2 DEF EmaInv, Accounted
    <3> QED BY <3>1, <3>2
  <2>6. Accounted'
    BY <1>1, <1>3, <2>1, <2>4, <2>5 DEF EmaInv, Accounted
  <2> QED BY <1>2, <2>3, <2>6 DEF EmaInv
<1> QED BY <1>1, <1>6, <1>7, <1>8, <1>9, <1>10, <1>11

\* The stream keeps what was announced.
LEMMA AnnouncedStep ==
  ASSUME StreamInv, EmaTypeOK, Announced, [BackfillNext]_allVars, priced' = priced
  PROVE  Announced'
<1> DEFINE Queued(s) == \E i \in 1..Len(toGrpc) : Kind(toGrpc[i]) = "UPDATE" /\ RowOf(toGrpc[i]) = s
<1> USE DEF Announced
<1>1. TypeOK /\ priced \subseteq Swaps
  BY DEF StreamInv, EmaTypeOK
<1>2. ASSUME NEW s \in Swaps, Insert(s) \/ Enrich(s) \/ Fill(s) PROVE Announced'
  <2>1. PICK ns \in Seq(Notifications) : Notify(ns)
    BY <1>2, WritersNotify
  <2>2. /\ \A i \in 1..Len(toGrpc) : i \in 1..Len(toGrpc') /\ toGrpc'[i] = toGrpc[i]
        /\ ~missed' => ~missed
    BY <1>1, <2>1, Sent, Zenon
  <2>3. emitted' = emitted
    BY <1>2 DEF Insert, Enrich, Fill
  <2> QED BY <2>2, <2>3 DEF Told
<1>3. CASE EnricherRestarts \/ \E s \in Swaps : EnrichFails(s)
  BY <1>3 DEF EnricherRestarts, EnrichFails, grpcVars, Told
<1>4. CASE ListenerConnects \/ ListenerDies
  BY <1>4 DEF ListenerConnects, ListenerDies, Told
<1>5. CASE ListenerLosesLink \/ GrpcRestarts
  <2>1. emitted' = emitted /\ (~missed' => ~missed /\ toGrpc = <<>>)
    BY <1>5 DEF ListenerLosesLink, GrpcRestarts
  <2> QED BY <2>1 DEF Told
<1>6. CASE ListenerInsert \/ ListenerUpdate
  <2> DEFINE n == Head(toGrpc)
             v == VolumeOf(n)
  <2>1. toGrpc # <<>> /\ toGrpc' = Tail(toGrpc) /\ missed' = missed
    BY <1>6 DEF ListenerInsert, ListenerUpdate
  <2>2. /\ n = toGrpc[1] /\ n \in Notifications
        /\ \A i \in 1..Len(toGrpc) : i # 1 =>
             i - 1 \in 1..Len(toGrpc') /\ toGrpc'[i - 1] = toGrpc[i]
    BY <1>1, <2>1, Received
  <2>s. PICK s \in Swaps : s = RowOf(n)
    BY <2>2, NoteFields
  <2>3. v \in Volumes
    BY <2>2, NoteFields
  <2>4. Kind(n) = "UPDATE" => emitted' = [emitted EXCEPT ![s] = Append(emitted[s], v)]
    BY <1>6, <2>s DEF ListenerInsert, ListenerUpdate, Emit, Kind, RowOf, VolumeOf
  <2>5. Kind(n) # "UPDATE" => emitted' = emitted
    BY <1>6 DEF ListenerInsert, ListenerUpdate, Kind
  <2> HIDE DEF n, v
  <2>6. Kind(n) = "UPDATE" => /\ Told(s)'
                              /\ \A r \in Swaps : Told(r) => Told(r)'
    <3> SUFFICES ASSUME Kind(n) = "UPDATE"
                 PROVE  Told(s)' /\ \A r \in Swaps : Told(r) => Told(r)'
      OBVIOUS
    <3>1. /\ \A r \in Swaps : r # s => emitted'[r] = emitted[r]
          /\ Len(emitted'[s]) = Len(emitted[s]) + 1 /\ Len(emitted[s]) \in Nat
      BY <1>1, <2>3, <2>4, Appended
    <3>2. Told(s)'
      BY <3>1 DEF Told
    <3> QED BY <3>1, <3>2 DEF Told
  <2>7. ASSUME NEW r \in Swaps, Told(r) \/ Queued(r)
        PROVE  \/ Told(r)'
               \/ \E i \in 1..Len(toGrpc') : Kind(toGrpc'[i]) = "UPDATE" /\ RowOf(toGrpc'[i]) = r
    <3>1. CASE Told(r)
      <4>1. CASE Kind(n) = "UPDATE"
        BY <2>6, <3>1, <4>1
      <4>2. CASE Kind(n) # "UPDATE"
        BY <2>5, <3>1, <4>2 DEF Told
      <4> QED BY <4>1, <4>2
    <3>2. CASE Queued(r)
      <4>1. PICK i \in 1..Len(toGrpc) : Kind(toGrpc[i]) = "UPDATE" /\ RowOf(toGrpc[i]) = r
        BY <3>2
      <4>2. CASE i = 1
        BY <2>s, <2>2, <2>6, <4>1, <4>2
      <4>3. CASE i # 1
        BY <2>2, <4>1, <4>3
      <4> QED BY <4>2, <4>3
    <3> QED BY <2>7, <3>1, <3>2
  <2> QED BY <1>1, <2>1, <2>7
<1>7. CASE Tick
  <2>1. PICK n \in 1..Len(buffer) : emitted' = [s \in Swaps |->
          IF \E i \in 1..n : buffer[i] = s THEN Append(emitted[s], "null") ELSE emitted[s]]
    BY <1>7 DEF Tick
  <2>2. ASSUME NEW s \in Swaps, Told(s) PROVE Told(s)'
    <3>1. emitted[s] \in Seq(Volumes)
      BY <1>1 DEF TypeOK
    <3>2. Append(emitted[s], "null") # <<>>
      BY <3>1
    <3> QED BY <2>1, <2>2, <3>2 DEF Told
  <2> QED BY <1>1, <1>7, <2>2 DEF Tick
<1>8. CASE CountRows \/ Fetch \/ ScriptFails \/ (\E s \in Swaps : Skip(s)) \/ UNCHANGED allVars
  <2>1. UNCHANGED vars
    BY <1>8 DEF CountRows, Fetch, ScriptFails, Skip, allVars
  <2> QED BY <2>1 DEF vars, grpcVars, Told
<1>9. CASE Next
  BY <1>2, <1>3, <1>4, <1>5, <1>6, <1>7, <1>9 DEF Next
<1> QED BY <1>2, <1>8, <1>9 DEF BackfillNext, Stream, Script

\* A row stays in the table, whoever writes.
LEMMA RowsStay ==
  ASSUME TypeOK, [BackfillNext]_allVars
  PROVE  Inserted \subseteq Inserted'
<1>1. CASE Next
  <2>1. [Next]_vars
    BY <1>1
  <2> QED BY <2>1, VolumesStay DEF Inserted
<1>2. ASSUME NEW s \in Swaps, Fill(s) PROVE Inserted \subseteq Inserted'
  <2>1. \E v \in ComputedVolumes(s) : \A r \in Swaps : volume'[r] \in {v, volume[r]}
    BY <1>2 DEF Fill
  <2>2. \A v \in ComputedVolumes(s) : v # "absent"
    BY DEF ComputedVolumes
  <2> QED BY <2>1, <2>2 DEF Inserted
<1>3. CASE CountRows \/ Fetch \/ ScriptFails \/ (\E s \in Swaps : Skip(s)) \/ UNCHANGED allVars
  BY <1>3 DEF CountRows, Fetch, ScriptFails, Skip, allVars, vars, Inserted
<1> QED BY <1>1, <1>2, <1>3 DEF BackfillNext, Stream, Script

\* As long as this script has written nothing, what is told without a volume is
\* the first that is told of its row.
PlainUntilPriced == priced = {} => PlainInv

LEMMA PriceTells ==
  ASSUME StreamInv, PlainUntilPriced, NEW p \in Pairs, WriteBatch(p)
  PROVE  PlainUntilPriced'
<1> SUFFICES ASSUME priced' = {} PROVE PlainInv'
  BY DEF PlainUntilPriced
<1>1. PICK batch \in Parts(Chosen(p), RowBatch) :
        priced' = priced \cup batch /\ \E ns \in PriceNotices(batch) : Notify(ns)
  BY DEF WriteBatch
<1>2. priced = {} /\ batch = {} /\ batch \in SUBSET Inserted
  BY <1>1
<1>3. PICK ns \in PriceNotices(batch) : Notify(ns)
  BY <1>1
<1>4. ns \in Seq(Notifications) /\ \A i \in 1..Len(ns) : FALSE
  BY <1>2, <1>3, PriceNoticesOk
<1>5. \A i \in 1..Len(toGrpc') : i \in 1..Len(toGrpc) /\ toGrpc'[i] = toGrpc[i]
  BY <1>3, <1>4, Sent, Zenon DEF StreamInv
<1>6. emitted' = emitted
  BY DEF WriteBatch
<1> QED BY <1>2, <1>5, <1>6 DEF PlainUntilPriced, PlainInv, NoPlainUpdate, PlainFirst

\* The invariant of the stream with all its writers.
FourInv == StreamInv /\ ScriptInv /\ EmaInv /\ PlainUntilPriced

LEMMA EmaStep == FourInv /\ [EmaNext]_fourVars => FourInv'
<1> SUFFICES ASSUME StreamInv, ScriptInv, EmaInv, PlainUntilPriced, [EmaNext]_fourVars
             PROVE  StreamInv' /\ ScriptInv' /\ EmaInv' /\ PlainUntilPriced'
  BY DEF FourInv
<1>0. TypeOK
  BY DEF StreamInv
<1>1. CASE [BackfillNext]_allVars /\ UNCHANGED emaVars
  <2>1. StreamInv'
    BY <1>1, BackfillStep
  <2>2. ScriptInv'
    BY <1>0, <1>1, ScriptInvStep
  <2>3. EmaTypeOK'
    BY <1>1 DEF EmaInv, EmaTypeOK, emaVars
  <2>4. Announced'
    BY <1>1, AnnouncedStep DEF EmaInv, emaVars
  <2>5. Inserted \subseteq Inserted'
    BY <1>0, <1>1, RowsStay
  <2>6. Accounted'
    BY <1>1, <2>5 DEF EmaInv, Accounted, emaVars
  <2>7. PlainUntilPriced'
    BY <1>1, PlainStep DEF PlainUntilPriced, emaVars
  <2> QED BY <2>1, <2>2, <2>3, <2>4, <2>6, <2>7 DEF EmaInv
<1>2. ASSUME NEW p \in Pairs, WriteBatch(p)
      PROVE  StreamInv' /\ ScriptInv' /\ EmaInv' /\ PlainUntilPriced'
  <2>1. UNCHANGED <<volume, scriptVars>>
    BY <1>2 DEF WriteBatch
  <2>2. ScriptInv'
    BY <2>1, ScriptIdle
  <2> QED BY <1>2, <2>2, PriceStep, PriceTells
<1>3. CASE \/ ListPairs \/ StartGroup \/ AllTried \/ EmaFails
           \/ \E p \in Pairs : SelectRows(p) \/ PairFails(p)
  <2>1. EmaInv' /\ UNCHANGED allVars /\ UNCHANGED priced
    BY <1>3, EmaScriptStep
  <2>2. StreamInv'
    BY <2>1, BackfillStep
  <2>3. ScriptInv'
    BY <1>0, <2>1, ScriptInvStep
  <2>4. PlainUntilPriced'
    BY <2>1, PlainStep DEF PlainUntilPriced
  <2> QED BY <2>1, <2>2, <2>3, <2>4
<1> QED BY <1>1, <1>2, <1>3 DEF EmaNext, Ema, fourVars

\* Queue, buffer, table and broadcasts stay in step with all four writers, and
\* both scripts account for every row they have read.
THEOREM FourWritersInvariant == EmaSpec => []FourInv
<1>1. EmaInit => StreamInv /\ ScriptInv
  BY StreamStart, ScriptStart DEF EmaInit, BackfillInit
<1>2. EmaInit => EmaInv
  BY DEF EmaInit, BackfillInit, EmaInv, EmaTypeOK, Announced, Accounted
<1>3. EmaInit => PlainUntilPriced
  BY PlainStart DEF EmaInit, PlainUntilPriced
<1>4. EmaInit => FourInv
  BY <1>1, <1>2, <1>3 DEF FourInv
<1> QED BY <1>4, EmaStep, PTL DEF EmaSpec

\* A client that has seen a swap with a volume never sees it without one, and
\* sees it without one once at most while the EMA script has written nothing,
\* for any grouping into transactions and pairs and any batch sizes.
THEOREM NeverBack == EmaSpec => []NeverBackToPlain
<1>1. FourInv => NeverBackToPlain
  BY DEF FourInv, StreamInv, NeverBackToPlain, PlainUntilPriced, PlainInv, PlainFirst, PlainComesFirst
<1> QED BY <1>1, FourWritersInvariant, PTL

\* The clients were last told what the table holds of every enriched swap,
\* whoever else updates its rows.
THEOREM StreamTellsTable == EmaSpec => []StreamAgreesWithTable
<1>1. FourInv => StreamInv
  BY DEF FourInv
<1> QED BY <1>1, InvariantTellsTable, FourWritersInvariant, PTL

\* A swap that is alone in its transaction is not lost between the trigger and
\* the clients, for an update of its price no more than for one of its volume.
THEOREM LoneSwapKept == EmaSpec => []NoSwapVanishes
<1>1. FourInv => StreamInv
  BY DEF FourInv
<1> QED BY <1>1, InvariantKeepsLoneSwaps, FourWritersInvariant, PTL

\* A backfill of volumes without a limit that ends with no swap come in and no
\* pair unknown has left no counted row without a volume; a pair the EMA script
\* reports as processed is priced in every row read for it, and the clients are
\* told of every priced row.
THEOREM ScriptsKeepTheirWord == EmaSpec => []ReportsAreTrue
<1>1. ScriptInv => FillsWhatItCounts
  BY DEF ScriptInv
<1>2. EmaInv => PricedAndTold
  BY DEF EmaInv, Announced, Accounted, PricedAndTold, Told
<1>3. FourInv => ReportsAreTrue
  BY <1>1, <1>2 DEF FourInv, ReportsAreTrue
<1> QED BY <1>3, FourWritersInvariant, PTL

=============================================================================
