----------------------------- MODULE OkvsProofs -----------------------------
(***************************************************************************)
(* Proofs about Peeling, for any set of keys, any number of buckets and    *)
(* any hash functions, that is for every graph; and about Okvs, for every  *)
(* graph, every field GF(2^n), any number of extra variables and any       *)
(* number of encodings.                                                    *)
(***************************************************************************)
EXTENDS Okvs, FiniteSetTheorems, TLAPS

(* PeelOrder and Scheduled as facts about the values of the variables.     *)
Rest(s, n) == Key \ {s[j] : j \in 1..n}

Ordered(e, a, s) ==
    /\ a = Rest(s, Len(s))
    /\ \A n \in 1..Len(s) :
         s[n] \in Rest(s, n-1) /\ \E h \in Table :
            \A k \in Rest(s, n) : e[k][h] # e[s[n]][h]

Queued(q, h, b) == \E n \in 1..Len(q[h]) : q[h][n] = b
Ahead(h, b) == stage = "scan" /\ (turn < h \/ (turn = h /\ pos <= b))

(* Peeling never takes a key of a crowded set: the first half of TwoCore.  *)
CoreKept == \A S \in SUBSET Key : Crowded(S) => S \subseteq alive

(* What the loops leave behind them: the scan's position is reset, and     *)
(* peeling only returns with empty queues.                                 *)
AtRest ==
    /\ stage # "scan" => pos = 0
    /\ stage = "done" => AllEmpty

PeelInv == TypeOK /\ PeelOrder /\ CoreKept /\ NoneForgotten /\ AtRest
-----------------------------------------------------------------------------
(* A key alone in a bucket goes to the end of the order.                   *)
LEMMA OrderedAppend ==
    ASSUME NEW e, NEW a, NEW s \in Seq(Key), Ordered(e, a, s),
           NEW k \in a, NEW h \in Table, \A l \in a : e[l][h] = e[k][h] => l = k
    PROVE  Ordered(e, a \ {k}, Append(s, k))
PROOF
<1> DEFINE t == Append(s, k)
           len == Len(s)
<1>1. /\ len \in Nat /\ Len(t) = len + 1 /\ t[len + 1] = k
      /\ \A n \in 1..len : t[n] = s[n]
  BY DEF Ordered, Rest
<1> HIDE DEF t
<1>2. \A n \in 0..len : Rest(t, n) = Rest(s, n)
  BY <1>1 DEF Rest
<1>3. Rest(t, len + 1) = Rest(s, len) \ {k}
  <2>1. 1..(len + 1) = (1..len) \cup {len + 1}
    BY <1>1
  <2> QED BY <1>1, <2>1 DEF Rest
<1>4. a = Rest(s, len)
  BY DEF Ordered
<1>5. ASSUME NEW n \in 1..(len + 1)
      PROVE  t[n] \in Rest(t, n-1) /\ \E g \in Table :
                \A l \in Rest(t, n) : e[l][g] # e[t[n]][g]
  <2>1. CASE n \in 1..len
    <3>1. Rest(t, n) = Rest(s, n) /\ Rest(t, n-1) = Rest(s, n-1) /\ t[n] = s[n]
      BY <1>1, <1>2, <2>1
    <3> QED BY <2>1, <3>1 DEF Ordered
  <2>2. CASE n = len + 1
    <3>1. Rest(t, n-1) = a /\ Rest(t, n) = a \ {k} /\ t[n] = k
      BY <1>1, <1>2, <1>3, <1>4, <2>2
    <3> QED BY <3>1
  <2> QED BY <1>1, <2>1, <2>2
<1>6. Ordered(e, a \ {k}, t)
  BY <1>1, <1>3, <1>4, <1>5 DEF Ordered
<1> QED BY <1>6 DEF t

(* A key that shares none of its bucket h is peeled: it comes last in the  *)
(* order, and no crowded set contained it.                                 *)
LEMMA PeelOne ==
    ASSUME TypeOK, PeelOrder, CoreKept, NEW k \in alive, NEW h \in Table,
           \A l \in alive : edge[l][h] = edge[k][h] => l = k,
           alive' = alive \ {k}, order' = Append(order, k), edge' = edge
    PROVE  PeelOrder' /\ CoreKept'
PROOF
<1>1. Ordered(edge, alive, order)
  BY DEF PeelOrder, After, Ordered, Rest
<1>2. Ordered(edge', alive', order')
  BY <1>1, OrderedAppend DEF TypeOK
<1>3. PeelOrder'
  BY <1>2 DEF PeelOrder, After, Ordered, Rest
<1>4. ASSUME NEW S \in SUBSET Key, Crowded(S)'
      PROVE  S \subseteq alive \ {k}
  <2>1. Crowded(S)
    BY <1>4 DEF Crowded
  <2>2. S \subseteq alive
    BY <2>1 DEF CoreKept
  <2> QED BY <2>1, <2>2 DEF Crowded
<1>5. CoreKept'
  BY <1>4 DEF CoreKept
<1> QED BY <1>3, <1>5

(* The keys peeled so far and the keys of the core are left alone.         *)
LEMMA PeelNone ==
    ASSUME PeelOrder, CoreKept, alive' = alive, order' = order, edge' = edge
    PROVE  PeelOrder' /\ CoreKept'
BY DEF PeelOrder, CoreKept, Crowded, After

(* The one key of a bucket that holds a single key.                        *)
LEMMA SingleKey ==
    ASSUME NEW K, NEW h, NEW b, Single(K, h, b), NEW k \in K, edge[k][h] = b
    PROVE  \A l \in K : edge[l][h] = edge[k][h] => l = k
BY DEF Single

(* Appending to the queues keeps what is in them, and adds the buckets of  *)
(* k that are left with a single key.                                      *)
LEMMA PushedQueued ==
    ASSUME TypeOK, NEW k \in Key, NEW q \in [Table -> Seq(Bin)], NEW tables
    PROVE  LET r == Pushed(k, q, tables) IN
           /\ r \in [Table -> Seq(Bin)]
           /\ \A h \in Table, b \in Bin : Queued(q, h, b) => Queued(r, h, b)
           /\ \A h \in Table : h \in tables /\ Single(alive \ {k}, h, edge[k][h])
                                => Queued(r, h, edge[k][h])
PROOF
<1> DEFINE r == Pushed(k, q, tables)
<1>1. \A h \in Table : edge[k][h] \in Bin /\ q[h] \in Seq(Bin)
  BY DEF TypeOK
<1>2. ASSUME NEW h \in Table
      PROVE  /\ Append(q[h], edge[k][h]) \in Seq(Bin)
             /\ Len(Append(q[h], edge[k][h])) = Len(q[h]) + 1
             /\ Append(q[h], edge[k][h])[Len(q[h]) + 1] = edge[k][h]
             /\ \A n \in 1..Len(q[h]) : Append(q[h], edge[k][h])[n] = q[h][n]
             /\ Len(q[h]) \in Nat
  BY <1>1
<1>3. \A h \in Table : r[h] \in {q[h], Append(q[h], edge[k][h])}
  BY DEF Pushed
<1>4. \A h \in Table : h \in tables /\ Single(alive \ {k}, h, edge[k][h])
                      => r[h] = Append(q[h], edge[k][h])
  BY DEF Pushed
<1>5. r \in [Table -> Seq(Bin)]
  BY <1>1, <1>2 DEF Pushed
<1> HIDE DEF r
<1>6. ASSUME NEW h \in Table, NEW b \in Bin, Queued(q, h, b)
      PROVE  Queued(r, h, b)
  <2>1. PICK n \in 1..Len(q[h]) : q[h][n] = b
    BY <1>6 DEF Queued
  <2>2. n \in 1..Len(r[h]) /\ r[h][n] = b
    BY <1>2, <1>3, <2>1
  <2> QED BY <2>2 DEF Queued
<1>7. ASSUME NEW h \in Table, h \in tables, Single(alive \ {k}, h, edge[k][h])
      PROVE  Queued(r, h, edge[k][h])
  <2>1. Len(r[h]) \in 1..Len(r[h]) /\ r[h][Len(r[h])] = edge[k][h]
    BY <1>2, <1>4, <1>7
  <2> QED BY <2>1 DEF Queued
<1> QED BY <1>5, <1>6, <1>7 DEF r
-----------------------------------------------------------------------------
(* The single buckets after a key k is peeled: single before or pushed.    *)
LEMMA NewSingle ==
    ASSUME NEW k \in alive, NEW h, NEW b, Single(alive \ {k}, h, b)
    PROVE  edge[k][h] = b \/ Single(alive, h, b)
BY DEF Single

LEMMA InitPeel == Init => PeelInv
PROOF
<1> SUFFICES ASSUME Init PROVE PeelInv
  OBVIOUS
<1>1. TypeOK
  BY BinsAssumption DEF Init, TypeOK, Table, Bin
<1>2. PeelOrder /\ CoreKept /\ AtRest
  BY DEF Init, PeelOrder, CoreKept, AtRest, After, AllEmpty
<1>3. NoneForgotten
  BY BinsAssumption DEF Init, NoneForgotten, Scheduled, Table, Bin
<1> QED BY <1>1, <1>2, <1>3 DEF PeelInv

LEMMA ScanPeel ==
    ASSUME PeelInv, Scan
    PROVE  PeelInv'
PROOF
<1>1. /\ TypeOK /\ PeelOrder /\ CoreKept /\ NoneForgotten /\ AtRest
      /\ turn \in Table /\ pos \in Bin /\ pos + 1 \in 0..Bins
      /\ stage = "scan" /\ stage' = stage /\ pos' = pos + 1
      /\ edge' = edge /\ turn' = turn /\ i' = i
  BY BinsAssumption DEF PeelInv, Scan, TypeOK, Bin
<1>2. \A h \in Table, b \in Bin : Ahead(h, b) /\ <<h, b>> # <<turn, pos>> => Ahead(h, b)'
  BY <1>1 DEF Ahead, Table, Bin
<1>3. \A h \in Table, b \in Bin :
         Single(alive, h, b) => Ahead(h, b) \/ Queued(queue, h, b)
  BY <1>1 DEF NoneForgotten, Scheduled, Ahead, Queued
<1>4. CASE ~Single(alive, turn, pos)
  <2>1. alive' = alive /\ order' = order /\ queue' = queue
    BY <1>4 DEF Scan
  <2>2. TypeOK'
    BY <1>1, <2>1 DEF TypeOK
  <2>3. \A h \in Table, b \in Bin :
           Single(alive, h, b) => Ahead(h, b)' \/ Queued(queue', h, b)
    BY <1>2, <1>3, <1>4, <2>1
  <2>4. NoneForgotten'
    BY <1>1, <2>1, <2>3 DEF NoneForgotten, Scheduled, Ahead, Queued, Single
  <2> QED BY <1>1, <2>1, <2>2, <2>4, PeelNone DEF PeelInv, AtRest
<1>5. CASE Single(alive, turn, pos)
  <2>1. PICK k \in Bucket(turn, pos) : Peel(k, queue, 1..(turn-1))
    BY <1>5 DEF Scan
  <2>2. /\ k \in alive /\ k \in Key /\ edge[k][turn] = pos
        /\ alive' = alive \ {k} /\ order' = Append(order, k)
        /\ queue' = Pushed(k, queue, 1..(turn-1)) /\ queue \in [Table -> Seq(Bin)]
    BY <1>1, <2>1 DEF Bucket, TypeOK, Peel
  <2>3. \A l \in alive : edge[l][turn] = edge[k][turn] => l = k
    BY <1>5, <2>2, SingleKey
  <2>4. PeelOrder' /\ CoreKept'
    BY <1>1, <2>2, <2>3, PeelOne
  <2>5. /\ queue' \in [Table -> Seq(Bin)]
        /\ \A h \in Table, b \in Bin : Queued(queue, h, b) => Queued(queue', h, b)
        /\ \A h \in Table : h \in 1..(turn-1) /\ Single(alive \ {k}, h, edge[k][h])
                             => Queued(queue', h, edge[k][h])
    BY <1>1, <2>2, PushedQueued
  <2>6. TypeOK'
    BY <1>1, <2>2, <2>5 DEF TypeOK
  <2>7. ASSUME NEW h \in Table, NEW b \in Bin, Single(alive \ {k}, h, b)
        PROVE  Ahead(h, b)' \/ Queued(queue', h, b)
    <3>1. <<h, b>> # <<turn, pos>>
      BY <2>2, <2>3, <2>7 DEF Single
    <3>2. CASE Single(alive, h, b)
      BY <1>2, <1>3, <2>5, <3>1, <3>2
    <3>3. CASE edge[k][h] = b /\ turn < h
      BY <1>1, <3>3 DEF Ahead
    <3>4. CASE edge[k][h] = b /\ h < turn
      <4>1. h \in 1..(turn-1)
        BY <1>1, <3>4 DEF Table
      <4> QED BY <2>5, <2>7, <3>4, <4>1
    <3>5. h < turn \/ h = turn \/ turn < h
      BY <1>1 DEF Table
    <3>6. edge[k][h] = b \/ Single(alive, h, b)
      BY <2>2, <2>7, NewSingle
    <3> QED BY <2>2, <3>1, <3>2, <3>3, <3>4, <3>5, <3>6
  <2>8. NoneForgotten'
    BY <1>1, <2>2, <2>7 DEF NoneForgotten, Scheduled, Ahead, Queued, Single
  <2> QED BY <1>1, <2>4, <2>6, <2>8 DEF PeelInv, AtRest
<1> QED BY <1>4, <1>5

LEMMA NextScanPeel ==
    ASSUME PeelInv, NextScan
    PROVE  PeelInv'
PROOF
<1> USE DEF PeelInv, NextScan
<1>1. TypeOK'
  BY BinsAssumption DEF TypeOK, Table
<1>2. PeelOrder' /\ CoreKept'
  BY PeelNone
<1>3. NoneForgotten'
  <2>1. ASSUME NEW h \in Table, NEW b \in Bin, Ahead(h, b) PROVE Ahead(h, b)'
    BY <2>1, BinsAssumption DEF TypeOK, Ahead, Table, Bin
  <2>2. queue' = queue /\ alive' = alive /\ edge' = edge
    OBVIOUS
  <2> QED BY <2>1, <2>2 DEF NoneForgotten, Scheduled, Ahead, Queued, Single
<1>4. AtRest'
  BY DEF AtRest, AllEmpty
<1> QED BY <1>1, <1>2, <1>3, <1>4

LEMMA HandlePeel ==
    ASSUME PeelInv, Handle
    PROVE  PeelInv'
PROOF
<1> DEFINE b == Head(queue[turn])
           q == [queue EXCEPT ![turn] = Tail(@)]
<1>1. /\ TypeOK /\ PeelOrder /\ CoreKept /\ NoneForgotten /\ AtRest
      /\ turn \in Table /\ i' \in Nat
      /\ queue \in [Table -> Seq(Bin)] /\ queue[turn] # <<>>
      /\ stage = "queues" /\ stage' = stage /\ pos' = pos
      /\ edge' = edge /\ turn' = turn
  BY DEF PeelInv, Handle, TypeOK
<1>2. /\ b \in Bin /\ q \in [Table -> Seq(Bin)] /\ q[turn] = Tail(queue[turn])
      /\ Len(Tail(queue[turn])) = Len(queue[turn]) - 1
      /\ \A n \in 1..(Len(queue[turn])-1) : Tail(queue[turn])[n] = queue[turn][n+1]
      /\ b = queue[turn][1] /\ Len(queue[turn]) \in Nat
      /\ \A h \in Table \ {turn} : q[h] = queue[h]
  BY <1>1
<1> HIDE DEF b, q
<1>3. ASSUME NEW h \in Table, NEW c \in Bin, Queued(queue, h, c), <<h, c>> # <<turn, b>>
      PROVE  Queued(q, h, c)
  <2>1. PICK n \in 1..Len(queue[h]) : queue[h][n] = c
    BY <1>3 DEF Queued
  <2>2. CASE h = turn
    <3>1. n # 1 /\ n - 1 \in 1..(Len(queue[turn])-1) /\ n - 1 + 1 = n
      BY <1>2, <1>3, <2>1, <2>2
    <3> QED BY <1>2, <2>1, <2>2, <3>1 DEF Queued
  <2>3. CASE h # turn
    BY <1>2, <2>1, <2>3 DEF Queued
  <2> QED BY <2>2, <2>3
<1>4. \A h \in Table, c \in Bin : Single(alive, h, c) => Queued(queue, h, c)
  BY <1>1 DEF NoneForgotten, Scheduled, Queued
<1>5. CASE ~Single(alive, turn, b)
  <2>1. alive' = alive /\ order' = order /\ queue' = q
    BY <1>5 DEF Handle, b, q
  <2>2. TypeOK'
    BY <1>1, <1>2, <2>1 DEF TypeOK
  <2>3. \A h \in Table, c \in Bin : Single(alive, h, c) => Queued(queue', h, c)
    BY <1>3, <1>4, <1>5, <2>1
  <2>4. NoneForgotten'
    BY <1>1, <2>1, <2>3 DEF NoneForgotten, Scheduled, Queued, Single
  <2> QED BY <1>1, <2>1, <2>2, <2>4, PeelNone DEF PeelInv, AtRest
<1>6. CASE Single(alive, turn, b)
  <2>1. PICK k \in Bucket(turn, b) : Peel(k, q, Table \ {turn})
    BY <1>6 DEF Handle, b, q
  <2>2. /\ k \in alive /\ k \in Key /\ edge[k][turn] = b
        /\ alive' = alive \ {k} /\ order' = Append(order, k)
        /\ queue' = Pushed(k, q, Table \ {turn})
    BY <1>1, <2>1 DEF Bucket, TypeOK, Peel
  <2>3. \A l \in alive : edge[l][turn] = edge[k][turn] => l = k
    BY <1>6, <2>2, SingleKey
  <2>4. PeelOrder' /\ CoreKept'
    BY <1>1, <2>2, <2>3, PeelOne
  <2>5. /\ queue' \in [Table -> Seq(Bin)]
        /\ \A h \in Table, c \in Bin : Queued(q, h, c) => Queued(queue', h, c)
        /\ \A h \in Table : h \in Table \ {turn} /\ Single(alive \ {k}, h, edge[k][h])
                             => Queued(queue', h, edge[k][h])
    BY <1>1, <1>2, <2>2, PushedQueued
  <2>6. TypeOK'
    <3>1. alive' \subseteq Key /\ order' \in Seq(Key)
      BY <1>1, <2>2 DEF TypeOK
    <3> QED BY <1>1, <2>5, <3>1 DEF TypeOK
  <2>7. ASSUME NEW h \in Table, NEW c \in Bin, Single(alive \ {k}, h, c)
        PROVE  Queued(queue', h, c)
    <3>1. <<h, c>> # <<turn, b>>
      BY <2>2, <2>3, <2>7 DEF Single
    <3>2. CASE Single(alive, h, c)
      BY <1>3, <1>4, <2>5, <3>1, <3>2
    <3>3. CASE edge[k][h] = c
      BY <2>2, <2>5, <2>7, <3>1, <3>3
    <3> QED BY <2>2, <2>7, <3>2, <3>3, NewSingle
  <2>8. NoneForgotten'
    <3>1. edge' = edge /\ alive' = alive \ {k}
      BY <1>1, <2>2
    <3> QED BY <2>7, <3>1 DEF NoneForgotten, Scheduled, Queued, Single
  <2> QED BY <1>1, <2>4, <2>6, <2>8 DEF PeelInv, AtRest
<1> QED BY <1>5, <1>6

LEMMA NextQueuePeel ==
    ASSUME PeelInv, NextQueue
    PROVE  PeelInv'
PROOF
<1> USE DEF PeelInv, NextQueue
<1>1. TypeOK'
  BY DEF TypeOK, Table
<1>2. PeelOrder' /\ CoreKept'
  BY PeelNone
<1>3. NoneForgotten'
  BY DEF NoneForgotten, Scheduled, Single
<1>4. AtRest'
  BY DEF AtRest, AllEmpty
<1> QED BY <1>1, <1>2, <1>3, <1>4

(* Every step of peeling preserves the invariant.                          *)
LEMMA NextPeel == PeelInv /\ [Next]_vars => PeelInv'
PROOF
<1> SUFFICES ASSUME PeelInv, [Next]_vars PROVE PeelInv'
  OBVIOUS
<1>1. CASE UNCHANGED vars
  BY <1>1, PeelNone
     DEF vars, PeelInv, TypeOK, NoneForgotten, Scheduled, Single, AtRest, AllEmpty
<1> QED BY <1>1, ScanPeel, NextScanPeel, HandlePeel, NextQueuePeel DEF Next, Done

(* When peeling has returned, no bucket holds a single key: every key that *)
(* is left shares all its buckets.                                         *)
LEMMA DoneCrowded == PeelInv /\ stage = "done" => Crowded(alive)
PROOF
<1> SUFFICES ASSUME PeelInv, stage = "done", NEW k \in alive, NEW h \in Table
             PROVE  \E l \in alive \ {k} : edge[l][h] = edge[k][h]
  BY DEF Crowded
<1>1. edge[k][h] \in Bin /\ queue[h] = <<>>
  BY DEF PeelInv, TypeOK, AtRest, AllEmpty
<1>2. ~Single(alive, h, edge[k][h])
  BY <1>1 DEF PeelInv, NoneForgotten, Scheduled
<1> QED BY <1>2 DEF Single
-----------------------------------------------------------------------------
(* All the loops of peeling, scans and queues, keep the invariant.         *)
THEOREM PeelInductive == Spec => []PeelInv
BY InitPeel, NextPeel, PTL DEF Spec

(* On every graph, a key is peeled only when it has a bucket to itself     *)
(* among the keys not peeled yet (paxos.cpp 753-877, 1068-1133).           *)
THEOREM OrderUsable == Spec => []PeelOrder
<1>1. PeelInv => PeelOrder
  BY DEF PeelInv
<1> QED BY <1>1, PeelInductive, PTL

(* On every graph, no bucket with a single key escapes both the scans and  *)
(* the queues, although the scan has passed it (753-812, 848-877).         *)
THEOREM NothingForgotten == Spec => []NoneForgotten
<1>1. PeelInv => NoneForgotten
  BY DEF PeelInv
<1> QED BY <1>1, PeelInductive, PTL

(* On every graph, what peeling leaves is the 2-core (944-992).            *)
THEOREM LeavesTwoCore == Spec => []TwoCore
<1>1. PeelInv => TwoCore
  BY DoneCrowded DEF PeelInv, TwoCore, CoreKept
<1> QED BY <1>1, PeelInductive, PTL

(* The types of the loop counters, queues and the peeling vector.          *)
THEOREM PeelTypes == Spec => []TypeOK
<1>1. PeelInv => TypeOK
  BY DEF PeelInv
<1> QED BY <1>1, PeelInductive, PTL
-----------------------------------------------------------------------------
(* The largest crowded set: peeling ends with it, whatever it removes      *)
(* first, so that the 2-core is the same for every encoding.               *)
Core == {k \in Key : \E S \in SUBSET Key : Crowded(S) /\ k \in S}

Buckets(K) == {At(k, h) : k \in K, h \in Table}

(* The keys whose slots have been determined: the core and the unpeeled.   *)
Placed == Rest(order, IF mode = "ready" THEN 0 ELSE counter)
Solving == mode \in {"unpeeling", "ready"}

PhaseInv ==
    /\ counter \in 0..Len(order)
    /\ mode = "peeling" => counter = 0
    /\ mode # "peeling" => stage = "done"
    /\ mode \in {"external", "ready"} => counter = Len(order)
    /\ mode = "ready" => table = variables

(* The marks of an earlier encoding are those of the core.                 *)
SignInv ==
    /\ sign \subseteq Buckets(Core)
    /\ Solving => CoreSlot \subseteq sign

(* The buckets that only keys still to be unpeeled use are unset, and the  *)
(* others are set.                                                         *)
OpenInv ==
    mode = "unpeeling" =>
        \A s \in (Table \X Bin) \ NonOccupied : s \notin Buckets(Placed) => Unset(s)

SetInv == Solving /\ ~zeroed => \A s \in Buckets(Placed) : ~Unset(s)

FilledInv == Solving => \A s \in Slot \ Unknown : Filled(s) => variables[s] # Zero

SolvedInv ==
    Solving /\ ~zeroed => \A k \in Placed \ alive : Decode(k, variables) = vals[k]

OkvsInv ==
    /\ OkvsTypeOK /\ PeelInv /\ PhaseInv /\ SignInv
    /\ OpenInv /\ SetInv /\ FilledInv /\ SolvedInv /\ CoreStaysSolved
-----------------------------------------------------------------------------
(* Sums in a field of characteristic two.                                  *)
LEMMA SumValue == ASSUME NEW S, NEW f PROVE Sum(S, f) \in Value
BY DEF Sum, Value

LEMMA AddValue == ASSUME NEW a \in Value, NEW b \in Value PROVE Add(a, b) \in Value
BY DEF Add, Value

LEMMA AddTwice == ASSUME NEW a, NEW b PROVE Add(Add(a, b), b) = a
BY DEF Add

LEMMA SumAgree ==
    ASSUME NEW S, NEW f, NEW g, \A s \in S : f[s] = g[s]
    PROVE  Sum(S, f) = Sum(S, g)
PROOF
<1>1. ASSUME NEW b \in Bit PROVE {s \in S : b \in f[s]} = {s \in S : b \in g[s]}
  OBVIOUS
<1> QED BY <1>1 DEF Sum

(* A sum is one of its terms and the sum of the others.                    *)
LEMMA SumSplit ==
    ASSUME NEW S, IsFiniteSet(S), NEW t \in S, NEW f, f[t] \in Value
    PROVE  Sum(S, f) = Add(f[t], Sum(S \ {t}, f))
PROOF
<1>1. ASSUME NEW b \in Bit
      PROVE  b \in Sum(S, f) <=> b \in Add(f[t], Sum(S \ {t}, f))
  <2> DEFINE T == {s \in S \ {t} : b \in f[s]}
             U == {s \in S : b \in f[s]}
  <2>1. IsFiniteSet(T) /\ Cardinality(T) \in Nat
    <3>1. IsFiniteSet(T)
      BY FS_Subset
    <3> QED BY <3>1, FS_CardinalityType
  <2>2. CASE b \in f[t]
    <3>1. U = T \cup {t} /\ t \notin T
      BY <2>2
    <3>2. Cardinality(U) = Cardinality(T) + 1
      BY <2>1, <3>1, FS_AddElement
    <3>3. Cardinality(U) % 2 = 1 <=> Cardinality(T) % 2 # 1
      BY <2>1, <3>2
    <3>4. (b \in Sum(S, f) <=> Cardinality(U) % 2 = 1)
          /\ (b \in Sum(S \ {t}, f) <=> Cardinality(T) % 2 = 1)
      BY DEF Sum
    <3> QED BY <2>2, <3>3, <3>4 DEF Add
  <2>3. CASE b \notin f[t]
    <3>1. U = T
      BY <2>3
    <3>2. (b \in Sum(S, f) <=> Cardinality(U) % 2 = 1)
          /\ (b \in Sum(S \ {t}, f) <=> Cardinality(T) % 2 = 1)
      BY DEF Sum
    <3> QED BY <2>3, <3>1, <3>2 DEF Add
  <2> QED BY <2>2, <2>3
<1>2. Sum(S, f) \subseteq Bit /\ Add(f[t], Sum(S \ {t}, f)) \subseteq Bit
  BY DEF Sum, Add, Value
<1> QED BY <1>1, <1>2
-----------------------------------------------------------------------------
(* The slots of a key.                                                     *)
LEMMA SlotsOf ==
    ASSUME OkvsTypeOK, NEW k \in Key
    PROVE  /\ \A h \in Table : At(k, h) \in Table \X Bin /\ At(k, h) \in Slot
           /\ \A h, g \in Table : At(k, h) = At(k, g) => h = g
           /\ \A s \in GammaSlot(k) : s \in Slot /\ s[1] = 4
           /\ Dec(k) \subseteq Slot
           /\ IsFiniteSet(Dec(k))
PROOF
<1>1. \A h \in Table : At(k, h) \in Table \X Bin
  BY DEF OkvsTypeOK, TypeOK, At
<1>2. \A s \in GammaSlot(k) : s \in Slot /\ s[1] = 4
  BY DEF OkvsTypeOK, GammaSlot, Slot
<1>3. \A h, g \in Table : At(k, h) = At(k, g) => h = g
  BY DEF At
<1>4. IsFiniteSet(GammaSlot(k))
  <2>1. IsFiniteSet(1..Gamma)
    BY GammaAssumption, FS_Interval
  <2>2. IsFiniteSet(dh[k])
    BY <2>1, FS_Subset DEF OkvsTypeOK
  <2> DEFINE f == [j \in dh[k] |-> <<4, j>>]
  <2>3. GammaSlot(k) = {<<4, j>> : j \in dh[k]}
    BY DEF GammaSlot
  <2>4. f \in Surjection(dh[k], GammaSlot(k))
    BY <2>3 DEF Surjection
  <2> QED BY <2>2, <2>4, FS_Surjection
<1>5. {At(k, h) : h \in Table} = {At(k, 1), At(k, 2), At(k, 3)}
  BY DEF Table
<1>6. IsFiniteSet({At(k, 1), At(k, 2), At(k, 3)})
  <2>1. IsFiniteSet({At(k, 1)} \cup {At(k, 2)})
    BY FS_Singleton, FS_Union
  <2>2. IsFiniteSet(({At(k, 1)} \cup {At(k, 2)}) \cup {At(k, 3)})
    BY <2>1, FS_Singleton, FS_Union
  <2>3. ({At(k, 1)} \cup {At(k, 2)}) \cup {At(k, 3)} = {At(k, 1), At(k, 2), At(k, 3)}
    OBVIOUS
  <2> QED BY <2>2, <2>3
<1>7. IsFiniteSet(Dec(k))
  BY <1>4, <1>5, <1>6, FS_Union DEF Dec
<1>8. Dec(k) \subseteq Slot /\ \A h \in Table : At(k, h) \in Slot
  BY <1>1, <1>2 DEF Dec, Slot
<1> QED BY <1>1, <1>2, <1>3, <1>7, <1>8

(* A choice of fillers has no zero.                                        *)
LEMMA FillerSet == \A r \in [Slot -> Filler], s \in Slot : r[s] \in Value /\ r[s] # Zero
BY FillerAssumption

LEMMA TargetUnset ==
    ASSUME NEW k \in Key
    PROVE  /\ Target(k) # 0 => Target(k) \in Table /\ Unset(At(k, Target(k)))
           /\ Target(k) = 0 => \A h \in Table : ~Unset(At(k, h))
BY DEF Target, Table

(* Unpeeling k changes unset slots of k only; if there is one the equation *)
(* of k holds afterwards, and no slot but the target can be unset.         *)
LEMMA SolvedSlots ==
    ASSUME OkvsTypeOK, NEW k \in Key, NEW r \in [Slot -> Filler],
           NEW g, g = Solved(k, r)
    PROVE  /\ g \in [Slot -> Value]
           /\ \A s \in Slot : ~Unset(s) => g[s] = variables[s]
           /\ \A s \in Slot : (\A h \in Table : s # At(k, h)) => g[s] = variables[s]
           /\ Target(k) # 0 => Decode(k, g) = vals[k]
           /\ \A h \in Table : h # Target(k) /\ Unset(At(k, h)) => g[At(k, h)] # Zero
PROOF
<1> DEFINE t == Target(k)
           Fill(s) == \E h \in Table \ {t} : s = At(k, h) /\ Unset(s)
           filled == [s \in Slot |-> IF Fill(s) THEN r[s] ELSE variables[s]]
           rest == Sum(Dec(k) \ {At(k, t)}, filled)
           value == Add(vals[k], rest)
<1>1. variables \in [Slot -> Value] /\ vals[k] \in Value
  BY DEF OkvsTypeOK
<1>2. /\ \A h \in Table : At(k, h) \in Slot /\ At(k, h) \in Dec(k)
      /\ \A h, l \in Table : At(k, h) = At(k, l) => h = l
      /\ Dec(k) \subseteq Slot /\ IsFiniteSet(Dec(k))
  BY SlotsOf DEF Dec
<1>3. filled \in [Slot -> Value]
  BY <1>1, FillerSet
<1>4. value \in Value
  BY <1>1, SumValue, AddValue
<1>5. CASE t = 0
  <2>1. g = variables /\ \A h \in Table : ~Unset(At(k, h))
    BY <1>5, TargetUnset DEF Solved
  <2> QED BY <1>1, <1>5, <2>1
<1>6. CASE t # 0
  <2>1. t \in Table /\ Unset(At(k, t))
    BY <1>6, TargetUnset
  <2>2. g = [filled EXCEPT ![At(k, t)] = value]
    BY <1>6 DEF Solved
  <2> HIDE DEF filled, value, t
  <2>3. g[At(k, t)] = value /\ \A s \in Slot : s # At(k, t) => g[s] = filled[s]
    BY <1>2, <1>3, <2>1, <2>2
  <2>4. g \in [Slot -> Value]
    BY <1>3, <1>4, <2>2
  <2>5. /\ \A s \in Slot : ~Unset(s) => g[s] = variables[s]
        /\ \A s \in Slot : (\A h \in Table : s # At(k, h)) => g[s] = variables[s]
    BY <2>1, <2>3 DEF filled
  <2>6. Decode(k, g) = vals[k]
    <3>1. Decode(k, g) = Add(g[At(k, t)], Sum(Dec(k) \ {At(k, t)}, g))
      BY <1>2, <2>1, <2>4, SumSplit DEF Decode
    <3>2. Sum(Dec(k) \ {At(k, t)}, g) = rest
      <4>1. \A s \in Dec(k) \ {At(k, t)} : g[s] = filled[s]
        BY <1>2, <2>3
      <4> QED BY <4>1, SumAgree
    <3>3. Add(Add(vals[k], rest), rest) = vals[k]
      BY AddTwice
    <3> QED BY <2>3, <3>1, <3>2, <3>3 DEF value
  <2>7. ASSUME NEW h \in Table, h # t, Unset(At(k, h))
        PROVE  g[At(k, h)] # Zero
    <3>1. At(k, h) \in Slot /\ At(k, h) # At(k, t)
      BY <1>2, <2>1, <2>7
    <3>2. Fill(At(k, h))
      BY <2>7
    <3>3. g[At(k, h)] = r[At(k, h)]
      BY <2>3, <3>1, <3>2 DEF filled
    <3> QED BY <3>1, <3>3, FillerSet
  <2> QED BY <2>4, <2>5, <2>6, <2>7 DEF t
<1> QED BY <1>5, <1>6
-----------------------------------------------------------------------------
(* When peeling is done the core is left, and the others are peeled.       *)
LEMMA CoreAlive ==
    ASSUME PeelInv, stage = "done"
    PROVE  alive = Core /\ Buckets(Core) = CoreSlot
PROOF
<1>1. Crowded(alive) /\ alive \in SUBSET Key
  BY DoneCrowded DEF PeelInv, TypeOK
<1>2. alive = Core
  BY <1>1 DEF PeelInv, CoreKept, Core
<1> QED BY <1>2 DEF Buckets, CoreSlot

LEMMA RestFacts ==
    ASSUME PeelInv
    PROVE  /\ Rest(order, Len(order)) = alive
           /\ Rest(order, 0) = Key
           /\ \A n \in 1..Len(order) :
                /\ order[n] \in Key
                /\ Rest(order, n-1) = Rest(order, n) \cup {order[n]}
                /\ order[n] \notin alive
                /\ \E h \in Table : \A k \in Rest(order, n) : edge[k][h] # edge[order[n]][h]
PROOF
<1>1. order \in Seq(Key)
  BY DEF PeelInv, TypeOK
<1>2. Rest(order, Len(order)) = alive /\ Rest(order, 0) = Key
  BY DEF PeelInv, PeelOrder, After, Rest
<1>3. ASSUME NEW n \in 1..Len(order)
      PROVE  /\ order[n] \in Key
             /\ Rest(order, n-1) = Rest(order, n) \cup {order[n]}
             /\ order[n] \notin alive
             /\ \E h \in Table : \A k \in Rest(order, n) : edge[k][h] # edge[order[n]][h]
  <2>1. 1..n = (1..(n-1)) \cup {n}
    BY <1>1
  <2>2. order[n] \in Key
    BY <1>1
  <2>3. order[n] \in Rest(order, n-1)
        /\ \E h \in Table : \A k \in Rest(order, n) : edge[k][h] # edge[order[n]][h]
    BY DEF PeelInv, PeelOrder, After, Rest
  <2>4. Rest(order, n-1) = Rest(order, n) \cup {order[n]}
    BY <2>1, <2>3 DEF Rest
  <2>5. order[n] \notin alive
    BY <1>2 DEF Rest
  <2> QED BY <2>2, <2>3, <2>4, <2>5
<1> QED BY <1>2, <1>3

LEMMA InitOkvs == OkvsInit => OkvsInv
PROOF
<1> SUFFICES ASSUME OkvsInit PROVE OkvsInv
  OBVIOUS
<1> USE DEF OkvsInit
<1>1. PeelInv
  BY InitPeel
<1>2. OkvsTypeOK
  <2>1. TypeOK /\ Len(order) = 0
    BY <1>1 DEF PeelInv, Init
  <2>2. vals \in [Key -> Value] /\ Zero \in Value
    BY InputAssumption DEF Zero, Value
  <2>3. variables \in [Slot -> Value] /\ table \in [Slot -> Value]
    BY <2>2
  <2>4. sign \subseteq Table \X Bin /\ counter \in 0..Len(order)
    BY <2>1
  <2> QED BY <2>1, <2>2, <2>3, <2>4 DEF OkvsTypeOK
<1>3. PhaseInv
  <2>1. Len(order) = 0
    BY DEF Init
  <2> QED BY <2>1 DEF PhaseInv
<1> QED BY <1>1, <1>2, <1>3
        DEF OkvsInv, SignInv, OpenInv, SetInv, FilledInv, SolvedInv, CoreStaysSolved, Solving

(* Steps that end outside of the solving phase.                            *)
LEMMA OutOfPhase ==
    ASSUME ~Solving', sign' \subseteq Buckets(Core)'
    PROVE  (SignInv /\ OpenInv /\ SetInv /\ FilledInv /\ SolvedInv /\ CoreStaysSolved)'
BY DEF SignInv, OpenInv, SetInv, FilledInv, SolvedInv, CoreStaysSolved, Solving

LEMMA MarksKept ==
    ASSUME OkvsInv, edge' = edge, sign' = sign
    PROVE  sign' \subseteq Buckets(Core)'
BY DEF OkvsInv, SignInv, Buckets, Core, Crowded, At

LEMMA PeelStepInv == OkvsInv /\ PeelStep => OkvsInv'
PROOF
<1> SUFFICES ASSUME OkvsInv, PeelStep PROVE OkvsInv'
  OBVIOUS
<1>1. /\ mode = "peeling" /\ mode' = "peeling" /\ edge' = edge /\ sign' = sign
      /\ counter = 0 /\ counter' = 0 /\ OkvsTypeOK
  BY DEF PeelStep, okvsVars, OkvsInv, PhaseInv, Scan, NextScan, Handle, NextQueue
<1>2. PeelInv'
  BY NextPeel DEF PeelStep, OkvsInv, Next
<1>3. Len(order') \in Nat
  BY <1>2 DEF PeelInv, TypeOK
<1>4. OkvsTypeOK'
  BY <1>1, <1>2, <1>3 DEF PeelStep, okvsVars, OkvsTypeOK, PeelInv, Slot
<1>5. PhaseInv'
  BY <1>1, <1>3 DEF PhaseInv
<1> QED BY <1>1, <1>2, <1>4, <1>5, MarksKept, OutOfPhase DEF OkvsInv, Solving

LEMMA PeeledInv == OkvsInv /\ Peeled => OkvsInv'
PROOF
<1> SUFFICES ASSUME OkvsInv, Peeled PROVE OkvsInv'
  OBVIOUS
<1> USE DEF Peeled
<1>1. vars' = vars /\ PeelInv' /\ edge' = edge /\ sign' = sign
  BY NextPeel DEF OkvsInv, vars
<1>2. Len(order) \in Nat /\ order' = order
  BY DEF OkvsInv, PeelInv, TypeOK, vars
<1>3. OkvsTypeOK'
  BY <1>1, <1>2 DEF OkvsInv, OkvsTypeOK, PeelInv, Slot
<1>4. PhaseInv'
  BY <1>2 DEF PhaseInv, vars
<1> QED BY <1>1, <1>3, <1>4, MarksKept, OutOfPhase DEF OkvsInv, Solving

LEMMA EncodeOnlyUnpeelingInv == OkvsInv /\ EncodeOnlyUnpeeling => OkvsInv'
PROOF
<1> SUFFICES ASSUME OkvsInv, EncodeOnlyUnpeeling PROVE OkvsInv'
  OBVIOUS
<1> USE DEF EncodeOnlyUnpeeling
<1>1. vars' = vars /\ PeelInv' /\ edge' = edge /\ sign' = sign /\ order' = order
  BY NextPeel DEF OkvsInv, vars
<1>2. vals' \in [Key -> Value]
  BY InputAssumption
<1>3. OkvsTypeOK'
  BY <1>1, <1>2 DEF OkvsInv, OkvsTypeOK, PeelInv, Slot
<1>4. PhaseInv'
  BY <1>1 DEF PhaseInv, OkvsInv, vars
<1> QED BY <1>1, <1>3, <1>4, MarksKept, OutOfPhase DEF OkvsInv, Solving

LEMMA InitPeelNext == Init' => PeelInv'
<1>1. (Init => PeelInv)'
  BY InitPeel, PTL
<1> QED BY <1>1

(* The new peeling starts where the first did: the scans and the queues    *)
(* were left at rest.                                                      *)
LEMMA EncodeAgainInv == OkvsInv /\ EncodeAgain => OkvsInv'
PROOF
<1> SUFFICES ASSUME OkvsInv, EncodeAgain PROVE OkvsInv'
  OBVIOUS
<1> USE DEF EncodeAgain
<1>1. TypeOK /\ stage = "done" /\ AtRest
  BY DEF OkvsInv, PhaseInv, PeelInv
<1>2. queue = [h \in Table |-> <<>>]
  BY <1>1 DEF AtRest, AllEmpty, TypeOK
<1>3. Init'
  BY <1>1, <1>2 DEF Init, AtRest, TypeOK
<1>4. PeelInv' /\ edge' = edge /\ sign' = sign /\ Len(order') = 0
  BY <1>3, InitPeelNext
<1>5. vals' \in [Key -> Value]
  BY InputAssumption
<1>6. OkvsTypeOK'
  <2>1. OkvsTypeOK /\ TypeOK' /\ 0 \in 0..Len(order')
    BY <1>4 DEF OkvsInv, PeelInv
  <2> QED BY <1>5, <2>1 DEF OkvsTypeOK
<1>7. PhaseInv'
  BY <1>4 DEF PhaseInv
<1> QED BY <1>4, <1>6, <1>7, MarksKept, OutOfPhase DEF OkvsInv, Solving
-----------------------------------------------------------------------------
(* External determines the slots that unpeeling does not solve for.        *)
LEMMA ExternalInv == OkvsInv /\ External => OkvsInv'
PROOF
<1> SUFFICES ASSUME OkvsInv, External PROVE OkvsInv'
  OBVIOUS
<1>1. /\ mode = "external" /\ mode' = "unpeeling" /\ vars' = vars
      /\ dh' = dh /\ vals' = vals /\ counter' = counter /\ table' = table
      /\ zeroed' = zeroed /\ solvable' = (Solutions # {}) /\ sign' = sign \cup CoreSlot
  BY DEF External
<1>2. /\ edge' = edge /\ alive' = alive /\ order' = order /\ stage' = stage /\ PeelInv'
  BY <1>1, NextPeel DEF OkvsInv, vars
<1>3. PICK r \in [Slot -> Filler], sol \in Answers :
        variables' = [s \in Slot |-> IF s \in DOMAIN sol THEN sol[s]
                                     ELSE IF Filled(s) THEN r[s] ELSE Zero]
  BY DEF External
<1>4. /\ sol \in [Unknown -> Value] /\ DOMAIN sol = Unknown
      /\ Solutions # {} => sol \in Solutions
  BY <1>3 DEF Answers, Solutions
<1>5. OkvsTypeOK /\ PeelInv /\ stage = "done" /\ counter = Len(order)
  BY <1>1 DEF OkvsInv, PhaseInv
<1>6. /\ alive = Core /\ Buckets(Core) = CoreSlot /\ Rest(order, Len(order)) = alive
      /\ sign' = CoreSlot
  BY <1>1, <1>5, CoreAlive, RestFacts DEF OkvsInv, SignInv
<1>7. Placed' = alive
  BY <1>1, <1>2, <1>5, <1>6 DEF Placed
<1>8. /\ CoreSlot' = CoreSlot /\ Buckets(Placed)' = CoreSlot /\ Unknown' = Unknown
      /\ NonOccupied' = NonOccupied /\ \A s : Filled(s)' = Filled(s)
  BY <1>2, <1>7 DEF CoreSlot, Buckets, Unknown, NonOccupied, Filled, At
<1>9. CoreSlot \subseteq Table \X Bin /\ CoreSlot \subseteq Unknown
  BY <1>5 DEF OkvsTypeOK, TypeOK, CoreSlot, At, Unknown
<1>10. variables' \in [Slot -> Value]
  <2>1. Zero \in Value
    BY DEF Zero, Value
  <2> QED BY <1>3, <1>4, <2>1, FillerSet
<1>11. OkvsTypeOK'
  <2>1. TypeOK'
    BY <1>2 DEF PeelInv
  <2> QED BY <1>1, <1>2, <1>5, <1>6, <1>9, <1>10, <2>1 DEF OkvsTypeOK
<1>12. PhaseInv'
  BY <1>1, <1>2, <1>5 DEF PhaseInv
<1>13. SignInv'
  <2>1. Buckets(Core)' = Buckets(Core)
    BY <1>2 DEF Buckets, Core, Crowded, At
  <2> QED BY <1>6, <1>8, <2>1 DEF SignInv
<1>14. OpenInv'
  <2> SUFFICES ASSUME NEW s \in (Table \X Bin) \ NonOccupied, s \notin CoreSlot
               PROVE  variables'[s] = Zero /\ s \notin sign'
    BY <1>8 DEF OpenInv, Unset
  <2>1. s \in Slot /\ s[1] # 4
    BY DEF Slot, Table
  <2>2. s \notin Unknown /\ ~Filled(s)
    BY <2>1 DEF Unknown, Filled
  <2> QED BY <1>3, <1>4, <1>6, <2>1, <2>2
<1>15. SetInv'
  BY <1>6, <1>8 DEF SetInv, Unset
<1>16. FilledInv'
  <2> SUFFICES ASSUME NEW s \in Slot \ Unknown, Filled(s)
               PROVE  variables'[s] # Zero
    BY <1>8 DEF FilledInv
  <2>1. variables'[s] = r[s]
    BY <1>3, <1>4
  <2> QED BY <2>1, FillerSet
<1>17. SolvedInv'
  BY <1>2, <1>7 DEF SolvedInv
<1>18. CoreStaysSolved'
  <2> SUFFICES ASSUME Solutions # {}, NEW k \in alive
               PROVE  Decode(k, variables)' = vals[k]
    BY <1>1, <1>2 DEF CoreStaysSolved
  <2>1. k \in Key /\ Dec(k)' = Dec(k)
    BY <1>1, <1>2, <1>5 DEF OkvsTypeOK, TypeOK, Dec, GammaSlot, At
  <2>2. Decode(k, sol) = vals[k]
    BY <1>4 DEF Solutions
  <2>3. Dec(k) \subseteq Unknown
    BY <1>5, <2>1 DEF OkvsTypeOK, Dec, GammaSlot, Unknown, CoreSlot
  <2>4. \A s \in Dec(k) : variables'[s] = sol[s]
    <3>1. Dec(k) \subseteq Slot
      BY <1>5, <2>1, SlotsOf
    <3> QED BY <1>3, <1>4, <2>3, <3>1
  <2>5. Decode(k, variables') = Decode(k, sol)
    BY <2>4, SumAgree DEF Decode
  <2>6. Decode(k, variables)' = Decode(k, variables')
    BY <2>1 DEF Decode
  <2> QED BY <2>2, <2>5, <2>6
<1> QED BY <1>2, <1>11, <1>12, <1>13, <1>14, <1>15, <1>16, <1>17, <1>18 DEF OkvsInv

(* The table is a copy of the solved variables.                            *)
LEMMA FinishInv == OkvsInv /\ Finish => OkvsInv'
PROOF
<1> SUFFICES ASSUME OkvsInv, Finish PROVE OkvsInv'
  OBVIOUS
<1>1. /\ mode = "unpeeling" /\ mode' = "ready" /\ vars' = vars /\ counter = 0
      /\ counter' = Len(order) /\ table' = variables
      /\ dh' = dh /\ vals' = vals /\ variables' = variables /\ sign' = sign
      /\ zeroed' = zeroed /\ solvable' = solvable
  BY DEF Finish
<1>2. /\ edge' = edge /\ alive' = alive /\ order' = order /\ stage' = stage /\ PeelInv'
      /\ OkvsTypeOK /\ stage = "done"
  BY <1>1, NextPeel DEF OkvsInv, PhaseInv, vars
<1>3. Len(order) \in Nat
  BY <1>2 DEF OkvsTypeOK, TypeOK
<1>4. OkvsTypeOK'
  <2>1. TypeOK'
    BY <1>2 DEF PeelInv
  <2> QED BY <1>1, <1>2, <1>3, <2>1 DEF OkvsTypeOK, Slot
<1>5. PhaseInv'
  BY <1>1, <1>2, <1>3 DEF PhaseInv
<1>6. Placed' = Placed
  BY <1>1, <1>2 DEF Placed
<1>7. /\ CoreSlot' = CoreSlot /\ Buckets(Placed)' = Buckets(Placed) /\ Unknown' = Unknown
      /\ \A s : Filled(s)' = Filled(s)
  BY <1>2, <1>6 DEF CoreSlot, Buckets, Unknown, NonOccupied, Filled, At
<1>8. SignInv'
  BY <1>1, <1>2, <1>7, MarksKept DEF OkvsInv, SignInv, Solving
<1>9. OpenInv'
  BY <1>1 DEF OpenInv
<1>10. SetInv'
  BY <1>1, <1>7 DEF OkvsInv, SetInv, Unset, Solving
<1>11. FilledInv'
  BY <1>1, <1>7 DEF OkvsInv, FilledInv, Solving, Slot
<1>12. \A k : Decode(k, variables)' = Decode(k, variables)
  BY <1>1, <1>2 DEF Decode, Dec, GammaSlot, At
<1>13. SolvedInv' /\ CoreStaysSolved'
  BY <1>1, <1>2, <1>6, <1>12 DEF OkvsInv, SolvedInv, CoreStaysSolved, Solving
<1> QED BY <1>2, <1>4, <1>5, <1>8, <1>9, <1>10, <1>11, <1>13 DEF OkvsInv

(* Every key still to be unpeeled has a slot to solve for: a bucket that   *)
(* neither the core nor the keys peeled after it use.                      *)
LEMMA TargetFound ==
    ASSUME OkvsInv, mode = "unpeeling", counter > 0
    PROVE  /\ order[counter] \in Key \ alive
           /\ Rest(order, counter - 1) = Placed \cup {order[counter]}
           /\ Target(order[counter]) # 0
PROOF
<1>1. counter \in 1..Len(order) /\ OkvsTypeOK /\ PeelInv /\ OpenInv
  BY DEF OkvsInv, PhaseInv
<1> DEFINE k == order[counter]
<1>2. k \in Key \ alive /\ Rest(order, counter - 1) = Rest(order, counter) \cup {k}
  BY <1>1, RestFacts
<1>3. PICK h \in Table : \A l \in Rest(order, counter) : edge[l][h] # edge[k][h]
  BY <1>1, RestFacts
<1>4. Placed = Rest(order, counter)
  BY DEF Placed
<1>5. At(k, h) \notin Buckets(Placed)
  BY <1>3, <1>4 DEF Buckets, At
<1>6. At(k, h) \in (Table \X Bin) \ NonOccupied
  BY <1>1, <1>2, SlotsOf DEF NonOccupied, At
<1>7. Unset(At(k, h))
  BY <1>1, <1>5, <1>6 DEF OpenInv
<1>8. Target(k) # 0
  BY <1>2, <1>7, TargetUnset
<1> QED BY <1>2, <1>4, <1>8

(* Unpeeling a key fills its unset slots and no other: the equations solved *)
(* before keep their values, and the slots of keys to come stay unset.     *)
LEMMA UnpeelInv == OkvsInv /\ Unpeel => OkvsInv'
PROOF
<1> SUFFICES ASSUME OkvsInv, Unpeel PROVE OkvsInv'
  OBVIOUS
<1>0. PICK k, t : k = order[counter] /\ t = Target(k)
  OBVIOUS
<1>1. /\ mode = "unpeeling" /\ mode' = "unpeeling" /\ counter > 0 /\ counter' = counter - 1
      /\ vars' = vars /\ dh' = dh /\ vals' = vals /\ sign' = sign /\ table' = table
      /\ solvable' = solvable
  BY DEF Unpeel
<1>2. PICK r \in [Slot -> Filler] :
        /\ variables' = Solved(k, r)
        /\ zeroed' = (zeroed \/ (t # 0 /\ variables'[At(k, t)] = Zero))
  BY <1>0 DEF Unpeel
<1>3. /\ edge' = edge /\ alive' = alive /\ order' = order /\ stage' = stage /\ PeelInv'
      /\ OkvsTypeOK /\ stage = "done" /\ PeelInv /\ counter \in 1..Len(order)
  BY <1>1, NextPeel DEF OkvsInv, PhaseInv, vars
<1>4. /\ k \in Key \ alive /\ t \in Table /\ t # 0 /\ Unset(At(k, t))
      /\ Rest(order, counter - 1) = Placed \cup {k}
  BY <1>0, <1>1, TargetFound, TargetUnset
<1>5. /\ variables' \in [Slot -> Value]
      /\ \A s \in Slot : ~Unset(s) => variables'[s] = variables[s]
      /\ \A s \in Slot : (\A h \in Table : s # At(k, h)) => variables'[s] = variables[s]
      /\ Decode(k, variables') = vals[k]
      /\ \A h \in Table : h # t /\ Unset(At(k, h)) => variables'[At(k, h)] # Zero
  <2> DEFINE g == variables'
  <2>1. g = Solved(k, r)
    BY <1>2
  <2> HIDE DEF g
  <2>2. /\ g \in [Slot -> Value]
        /\ \A s \in Slot : ~Unset(s) => g[s] = variables[s]
        /\ \A s \in Slot : (\A h \in Table : s # At(k, h)) => g[s] = variables[s]
        /\ Target(k) # 0 => Decode(k, g) = vals[k]
        /\ \A h \in Table : h # Target(k) /\ Unset(At(k, h)) => g[At(k, h)] # Zero
    BY <1>2, <1>3, <1>4, <2>1, SolvedSlots
  <2> QED BY <1>0, <1>4, <2>2 DEF g
<1>6. Placed' = Placed \cup {k}
  BY <1>1, <1>3, <1>4 DEF Placed
<1>7. /\ CoreSlot' = CoreSlot /\ Unknown' = Unknown /\ NonOccupied' = NonOccupied
      /\ \A s : Filled(s)' = Filled(s)
      /\ Buckets(Placed)' = Buckets(Placed) \cup {At(k, h) : h \in Table}
  BY <1>3, <1>6 DEF CoreSlot, Buckets, Unknown, NonOccupied, Filled, At
<1>8. /\ Placed \subseteq Key /\ alive \subseteq Placed /\ alive \subseteq Key
      /\ \A l \in Placed, h \in Table : At(l, h) \in Buckets(Placed)
  <2>1. Placed = Rest(order, counter) /\ alive \subseteq Rest(order, counter)
    BY <1>1, <1>3, RestFacts DEF Placed, Rest
  <2> QED BY <1>3, <2>1 DEF Rest, Buckets, OkvsTypeOK, TypeOK
<1>9. OkvsTypeOK'
  <2>1. TypeOK' /\ Len(order) \in Nat
    BY <1>3 DEF PeelInv, TypeOK
  <2>2. zeroed' \in BOOLEAN
    BY <1>2
  <2> QED BY <1>1, <1>3, <1>5, <2>1, <2>2 DEF OkvsTypeOK, Slot
<1>10. PhaseInv'
  BY <1>1, <1>3 DEF PhaseInv
<1>11. SignInv'
  BY <1>1, <1>3, <1>7, MarksKept DEF OkvsInv, SignInv, Solving
<1>12. OpenInv'
  <2> SUFFICES ASSUME NEW s \in (Table \X Bin) \ NonOccupied,
                      s \notin Buckets(Placed) \cup {At(k, h) : h \in Table}
               PROVE  variables'[s] = Zero /\ s \notin sign'
    BY <1>7 DEF OpenInv, Unset
  <2>1. s \in Slot /\ Unset(s)
    BY <1>1 DEF OkvsInv, OpenInv, Slot
  <2> QED BY <1>1, <1>5, <2>1 DEF Unset
<1>13. ~zeroed' => ~zeroed /\ variables'[At(k, t)] # Zero
  BY <1>2, <1>4
<1>14. \A s \in Slot : ~Unset(s) => ~(variables'[s] = Zero /\ s \notin sign')
  BY <1>1, <1>5 DEF Unset
<1>15. SetInv'
  <2> SUFFICES ASSUME ~zeroed', NEW s \in Buckets(Placed) \cup {At(k, h) : h \in Table}
               PROVE  ~(variables'[s] = Zero /\ s \notin sign')
    BY <1>7 DEF SetInv, Unset
  <2>1. s \in Slot
    <3>1. CASE s \in Buckets(Placed)
      <4>1. PICK l \in Placed, h \in Table : s = At(l, h)
        BY <3>1 DEF Buckets
      <4> QED BY <1>3, <1>8, <4>1, SlotsOf
    <3>2. CASE s \in {At(k, h) : h \in Table}
      BY <1>3, <1>4, <3>2, SlotsOf
    <3> QED BY <3>1, <3>2
  <2>2. CASE s \in Buckets(Placed)
    BY <1>1, <1>13, <1>14, <2>1, <2>2 DEF OkvsInv, SetInv, Solving
  <2>3. CASE \E h \in Table : s = At(k, h)
    <3>1. PICK h \in Table : s = At(k, h)
      BY <2>3
    <3> QED BY <1>5, <1>13, <1>14, <2>1, <3>1
  <2> QED BY <2>2, <2>3
<1>16. FilledInv'
  <2> SUFFICES ASSUME NEW s \in Slot \ Unknown, Filled(s)
               PROVE  variables'[s] # Zero
    BY <1>7 DEF FilledInv
  <2>1. variables[s] # Zero
    BY <1>1 DEF OkvsInv, FilledInv, Solving
  <2>2. ~Unset(s)
    BY <2>1 DEF Unset
  <2> QED BY <1>5, <2>1, <2>2
<1>17. ASSUME ~zeroed, NEW l \in Placed
       PROVE  Decode(l, variables)' = Decode(l, variables)
  <2>1. l \in Key /\ Dec(l) \subseteq Slot
    BY <1>3, <1>8, SlotsOf
  <2>2. Dec(l)' = Dec(l)
    BY <1>1, <1>3 DEF Dec, GammaSlot, At
  <2>3. ASSUME NEW s \in Dec(l)
        PROVE  variables'[s] = variables[s]
    <3>1. CASE s \in GammaSlot(l)
      <4>1. s \in Slot /\ s[1] = 4
        BY <1>3, <2>1, <3>1, SlotsOf
      <4>2. \A h \in Table : s # At(k, h)
        BY <4>1 DEF At, Table
      <4> QED BY <1>5, <4>1, <4>2
    <3>2. CASE \E h \in Table : s = At(l, h)
      <4>1. s \in Buckets(Placed)
        BY <1>8, <3>2
      <4>2. ~Unset(s)
        BY <1>1, <1>17, <4>1 DEF OkvsInv, SetInv, Solving
      <4> QED BY <1>5, <2>1, <2>3, <4>2
    <3> QED BY <3>1, <3>2 DEF Dec
  <2>4. Decode(l, variables') = Decode(l, variables)
    BY <2>3, SumAgree DEF Decode
  <2> QED BY <2>2, <2>4 DEF Decode
<1>18. Decode(k, variables)' = vals[k]
  <2>1. Dec(k)' = Dec(k)
    BY <1>1, <1>3 DEF Dec, GammaSlot, At
  <2> QED BY <1>5, <2>1 DEF Decode
<1>19. SolvedInv'
  <2> SUFFICES ASSUME ~zeroed', NEW l \in (Placed \cup {k}) \ alive
               PROVE  Decode(l, variables)' = vals[l]
    BY <1>1, <1>3, <1>6 DEF SolvedInv
  <2>1. CASE l = k
    BY <1>18, <2>1
  <2>2. CASE l \in Placed
    BY <1>1, <1>13, <1>17, <2>2 DEF OkvsInv, SolvedInv, Solving
  <2> QED BY <2>1, <2>2
<1>20. CoreStaysSolved'
  <2> SUFFICES ASSUME ~zeroed', solvable, NEW l \in alive
               PROVE  Decode(l, variables)' = vals[l]
    BY <1>1, <1>3 DEF CoreStaysSolved
  <2> QED BY <1>1, <1>8, <1>13, <1>17 DEF OkvsInv, CoreStaysSolved
<1> QED BY <1>3, <1>9, <1>10, <1>11, <1>12, <1>15, <1>16, <1>19, <1>20 DEF OkvsInv

LEMMA StutterInv == OkvsInv /\ UNCHANGED allVars => OkvsInv'
PROOF
<1> SUFFICES ASSUME OkvsInv, UNCHANGED allVars PROVE OkvsInv'
  OBVIOUS
<1>1. vars' = vars /\ UNCHANGED okvsVars
  BY DEF allVars
<1>2. PeelInv' /\ UNCHANGED <<edge, alive, order, stage>>
  BY <1>1, NextPeel DEF OkvsInv, vars
<1> USE <1>1, <1>2 DEF OkvsInv, okvsVars
<1>3. /\ CoreSlot' = CoreSlot /\ Unknown' = Unknown /\ NonOccupied' = NonOccupied
      /\ Core' = Core /\ Placed' = Placed
  BY DEF CoreSlot, Unknown, NonOccupied, At, Core, Crowded, Placed
<1>4. /\ Buckets(Placed)' = Buckets(Placed) /\ Buckets(Core)' = Buckets(Core)
      /\ \A s : Filled(s)' = Filled(s) /\ Unset(s)' = Unset(s)
      /\ \A k : Decode(k, variables)' = Decode(k, variables)
  BY <1>3 DEF Buckets, Filled, Unset, Decode, Dec, GammaSlot, At
<1>5. OkvsTypeOK'
  BY DEF OkvsTypeOK, PeelInv, Slot
<1>6. PhaseInv' /\ SignInv' /\ OpenInv'
  BY <1>3, <1>4 DEF PhaseInv, SignInv, OpenInv, Solving
<1>7. SetInv' /\ FilledInv' /\ SolvedInv' /\ CoreStaysSolved'
  BY <1>3, <1>4 DEF SetInv, FilledInv, SolvedInv, CoreStaysSolved, Solving, Slot
<1> QED BY <1>5, <1>6, <1>7

(* The inductive invariant of the encoder.                                 *)
THEOREM EncoderInductive == OkvsSpec => []OkvsInv
<1>1. OkvsInv /\ [OkvsNext]_allVars => OkvsInv'
  BY PeelStepInv, PeeledInv, ExternalInv, UnpeelInv, FinishInv, EncodeOnlyUnpeelingInv,
     EncodeAgainInv, StutterInv DEF OkvsNext, OkvsDone
<1> QED BY <1>1, InitOkvs, PTL DEF OkvsSpec

(* The counters, marks and slots stay within their types.                *)
THEOREM OkvsTyped == OkvsSpec => []OkvsTypeOK
<1>1. OkvsInv => OkvsTypeOK
  BY DEF OkvsInv
<1> QED BY <1>1, EncoderInductive, PTL

(* Whatever the graph and the fillers, unpeeling never breaks an equation  *)
(* it has solved (paxos.cpp 1068-1133), unless a slot came out as zero.    *)
THEOREM UnpeelingKeeps == OkvsSpec => []SolvedStaySolved
<1>1. OkvsInv => SolvedStaySolved
  <2> SUFFICES ASSUME OkvsInv, mode = "unpeeling", ~zeroed, NEW n \in (counter+1)..Len(order)
               PROVE  Decode(order[n], variables) = vals[order[n]]
    BY DEF SolvedStaySolved, Unpeeled
  <2>1. PeelInv /\ counter \in 0..Len(order) /\ n \in 1..Len(order)
        /\ counter \in Nat /\ n \in Nat /\ counter <= n-1
    BY DEF OkvsInv, PhaseInv, PeelInv, TypeOK
  <2>2. order[n] \in Rest(order, n-1) /\ order[n] \notin alive
    BY <2>1, RestFacts
  <2>3. order[n] \in Placed
    BY <2>1, <2>2 DEF Placed, Rest
  <2> QED BY <2>2, <2>3 DEF OkvsInv, SolvedInv, Solving
<1> QED BY <1>1, EncoderInductive, PTL

(* The solver's equations survive unpeeling on every graph (944-1046).     *)
THEOREM SolverKept == OkvsSpec => []CoreStaysSolved
<1>1. OkvsInv => CoreStaysSolved
  BY DEF OkvsInv
<1> QED BY <1>1, EncoderInductive, PTL

(* What the protocols rely on: after every encoding, the first or a later  *)
(* one, with or without a new peeling, the table decodes to the values     *)
(* given last (okvs.h 203-235, 304-331, 347-368).                          *)
THEOREM EncodingDecodes == OkvsSpec => []TableDecodes
<1>1. OkvsInv => TableDecodes
  <2> SUFFICES ASSUME OkvsInv, mode = "ready", ~zeroed, solvable, NEW k \in Key
               PROVE  Decode(k, table) = vals[k]
    BY DEF TableDecodes
  <2>1. table = variables
    BY DEF OkvsInv, PhaseInv
  <2>2. Placed = Key
    BY RestFacts DEF OkvsInv, Placed
  <2>3. CASE k \in alive
    BY <2>1, <2>3 DEF OkvsInv, CoreStaysSolved
  <2>4. CASE k \notin alive
    BY <2>1, <2>2, <2>4 DEF OkvsInv, SolvedInv, Solving
  <2> QED BY <2>3, <2>4
<1> QED BY <1>1, EncoderInductive, PTL

(* No slot of a finished table is zero unless the solver chose it or       *)
(* unpeeling computed it ("to keep it oblivious", paxos.cpp 688, 910).     *)
THEOREM TableOblivious == OkvsSpec => []NoSlotUnset
<1>1. OkvsInv => NoSlotUnset
  <2> SUFFICES ASSUME OkvsInv, mode = "ready", ~zeroed, NEW s \in Slot \ Unknown
               PROVE  table[s] # Zero
    BY DEF NoSlotUnset
  <2>1. table = variables /\ stage = "done" /\ PeelInv /\ OkvsTypeOK
    BY DEF OkvsInv, PhaseInv
  <2>2. Placed = Key
    BY <2>1, RestFacts DEF Placed
  <2>3. CASE Filled(s)
    BY <2>1, <2>3 DEF OkvsInv, FilledInv, Solving
  <2>4. CASE ~Filled(s)
    <3>1. s \in Table \X Bin /\ s \notin NonOccupied
      BY <2>4 DEF Filled, Slot
    <3>2. PICK k \in Key : At(k, s[1]) = s /\ s[1] \in Table
      BY <3>1 DEF NonOccupied
    <3>3. s \in Buckets(Placed)
      BY <2>2, <3>2 DEF Buckets
    <3>4. ~Unset(s)
      BY <3>3 DEF OkvsInv, SetInv, Solving
    <3>5. s \notin sign
      BY <2>1, CoreAlive DEF OkvsInv, SignInv, Unknown, CoreSlot
    <3> QED BY <2>1, <3>4, <3>5 DEF Unset
  <2> QED BY <2>3, <2>4
<1> QED BY <1>1, EncoderInductive, PTL
=============================================================================
