------------------------------ MODULE Peeling ------------------------------
(***************************************************************************)
(* OBD3Tables::fillTables, peeling and handleQueue of okvs/paxos.cpp.      *)
(*                                                                         *)
(* Every key is an edge between one bucket of each of three hash tables.   *)
(* Peeling repeatedly removes a key that is alone in one of its buckets:   *)
(* one scan over each table, then work queues of the buckets that fell to  *)
(* one key behind the scan.  What remains is the 2-core of the graph.  A   *)
(* removal erases the key from all three unordered_sets, so one set of     *)
(* keys stands for the contents of the three.                              *)
(***************************************************************************)
EXTENDS Integers, Sequences, FiniteSets

CONSTANTS
    Key,    \* the keys to encode, all different
    Bins    \* tableRealSize, the number of buckets of each table

ASSUME KeyAssumption == IsFiniteSet(Key)
ASSUME BinsAssumption == Bins \in Nat \ {0}

Table == 1..3
Bin == 0..(Bins-1)

VARIABLES
    edge,   \* edge[k][h]: the bucket of key k in table h
    alive,  \* the keys still in the tables
    order,  \* peelingVector[0 .. peelingCounter-1]
    stage,  \* "scan", then "queues", then "done"
    turn,   \* the table being scanned, then the queue being handled
    pos,    \* the position of the scan
    queue,  \* queue[h]: the buckets of table h to look at again
    i       \* the loop counter of handleQueue

vars == <<edge, alive, order, stage, turn, pos, queue, i>>

Bucket(h, b) == {k \in alive : edge[k][h] = b}

(* bucket_size(b) == 1, for the keys in K.                                 *)
Single(K, h, b) == \E k \in K : \A l \in K : edge[l][h] = b <=> l = k

(* Any hash functions; fillTables has inserted all the keys.               *)
Init ==
    /\ edge \in [Key -> [Table -> Bin]]
    /\ alive = Key
    /\ order = <<>>
    /\ stage = "scan"
    /\ turn = 1
    /\ pos = 0
    /\ queue = [h \in Table |-> <<>>]
    /\ i = 0

(* Mutation of Pushed: the third scan forgets to requeue the second table. *)
Pushed_NotSecond(k, q, tables) ==
    [h \in Table |->
        IF h \in tables \ {2} /\ Single(alive \ {k}, h, edge[k][h])
          THEN Append(q[h], edge[k][h]) ELSE q[h]]

(* The queues after k is gone: its bucket in each of the given tables is   *)
(* pushed if the removal leaves a single key there.                        *)
Pushed(k, q, tables) ==
    [h \in Table |->
        IF h \in tables /\ Single(alive \ {k}, h, edge[k][h])
          THEN Append(q[h], edge[k][h]) ELSE q[h]]

(* k leaves the tables and is appended to the peeling vector.              *)
Peel(k, q, tables) ==
    /\ alive' = alive \ {k}
    /\ order' = Append(order, k)
    /\ queue' = Pushed(k, q, tables)

(* Mutation of Scan: one position too many.                                *)
Scan_OffByOne ==
    /\ stage = "scan"
    /\ pos <= Bins
    /\ IF Single(alive, turn, pos)
         THEN \E k \in Bucket(turn, pos) : Peel(k, queue, 1..(turn-1))
         ELSE UNCHANGED <<alive, order, queue>>
    /\ pos' = pos + 1
    /\ UNCHANGED <<edge, stage, turn, i>>

(* One position of the scan of a table.  The scans of the second and third *)
(* table requeue buckets of the tables scanned before.                     *)
Scan ==
    /\ stage = "scan"
    /\ pos < Bins
    /\ IF Single(alive, turn, pos)
         THEN \E k \in Bucket(turn, pos) : Peel(k, queue, 1..(turn-1))
         ELSE UNCHANGED <<alive, order, queue>>
    /\ pos' = pos + 1
    /\ UNCHANGED <<edge, stage, turn, i>>

AllEmpty == \A h \in Table : queue[h] = <<>>

NextScan ==
    /\ stage = "scan"
    /\ pos = Bins
    /\ pos' = 0
    /\ turn' = IF turn = 3 THEN 1 ELSE turn + 1
    /\ stage' = IF turn # 3 THEN "scan" ELSE IF AllEmpty THEN "done" ELSE "queues"
    /\ UNCHANGED <<edge, alive, order, queue, i>>

(* Mutation of Handle: the key stays in the tables.                        *)
Handle_NotErased ==
    /\ stage = "queues"
    /\ i < Len(queue[turn])
    /\ LET b == Head(queue[turn])
           q == [queue EXCEPT ![turn] = Tail(@)]
       IN  IF Single(alive, turn, b)
             THEN \E k \in Bucket(turn, b) :
                    /\ order' = Append(order, k)
                    /\ queue' = Pushed(k, q, Table \ {turn})
                    /\ UNCHANGED alive
             ELSE queue' = q /\ UNCHANGED <<alive, order>>
    /\ i' = i + 1
    /\ UNCHANGED <<edge, stage, pos, turn>>

(* One iteration of handleQueue: pop a bucket, and peel its key if it is   *)
(* still single.  The bound i < size is evaluated against the shrinking    *)
(* queue, so that a call may leave part of the queue for the next round.   *)
Handle ==
    /\ stage = "queues"
    /\ i < Len(queue[turn])
    /\ LET b == Head(queue[turn])
           q == [queue EXCEPT ![turn] = Tail(@)]
       IN  IF Single(alive, turn, b)
             THEN \E k \in Bucket(turn, b) : Peel(k, q, Table \ {turn})
             ELSE queue' = q /\ UNCHANGED <<alive, order>>
    /\ i' = i + 1
    /\ UNCHANGED <<edge, stage, pos, turn>>

(* Mutations of NextQueue: the round over the queues is not repeated, or   *)
(* the counter is not reset.                                               *)
NextQueue_OneRound ==
    /\ stage = "queues"
    /\ i >= Len(queue[turn])
    /\ turn' = IF turn = 3 THEN 1 ELSE turn + 1
    /\ stage' = IF turn = 3 THEN "done" ELSE stage
    /\ i' = 0
    /\ UNCHANGED <<edge, alive, order, pos, queue>>

NextQueue_NoReset ==
    /\ stage = "queues"
    /\ i >= Len(queue[turn])
    /\ turn' = IF turn = 3 THEN 1 ELSE turn + 1
    /\ stage' = IF turn = 3 /\ AllEmpty THEN "done" ELSE stage
    /\ UNCHANGED <<edge, alive, order, pos, queue, i>>

(* handleQueue returns; the next queue's turn.  The outer loop tests its   *)
(* condition, all queues empty, after the third.                           *)
NextQueue ==
    /\ stage = "queues"
    /\ i >= Len(queue[turn])
    /\ turn' = IF turn = 3 THEN 1 ELSE turn + 1
    /\ stage' = IF turn = 3 /\ AllEmpty THEN "done" ELSE stage
    /\ i' = 0
    /\ UNCHANGED <<edge, alive, order, pos, queue>>

Done == stage = "done" /\ UNCHANGED vars

Next ==
    \/ Scan
    \/ NextScan
    \/ Handle
    \/ NextQueue
    \/ Done

(* A sequential program runs until it returns.                             *)
Spec == Init /\ [][Next]_vars /\ WF_vars(Next)
-----------------------------------------------------------------------------
(* The scans and queues name existing buckets only, and the peeling vector *)
(* holds keys.                                                             *)
TypeOK ==
    /\ edge \in [Key -> [Table -> Bin]]
    /\ alive \subseteq Key
    /\ order \in Seq(Key)
    /\ stage \in {"scan", "queues", "done"}
    /\ pos \in 0..Bins
    /\ queue \in [Table -> Seq(Bin)]
    /\ turn \in Table
    /\ i \in Nat

(* The keys not among the first n peeled.                                  *)
After(n) == Key \ {order[j] : j \in 1..n}

(* What unpeeling relies on (1068-1133): when a key was peeled it had a    *)
(* bucket to itself, which no key peeled later, nor any key of the core,   *)
(* uses; and the peeling vector and the tables partition the keys.         *)
PeelOrder ==
    /\ alive = After(Len(order))
    /\ \A n \in 1..Len(order) :
         order[n] \in After(n-1) /\ \E h \in Table :
            \A k \in After(n) : edge[k][h] # edge[order[n]][h]

(* No bucket that holds a single key is forgotten: the scan has yet to     *)
(* reach it, or it is in its queue (753-812, 848-877).                     *)
Scheduled(h, b) ==
    \/ stage = "scan" /\ (turn < h \/ (turn = h /\ pos <= b))
    \/ \E n \in 1..Len(queue[h]) : queue[h][n] = b

NoneForgotten ==
    \A h \in Table, b \in Bin : Single(alive, h, b) => Scheduled(h, b)

(* A set of keys each of which shares all of its buckets.                  *)
Crowded(S) ==
    \A k \in S : \A h \in Table : \E l \in S \ {k} : edge[l][h] = edge[k][h]

(* Peeling leaves exactly the 2-core, the largest such set: it never peels *)
(* a key of the core, and it stops only when no other key is left.  So     *)
(* generateExternalToolValues, which finds the remaining keys by bucket    *)
(* sizes above one (944-992), finds them all.                              *)
TwoCore ==
    /\ \A S \in SUBSET Key : Crowded(S) => S \subseteq alive
    /\ stage = "done" => Crowded(alive)

(* Peeling returns, whatever the graph.                                    *)
Terminates == <>(stage = "done")
=============================================================================
