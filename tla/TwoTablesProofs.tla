--------------------------- MODULE TwoTablesProofs ---------------------------
(***************************************************************************)
(* Proofs about TwoTables, for every graph, every field and any number of  *)
(* encodings.                                                              *)
(***************************************************************************)
EXTENDS TwoTables, TLAPS

(* PeelOrder as a fact about the values of the variables.                  *)
Rest(s, n) == Key \ {s[j] : j \in 1..n}

Ordered(e, a, s) ==
    /\ a = Rest(s, Len(s))
    /\ \A n \in 1..Len(s) :
         s[n] \in Rest(s, n-1) /\ \E h \in Table :
            \A k \in Rest(s, n) : e[k][h] # e[s[n]][h]

(* So for the crowded sets: none loses a key to peeling.                   *)
Dense(e, S) ==
    \A k \in S : \A h \in Table : \E l \in S \ {k} : e[l][h] = e[k][h]

Kept(e, a) == \A S \in SUBSET Key : Dense(e, S) => S \subseteq a

(* k shares its bucket h with no key of K.                                 *)
Lone(K, k, h) == \A l \in K : edge[l][h] = edge[k][h] => l = k

Late == {"peeled", "external", "unpeeling", "ready"}

GraphTypes ==
    /\ edge \in [Key -> [Table -> Bin]]
    /\ alive \subseteq Key
    /\ order \in Seq(Key)
    /\ mode \in {"new", "first", "second"} \cup Late
    /\ pos \in 0..Bins
    /\ counter \in 0..Len(order)

OrderInv == mode # "new" => Ordered(edge, alive, order)
CoreKept == mode # "new" => Kept(edge, alive)

(* The key in hand is alone in its second bucket, which the scan has       *)
(* reached.                                                                *)
HandInv ==
    hand # {} => /\ mode = "second"
                 /\ pos < Bins
                 /\ \E k \in alive : hand = {k} /\ edge[k][2] <= pos /\ Lone(alive, k, 2)

(* Where no bucket with a single key is left: behind the scan of the first *)
(* table; in the first table while the second is scanned, and behind that  *)
(* scan except for the key in hand; nowhere after it.                      *)
Seen ==
    /\ mode = "first" => \A b \in Bin : b < pos => ~Single(alive, 1, b)
    /\ mode = "second" => \A b \in Bin :
         /\ ~Single(alive, 1, b)
         /\ b < pos \/ (hand # {} /\ b = pos) =>
              (Single(alive, 2, b) => \E k \in hand : edge[k][2] = b)
    /\ mode \in Late => \A h \in Table, b \in Bin : ~Single(alive, h, b)

GraphInv == GraphTypes /\ OrderInv /\ CoreKept /\ HandInv /\ Seen
-----------------------------------------------------------------------------
(* A key alone in a bucket goes to the end of the order.                   *)
LEMMA OrderedAppend ==
    ASSUME NEW e, NEW a, NEW s \in Seq(Key), Ordered(e, a, s),
           NEW k \in a, NEW h \in Table, \A l \in a : e[l][h] = e[k][h] => l = k
    PROVE  Ordered(e, a \ {k}, Append(s, k))
PROOF
<1> DEFINE t == Append(s, k)
           len == Len(s)
<1>1. /\ len \in Nat /\ Len(t) = len + 1 /\ t[len + 1] = k
      /\ \A n \in 1..len : t[n] = s[n]
  BY DEF Ordered, Rest
<1> HIDE DEF t
<1>2. \A n \in 0..len : Rest(t, n) = Rest(s, n)
  BY <1>1 DEF Rest
<1>3. Rest(t, len + 1) = Rest(s, len) \ {k}
  <2>1. 1..(len + 1) = (1..len) \cup {len + 1}
    BY <1>1
  <2> QED BY <1>1, <2>1 DEF Rest
<1>4. a = Rest(s, len)
  BY DEF Ordered
<1>5. ASSUME NEW n \in 1..(len + 1)
      PROVE  t[n] \in Rest(t, n-1) /\ \E g \in Table :
                \A l \in Rest(t, n) : e[l][g] # e[t[n]][g]
  <2>1. CASE n \in 1..len
    <3>1. Rest(t, n) = Rest(s, n) /\ Rest(t, n-1) = Rest(s, n-1) /\ t[n] = s[n]
      BY <1>1, <1>2, <2>1
    <3> QED BY <2>1, <3>1 DEF Ordered
  <2>2. CASE n = len + 1
    <3>1. Rest(t, n-1) = a /\ Rest(t, n) = a \ {k} /\ t[n] = k
      BY <1>1, <1>2, <1>3, <1>4, <2>2
    <3> QED BY <3>1
  <2> QED BY <1>1, <2>1, <2>2
<1>6. Ordered(e, a \ {k}, t)
  BY <1>1, <1>3, <1>4, <1>5 DEF Ordered
<1> QED BY <1>6 DEF t

(* No crowded set contains a key that has a bucket to itself.              *)
LEMMA CoreWithout ==
    ASSUME NEW a, Kept(edge, a), NEW k \in a, NEW h \in Table, Lone(a, k, h)
    PROVE  Kept(edge, a \ {k})
BY DEF Kept, Dense, Lone

(* The key of a bucket that holds a single one.                            *)
LEMMA AloneKey ==
    ASSUME NEW K, NEW h \in Table, NEW b, Single(K, h, b)
    PROVE  /\ Alone(K, h, b) \in K /\ edge[Alone(K, h, b)][h] = b
           /\ Lone(K, Alone(K, h, b), h)
PROOF
<1>1. \E k \in K : edge[k][h] = b
  BY DEF Single
<1>2. Alone(K, h, b) \in K /\ edge[Alone(K, h, b)][h] = b
  BY <1>1 DEF Alone
<1> QED BY <1>2 DEF Single, Lone

(* A bucket that is single without k was single before or was k's.         *)
LEMMA NewSingle ==
    ASSUME NEW K, NEW k \in K, NEW h, NEW b, Single(K \ {k}, h, b)
    PROVE  edge[k][h] = b \/ Single(K, h, b)
BY DEF Single

(* If k was alone in its bucket, the bucket was single before.             *)
LEMMA StillSingle ==
    ASSUME NEW K, NEW k \in K, NEW h, Lone(K, k, h), NEW b, Single(K \ {k}, h, b)
    PROVE  edge[k][h] # b /\ Single(K, h, b)
BY DEF Single, Lone

(* A bucket whose only key is taken is not single.                         *)
LEMMA Emptied ==
    ASSUME NEW K, NEW k \in K, NEW h, Lone(K, k, h), NEW A \in SUBSET (K \ {k})
    PROVE  ~Single(A, h, edge[k][h])
BY DEF Single, Lone

(* No single bucket left: what is left is crowded.                         *)
LEMMA NoSingleCrowded ==
    ASSUME GraphTypes, \A h \in Table, b \in Bin : ~Single(alive, h, b)
    PROVE  Crowded(alive)
PROOF
<1> SUFFICES ASSUME NEW k \in alive, NEW h \in Table
             PROVE  \E l \in alive \ {k} : edge[l][h] = edge[k][h]
  BY DEF Crowded
<1>1. edge[k][h] \in Bin
  BY DEF GraphTypes
<1> QED BY <1>1 DEF Single
-----------------------------------------------------------------------------
(* The steps that leave the graph alone.                                   *)
LEMMA Steady ==
    ASSUME GraphInv, UNCHANGED <<edge, alive, order, pos, hand>>,
           counter' \in 0..Len(order), mode \in Late, mode' \in Late
    PROVE  GraphInv'
PROOF
<1>1. GraphTypes' /\ OrderInv' /\ CoreKept'
  BY DEF GraphInv, GraphTypes, OrderInv, CoreKept, Late
<1>2. HandInv' /\ Seen'
  BY DEF GraphInv, HandInv, Seen, Single, Late
<1> QED BY <1>1, <1>2 DEF GraphInv

LEMMA RefillGraph ==
    ASSUME GraphInv, Refill, mode # "second"
    PROVE  GraphInv'
PROOF
<1>1. /\ edge' = edge /\ alive' = Key /\ order' = <<>> /\ counter' = 0
      /\ mode' = "first" /\ pos' = 0 /\ hand' = {}
  BY DEF Refill, GraphInv, HandInv
<1>2. GraphTypes'
  BY <1>1, BinsAssumption DEF GraphInv, GraphTypes, Late
<1>3. OrderInv' /\ CoreKept'
  <2>1. Ordered(edge, Key, <<>>) /\ Kept(edge, Key)
    BY DEF Ordered, Rest, Kept
  <2> QED BY <1>1, <2>1 DEF OrderInv, CoreKept
<1>4. HandInv' /\ Seen'
  BY <1>1 DEF HandInv, Seen, Bin, Late
<1> QED BY <1>2, <1>3, <1>4 DEF GraphInv

LEMMA ScanFirstGraph ==
    ASSUME GraphInv, ScanFirst
    PROVE  GraphInv'
PROOF
<1>1. /\ edge' = edge /\ counter' = counter /\ mode = "first" /\ mode' = mode
      /\ pos \in Bin /\ pos' = pos + 1 /\ pos' \in 0..Bins /\ hand = {} /\ hand' = {}
      /\ edge \in [Key -> [Table -> Bin]] /\ alive \subseteq Key /\ order \in Seq(Key)
      /\ counter \in 0..Len(order) /\ 1 \in Table
      /\ Ordered(edge, alive, order)
      /\ Kept(edge, alive)
      /\ \A b \in Bin : b < pos => ~Single(alive, 1, b)
  <2>1. /\ edge' = edge /\ counter' = counter /\ mode = "first" /\ mode' = mode
        /\ pos < Bins /\ pos' = pos + 1 /\ hand' = hand
    BY DEF ScanFirst, slots
  <2>2. hand = {} /\ Ordered(edge, alive, order) /\ Kept(edge, alive)
    BY <2>1 DEF GraphInv, HandInv, OrderInv, CoreKept
  <2>3. pos \in Bin /\ pos + 1 \in 0..Bins
    BY <2>1, BinsAssumption DEF GraphInv, GraphTypes, Bin
  <2> QED BY <2>1, <2>2, <2>3 DEF GraphInv, GraphTypes, Seen, Table
<1>2. CASE ~Single(alive, 1, pos)
  <2>1. alive' = alive /\ order' = order
    BY <1>2 DEF ScanFirst
  <2>2. \A b \in Bin : b < pos + 1 => ~Single(alive, 1, b)
    BY <1>1, <1>2 DEF Bin
  <2>3. Seen'
    BY <1>1, <2>1, <2>2 DEF Seen, Single, Late
  <2>4. GraphTypes' /\ HandInv'
    BY <1>1, <2>1 DEF GraphTypes, HandInv
  <2> QED BY <1>1, <2>1, <2>3, <2>4 DEF GraphInv, OrderInv, CoreKept
<1>3. CASE Single(alive, 1, pos)
  <2> DEFINE k == Alone(alive, 1, pos)
  <2>1. alive' = alive \ {k} /\ order' = Append(order, k)
    BY <1>3 DEF ScanFirst
  <2>2. k \in alive /\ edge[k][1] = pos /\ Lone(alive, k, 1)
    BY <1>1, <1>3, AloneKey
  <2> HIDE DEF k
  <2>3. Ordered(edge, alive', order')
    BY <1>1, <2>1, <2>2, OrderedAppend DEF Lone
  <2>4. Kept(edge, alive')
    BY <1>1, <2>1, <2>2, CoreWithout
  <2>5. ASSUME NEW b \in Bin, b < pos + 1 PROVE ~Single(alive', 1, b)
    <3>1. CASE b = pos
      BY <2>1, <2>2, <3>1, Emptied
    <3>2. CASE b < pos
      <4>1. ~Single(alive, 1, b) /\ edge[k][1] # b
        BY <1>1, <2>2, <3>2 DEF Bin
      <4> QED BY <2>1, <2>2, <4>1, NewSingle
    <3> QED BY <1>1, <2>5, <3>1, <3>2 DEF Bin
  <2>6. GraphTypes'
    <3>1. alive' \subseteq Key /\ order' \in Seq(Key) /\ Len(order') = Len(order) + 1
      BY <1>1, <2>1, <2>2
    <3>2. counter' \in 0..Len(order')
      BY <1>1, <3>1
    <3> QED BY <1>1, <3>1, <3>2 DEF GraphTypes
  <2>7. OrderInv' /\ CoreKept'
    BY <1>1, <2>3, <2>4 DEF OrderInv, CoreKept
  <2>8. HandInv' /\ Seen'
    BY <1>1, <2>5 DEF HandInv, Seen, Single, Late
  <2> QED BY <2>6, <2>7, <2>8 DEF GraphInv
<1> QED BY <1>2, <1>3

LEMMA NextScanGraph ==
    ASSUME GraphInv, NextScan
    PROVE  GraphInv'
PROOF
<1>1. /\ edge' = edge /\ alive' = alive /\ order' = order /\ counter' = counter
      /\ hand' = hand /\ mode = "first" /\ mode' = "second" /\ pos = Bins /\ pos' = 0
      /\ hand = {}
  BY DEF NextScan, slots, GraphInv, HandInv
<1>2. GraphTypes' /\ OrderInv' /\ CoreKept' /\ HandInv'
  BY <1>1, BinsAssumption
     DEF GraphInv, GraphTypes, OrderInv, CoreKept, HandInv
<1>3. \A b \in Bin : ~Single(alive, 1, b)
  BY <1>1, BinsAssumption DEF GraphInv, Seen, Bin
<1>4. Seen'
  BY <1>1, <1>3 DEF Seen, Single, Bin, Late
<1> QED BY <1>2, <1>4 DEF GraphInv

LEMMA ScanSecondGraph ==
    ASSUME GraphInv, ScanSecond
    PROVE  GraphInv'
PROOF
<1>1. /\ edge' = edge /\ alive' = alive /\ order' = order /\ counter' = counter
      /\ mode = "second" /\ mode' = mode /\ hand = {}
      /\ pos \in Bin /\ pos + 1 \in 0..Bins /\ 2 \in Table
  BY BinsAssumption DEF ScanSecond, slots, GraphInv, GraphTypes, Bin, Table
<1>2. \A b \in Bin : ~Single(alive, 1, b) /\ (b < pos => ~Single(alive, 2, b))
  BY <1>1 DEF GraphInv, Seen
<1>3. OrderInv' /\ CoreKept'
  BY <1>1 DEF GraphInv, OrderInv, CoreKept
<1>4. CASE Single(alive, 2, pos)
  <2> DEFINE k == Alone(alive, 2, pos)
  <2>1. hand' = {k} /\ pos' = pos
    BY <1>4 DEF ScanSecond
  <2>2. k \in alive /\ edge[k][2] = pos /\ Lone(alive, k, 2)
    BY <1>1, <1>4, AloneKey
  <2> HIDE DEF k
  <2>3. GraphTypes'
    BY <1>1, <2>1 DEF GraphInv, GraphTypes
  <2>4. HandInv'
    <3>1. edge[k][2] <= pos /\ pos < Bins
      BY <1>1, <2>2, BinsAssumption DEF Bin
    <3>2. HandInv' <=> \E l \in alive : {k} = {l} /\ edge[l][2] <= pos /\ Lone(alive, l, 2)
      BY <1>1, <2>1, <3>1 DEF HandInv, Lone
    <3> QED BY <2>2, <3>1, <3>2
  <2>5. Seen'
    <3>1. \A h, b : Single(alive, h, b)' <=> Single(alive, h, b)
      BY <1>1 DEF Single
    <3>2. \A b \in Bin : ~Single(alive, 1, b)'
      BY <1>2, <3>1
    <3>3. ASSUME NEW b \in Bin, b < pos \/ b = pos, Single(alive, 2, b)
          PROVE  edge[k][2] = b
      BY <1>2, <2>2, <3>3
    <3> QED BY <1>1, <2>1, <3>1, <3>2, <3>3 DEF Seen, Late
  <2> QED BY <1>3, <2>3, <2>4, <2>5 DEF GraphInv
<1>5. CASE ~Single(alive, 2, pos)
  <2>1. hand' = {} /\ pos' = pos + 1
    BY <1>1, <1>5 DEF ScanSecond
  <2>2. GraphTypes' /\ HandInv'
    BY <1>1, <2>1 DEF GraphInv, GraphTypes, HandInv
  <2>3. \A b \in Bin : b < pos + 1 => ~Single(alive, 2, b)
    BY <1>1, <1>2, <1>5 DEF Bin
  <2>4. Seen'
    BY <1>1, <1>2, <2>1, <2>3 DEF Seen, Single, Late
  <2> QED BY <1>3, <2>2, <2>4 DEF GraphInv
<1> QED BY <1>4, <1>5

(* A turn of the chain peels the key in hand, alone in its second bucket,  *)
(* and then perhaps one that this has left alone in its first.             *)
LEMMA ChainGraph ==
    ASSUME GraphInv, Chain
    PROVE  GraphInv'
PROOF
<1>1. /\ edge' = edge /\ counter' = counter /\ mode' = mode
      /\ mode = "second" /\ pos \in Bin /\ pos + 1 \in 0..Bins /\ 1 \in Table /\ 2 \in Table
      /\ edge \in [Key -> [Table -> Bin]] /\ alive \subseteq Key /\ order \in Seq(Key)
      /\ counter \in 0..Len(order)
      /\ Ordered(edge, alive, order) /\ Kept(edge, alive)
  <2>1. hand # {} /\ edge' = edge /\ counter' = counter /\ mode' = mode
    BY DEF Chain, slots
  <2>2. mode = "second" /\ pos < Bins
    BY <2>1 DEF GraphInv, HandInv
  <2> QED BY <2>1, <2>2, BinsAssumption DEF GraphInv, GraphTypes, OrderInv, CoreKept, Bin, Table
<1>2. PICK k \in alive : hand = {k} /\ edge[k][2] <= pos /\ Lone(alive, k, 2)
  BY DEF Chain, GraphInv, HandInv
<1>3. \A b \in Bin : ~Single(alive, 1, b)
                 /\ (b <= pos => (Single(alive, 2, b) => edge[k][2] = b))
  BY <1>1, <1>2 DEF GraphInv, Seen, Bin
<1> DEFINE rest == alive \ {k}
           l == Alone(rest, 1, edge[k][1])
<1>4. /\ Ordered(edge, rest, Append(order, k)) /\ Kept(edge, rest)
      /\ Append(order, k) \in Seq(Key) /\ Len(Append(order, k)) = Len(order) + 1
      /\ Len(order) \in Nat
  <2>1. Ordered(edge, rest, Append(order, k))
    BY <1>1, <1>2, OrderedAppend DEF Lone
  <2>2. Kept(edge, rest)
    BY <1>1, <1>2, CoreWithout
  <2> QED BY <1>1, <1>2, <2>1, <2>2
<1>5. \A b \in Bin : b <= pos => ~Single(rest, 2, b)
  BY <1>2, <1>3, StillSingle
<1>6. \A b \in Bin : Single(rest, 1, b) => b = edge[k][1]
  BY <1>2, <1>3, NewSingle
<1>7. edge[k][1] \in Bin /\ \A b \in Bin : b < pos + 1 <=> b <= pos
  BY <1>1, <1>2 DEF Bin
<1>8. CASE ~Single(rest, 1, edge[k][1])
  <2>1. alive' = rest /\ order' = Append(order, k) /\ hand' = {} /\ pos' = pos + 1
    BY <1>2, <1>8 DEF Chain
  <2> HIDE DEF rest
  <2>2. GraphTypes'
    <3>1. counter \in 0..(Len(order) + 1) /\ rest \subseteq Key
      BY <1>1, <1>4 DEF rest
    <3> QED BY <1>1, <1>4, <2>1, <3>1 DEF GraphTypes
  <2>3. OrderInv' /\ CoreKept' /\ HandInv'
    BY <1>1, <1>4, <2>1 DEF OrderInv, CoreKept, HandInv
  <2>4. \A b \in Bin : ~Single(rest, 1, b) /\ (b < pos + 1 => ~Single(rest, 2, b))
    BY <1>5, <1>6, <1>7, <1>8
  <2>5. Seen'
    BY <1>1, <2>1, <2>4 DEF Seen, Single, Late
  <2> QED BY <2>2, <2>3, <2>5 DEF GraphInv
<1>9. CASE Single(rest, 1, edge[k][1])
  <2> DEFINE left == rest \ {l}
  <2>1. alive' = left /\ order' = order \o <<k, l>> /\ Follow(left, edge[l][2])
    BY <1>2, <1>9 DEF Chain
  <2>2. l \in rest /\ edge[l][1] = edge[k][1] /\ Lone(rest, l, 1)
    BY <1>1, <1>9, AloneKey
  <2> HIDE DEF l
  <2>3. order' = Append(Append(order, k), l) /\ l \in Key
    BY <1>1, <1>2, <2>1, <2>2
  <2>4. /\ Ordered(edge, left, order') /\ Kept(edge, left)
        /\ order' \in Seq(Key) /\ Len(order') = Len(order) + 2
    <3>1. Ordered(edge, left, order')
      BY <1>1, <1>4, <2>2, <2>3, OrderedAppend DEF Lone
    <3>2. Kept(edge, left)
      BY <1>1, <1>4, <2>2, CoreWithout
    <3>3. order' \in Seq(Key) /\ Len(order') = Len(order) + 2
      BY <1>4, <2>3
    <3> QED BY <3>1, <3>2, <3>3
  <2>5. \A b \in Bin : ~Single(left, 1, b)
    BY <1>6, <2>2, StillSingle
  <2>6. \A b \in Bin : b <= pos /\ Single(left, 2, b) => b = edge[l][2]
    BY <1>5, <2>2, NewSingle
  <2>7. left \subseteq alive /\ edge[l][2] \in Bin
    BY <1>1, <2>3
  <2> HIDE DEF left, rest
  <2>8. GraphTypes' /\ OrderInv' /\ CoreKept'
    <3>1. counter \in 0..(Len(order) + 2)
      BY <1>1, <1>4
    <3>2. pos' \in 0..Bins
      <4>1. pos' = pos \/ pos' = pos + 1
        BY <2>1 DEF Follow
      <4>2. pos \in 0..Bins /\ pos + 1 \in 0..Bins
        BY <1>1, BinsAssumption DEF Bin
      <4> QED BY <4>1, <4>2
    <3> QED BY <1>1, <2>1, <2>4, <2>7, <3>1, <3>2 DEF GraphTypes, OrderInv, CoreKept
  <2>9. CASE Single(left, 2, edge[l][2]) /\ edge[l][2] <= pos
    <3> DEFINE m == Alone(left, 2, edge[l][2])
    <3>1. hand' = {m} /\ pos' = pos
      BY <2>1, <2>9 DEF Follow
    <3>2. m \in left /\ edge[m][2] = edge[l][2] /\ Lone(left, m, 2)
      BY <1>1, <2>9, AloneKey
    <3> HIDE DEF m
    <3>3. HandInv'
      <4>1. edge[m][2] <= pos /\ pos < Bins
        BY <1>1, <2>9, <3>2, BinsAssumption DEF Bin
      <4>2. HandInv' <=> \E n \in left : {m} = {n} /\ edge[n][2] <= pos /\ Lone(left, n, 2)
        BY <1>1, <2>1, <3>1, <4>1 DEF HandInv, Lone
      <4> QED BY <3>2, <4>1, <4>2
    <3>4. \A b \in Bin : b < pos \/ b = pos => b <= pos
      BY <1>1 DEF Bin
    <3>5. \A b \in Bin : ~Single(left, 1, b) /\
             (b < pos \/ b = pos => (Single(left, 2, b) => edge[m][2] = b))
      BY <2>5, <2>6, <3>2, <3>4
    <3>6. Seen'
      BY <1>1, <2>1, <3>1, <3>5 DEF Seen, Single, Late
    <3> QED BY <2>8, <3>3, <3>6 DEF GraphInv
  <2>10. CASE ~(Single(left, 2, edge[l][2]) /\ edge[l][2] <= pos)
    <3>1. hand' = {} /\ pos' = pos + 1
      BY <2>1, <2>10 DEF Follow
    <3>2. \A b \in Bin : ~Single(left, 1, b) /\ (b < pos + 1 => ~Single(left, 2, b))
      BY <1>7, <2>5, <2>6, <2>10
    <3>3. Seen'
      BY <1>1, <2>1, <3>1, <3>2 DEF Seen, Single, Late
    <3> QED BY <2>8, <3>1, <3>3 DEF GraphInv, HandInv
  <2> QED BY <2>9, <2>10
<1> QED BY <1>8, <1>9

LEMMA PeeledGraph ==
    ASSUME GraphInv, Peeled
    PROVE  GraphInv'
PROOF
<1>1. /\ edge' = edge /\ alive' = alive /\ order' = order /\ pos' = pos /\ hand' = hand
      /\ mode = "second" /\ hand = {} /\ pos = Bins /\ mode' \in {"external", "peeled"}
      /\ counter' = Len(order)
  BY DEF Peeled
<1>2. \A h \in Table, b \in Bin : ~Single(alive, h, b)
  BY <1>1, BinsAssumption DEF GraphInv, Seen, Table, Bin
<1>3. GraphTypes'
  BY <1>1 DEF GraphInv, GraphTypes, Late
<1>4. OrderInv' /\ CoreKept' /\ HandInv'
  BY <1>1 DEF GraphInv, OrderInv, CoreKept, HandInv
<1>5. Seen'
  BY <1>1, <1>2 DEF Seen, Single
<1> QED BY <1>3, <1>4, <1>5 DEF GraphInv

LEMMA InitGraph == Init => GraphInv
PROOF
<1> SUFFICES ASSUME Init PROVE GraphInv
  OBVIOUS
<1>1. GraphTypes
  BY BinsAssumption DEF Init, GraphTypes
<1> QED BY <1>1 DEF Init, GraphInv, OrderInv, CoreKept, HandInv, Seen, Late

LEMMA NextGraph == GraphInv /\ [Next]_vars => GraphInv'
PROOF
<1> SUFFICES ASSUME GraphInv, [Next]_vars PROVE GraphInv'
  OBVIOUS
<1>1. CASE UNCHANGED vars
  <2>1. UNCHANGED <<edge, alive, order, pos, hand, counter, mode>>
    BY <1>1 DEF vars, graph, slots
  <2>2. GraphTypes' /\ OrderInv' /\ CoreKept'
    BY <2>1 DEF GraphInv, GraphTypes, OrderInv, CoreKept
  <2>3. HandInv'
    BY <2>1 DEF GraphInv, HandInv, Lone
  <2>4. Seen'
    BY <2>1 DEF GraphInv, Seen, Single
  <2> QED BY <2>2, <2>3, <2>4 DEF GraphInv
<1>2. ASSUME FirstHalf \/ \E v \in Input : Encode(v) PROVE GraphInv'
  BY <1>2, RefillGraph DEF FirstHalf, Encode
<1>3. ASSUME NEW v \in Input, SecondHalf(v) PROVE GraphInv'
  <2>1. /\ UNCHANGED <<edge, alive, order, pos, hand>> /\ counter' \in 0..Len(order)
        /\ mode \in Late /\ mode' \in Late
    BY <1>3 DEF SecondHalf, slots, GraphInv, GraphTypes, Late
  <2> QED BY <2>1, Steady
<1>4. CASE External \/ Unpeel \/ Finish \/ \E t \in Foreign : DecodeByTable(t)
  <2>1. UNCHANGED <<edge, alive, order, pos, hand>> /\ mode \in Late /\ mode' \in Late
    BY <1>4 DEF External, Unpeel, Finish, DecodeByTable, graph, Late
  <2>2. Len(order) \in Nat /\ counter \in 0..Len(order)
    BY DEF GraphInv, GraphTypes
  <2>3. counter' = counter \/ (counter > 0 /\ counter' = counter - 1)
    BY <1>4 DEF External, Unpeel, Finish, DecodeByTable
  <2>4. counter' \in 0..Len(order)
    BY <2>2, <2>3
  <2> QED BY <2>1, <2>4, Steady
<1> QED BY <1>1, <1>2, <1>3, <1>4, ScanFirstGraph, NextScanGraph, ScanSecondGraph,
           ChainGraph, PeeledGraph DEF Next, Exhausted
-----------------------------------------------------------------------------
(* The slots in the first encoding.                                        *)
Buckets(K) == {At(k, h) : k \in K, h \in Table}
Unset(s) == variables[s] = Zero /\ s \notin sign

SlotTypes ==
    /\ vals \in [Key -> Value]
    /\ variables \in [Slot -> Value]
    /\ runs \in Nat

(* Both slots of k are set, and they sum to its value.                     *)
Holds(k) ==
    /\ ~Unset(At(k, 1)) /\ ~Unset(At(k, 2))
    /\ Decode(k, variables) = vals[k]

(* Before the first unpeeling: nothing is set.                             *)
Fresh ==
    /\ \A s \in Slot : variables[s] = Zero
    /\ sign = {}
    /\ mode \in {"new", "first", "second", "peeled", "external"}
    /\ mode \in {"peeled", "external"} => counter = Len(order)
    /\ runs = 0 => mode # "external" /\ (mode \in {"first", "second"} => ~encoding)
    /\ runs = 1 => mode = "external" \/ (mode \in {"first", "second"} /\ encoding)

(* The first unpeeling: the keys behind it hold, and the slots that only   *)
(* the keys ahead of it use are unset.                                     *)
First ==
    /\ mode = "unpeeling"
    /\ runs = 1
    /\ \A k \in Rest(order, counter) \ alive : Holds(k)
    /\ \A s \in Slot : s \notin Buckets(Rest(order, counter)) => Unset(s)

(* After it, until the second request: while the peeling is the one the    *)
(* table was made with, its keys decode to their values.                   *)
Finished ==
    /\ runs = 1
    /\ mode \in {"ready", "first", "second", "peeled"}
    /\ mode \in {"first", "second"} => ~encoding
    /\ mode = "ready" => \A k \in Key \ alive : Decode(k, table) = vals[k]

ValueInv == ~zeroed /\ runs <= 1 => Fresh \/ First \/ Finished

SlotInv == GraphInv /\ SlotTypes /\ ValueInv

LEMMA RestFacts ==
    ASSUME GraphInv, mode # "new"
    PROVE  /\ Rest(order, Len(order)) = alive
           /\ Rest(order, 0) = Key
           /\ \A n \in 1..Len(order) :
                /\ order[n] \in Key
                /\ Rest(order, n-1) = Rest(order, n) \cup {order[n]}
                /\ order[n] \notin alive
                /\ \E h \in Table : \A k \in Rest(order, n) : edge[k][h] # edge[order[n]][h]
PROOF
<1>1. order \in Seq(Key) /\ Ordered(edge, alive, order)
  BY DEF GraphInv, GraphTypes, OrderInv
<1>2. Rest(order, Len(order)) = alive /\ Rest(order, 0) = Key
  BY <1>1 DEF Ordered, Rest
<1>3. ASSUME NEW n \in 1..Len(order)
      PROVE  /\ order[n] \in Key
             /\ Rest(order, n-1) = Rest(order, n) \cup {order[n]}
             /\ order[n] \notin alive
             /\ \E h \in Table : \A k \in Rest(order, n) : edge[k][h] # edge[order[n]][h]
  <2>1. 1..n = (1..(n-1)) \cup {n}
    BY <1>1
  <2>2. order[n] \in Key
    BY <1>1
  <2>3. order[n] \in Rest(order, n-1)
        /\ \E h \in Table : \A k \in Rest(order, n) : edge[k][h] # edge[order[n]][h]
    BY <1>1 DEF Ordered
  <2>4. Rest(order, n-1) = Rest(order, n) \cup {order[n]}
    BY <2>1, <2>3 DEF Rest
  <2>5. order[n] \notin alive
    BY <1>2 DEF Rest
  <2> QED BY <2>2, <2>3, <2>4, <2>5
<1> QED BY <1>2, <1>3

LEMMA AddFacts ==
    /\ \A a, b \in Value : Add(a, b) \in Value
    /\ \A a, b \in Value : Add(Add(a, b), b) = a
    /\ \A a, b \in Value : Add(b, Add(a, b)) = a
BY DEF Add, Value

LEMMA SlotsOf ==
    ASSUME GraphInv, NEW k \in Key
    PROVE  At(k, 1) \in Slot /\ At(k, 2) \in Slot /\ At(k, 1) # At(k, 2)
BY DEF GraphInv, GraphTypes, At, Slot, Table

(* An assignment sets an unset slot and leaves a set one alone.            *)
Assigned(g, f, s, v) ==
    /\ g \in [Slot -> Value]
    /\ \A t \in Slot : t # s \/ f[t] # Zero \/ t \in sign => g[t] = f[t]
    /\ f[s] = Zero /\ s \notin sign => g[s] = v

LEMMA AssignFacts ==
    ASSUME NEW f \in [Slot -> Value], NEW s \in Slot, NEW v \in Value
    PROVE  Assigned(Assign(f, s, v), f, s, v)
BY DEF Assign, Assigned

(* Unpeeling k sets unset slots of k only, and if there was one then its   *)
(* equation holds.                                                         *)
LEMMA SolvedSlots ==
    ASSUME GraphInv, SlotTypes, NEW k \in Key, NEW r \in Filler, NEW g, g = Solved(k, r)
    PROVE  /\ g \in [Slot -> Value]
           /\ \A s \in Slot : ~Unset(s) \/ (s # At(k, 1) /\ s # At(k, 2)) => g[s] = variables[s]
           /\ Unset(At(k, 1)) \/ Unset(At(k, 2)) => Decode(k, g) = vals[k]
PROOF
<1> DEFINE one == At(k, 1)
           two == At(k, 2)
           filled == IF variables[two] = Zero /\ two \notin sign
                       THEN Assign(variables, one, r) ELSE variables
           solved == Assign(filled, one, Add(vals[k], filled[two]))
<1>1. /\ one \in Slot /\ two \in Slot /\ one # two
      /\ variables \in [Slot -> Value] /\ vals[k] \in Value /\ r \in Value /\ r # Zero
  BY SlotsOf, FillerAssumption DEF SlotTypes
<1>2. g = Assign(solved, two, Add(vals[k], solved[one]))
  BY DEF Solved
<1>3. Decode(k, g) = Add(g[one], g[two])
  BY DEF Decode
<1> HIDE DEF one, two
<1>4. /\ filled \in [Slot -> Value]
      /\ \A s \in Slot : ~Unset(s) \/ s # one => filled[s] = variables[s]
      /\ Unset(one) /\ Unset(two) => filled[one] = r
      /\ ~Unset(two) => filled = variables
  <2>1. CASE Unset(two)
    <3>1. filled = Assign(variables, one, r)
      BY <2>1 DEF Unset
    <3> HIDE DEF filled
    <3>2. Assigned(filled, variables, one, r)
      BY <1>1, <3>1, AssignFacts
    <3> QED BY <2>1, <3>2 DEF Unset, Assigned
  <2>2. CASE ~Unset(two)
    BY <1>1, <2>2 DEF Unset
  <2> QED BY <2>1, <2>2
<1> HIDE DEF filled
<1>5. Add(vals[k], filled[two]) \in Value
  BY <1>1, <1>4, AddFacts
<1>6. /\ solved \in [Slot -> Value]
      /\ \A s \in Slot : s # one \/ filled[s] # Zero \/ s \in sign => solved[s] = filled[s]
      /\ filled[one] = Zero /\ one \notin sign => solved[one] = Add(vals[k], filled[two])
  <2> DEFINE v == Add(vals[k], filled[two])
  <2>1. v \in Value /\ solved = Assign(filled, one, v)
    BY <1>5
  <2> HIDE DEF v, solved
  <2>2. Assigned(solved, filled, one, v)
    BY <1>1, <1>4, <2>1, AssignFacts
  <2> QED BY <2>2 DEF v, Assigned
<1> HIDE DEF solved
<1>7. Add(vals[k], solved[one]) \in Value
  BY <1>1, <1>6, AddFacts
<1>8. /\ g \in [Slot -> Value]
      /\ \A s \in Slot : s # two \/ solved[s] # Zero \/ s \in sign => g[s] = solved[s]
      /\ solved[two] = Zero /\ two \notin sign => g[two] = Add(vals[k], solved[one])
  <2> DEFINE v == Add(vals[k], solved[one])
  <2>1. v \in Value /\ g = Assign(solved, two, v)
    BY <1>2, <1>7
  <2> HIDE DEF v
  <2>2. Assigned(g, solved, two, v)
    BY <1>1, <1>6, <2>1, AssignFacts
  <2> QED BY <2>2 DEF v, Assigned
<1>9. ASSUME NEW s \in Slot, ~Unset(s) \/ (s # one /\ s # two)
      PROVE  g[s] = variables[s]
  <2>1. filled[s] = variables[s] /\ solved[s] = variables[s]
    BY <1>1, <1>4, <1>6, <1>9 DEF Unset
  <2> QED BY <1>8, <1>9, <2>1 DEF Unset
<1>10. ASSUME Unset(two) PROVE Decode(k, g) = vals[k]
  <2>1. solved[two] = Zero /\ two \notin sign
    BY <1>1, <1>4, <1>6, <1>10 DEF Unset
  <2>2. g[one] = solved[one] /\ g[two] = Add(vals[k], solved[one])
    BY <1>1, <1>8, <2>1
  <2>3. solved[one] \in Value
    BY <1>1, <1>6
  <2>4. Add(solved[one], Add(vals[k], solved[one])) = vals[k]
    BY <1>1, <2>3, AddFacts
  <2> QED BY <1>3, <2>2, <2>4
<1>11. ASSUME Unset(one), ~Unset(two) PROVE Decode(k, g) = vals[k]
  <2>1. solved[one] = Add(vals[k], variables[two]) /\ g[one] = solved[one]
    BY <1>1, <1>4, <1>6, <1>8, <1>11 DEF Unset
  <2>2. g[two] = variables[two]
    BY <1>1, <1>9, <1>11
  <2>3. variables[two] \in Value
    BY <1>1
  <2>4. Add(Add(vals[k], variables[two]), variables[two]) = vals[k]
    BY <1>1, <2>3, AddFacts
  <2> QED BY <1>3, <2>1, <2>2, <2>4
<1> QED BY <1>8, <1>9, <1>10, <1>11 DEF one, two
-----------------------------------------------------------------------------
LEMMA InitSlots == Init => SlotInv
PROOF
<1> SUFFICES ASSUME Init PROVE SlotInv
  OBVIOUS
<1>1. SlotTypes
  <2>1. Zero \in Value
    BY DEF Zero, Value
  <2> QED BY <2>1, InputAssumption DEF Init, SlotTypes
<1>2. Fresh
  BY DEF Init, Fresh
<1> QED BY <1>1, <1>2, InitGraph DEF SlotInv, ValueInv

(* What holds of a key depends on the edges, the slots and the values.     *)
LEMMA SlotsKept ==
    ASSUME UNCHANGED <<edge, variables, sign, vals>>
    PROVE  /\ \A k : Holds(k)' = Holds(k)
           /\ \A s : Unset(s)' = Unset(s)
           /\ \A K : Buckets(K)' = Buckets(K)
BY DEF Buckets, Holds, Unset, Decode, At

(* The scans of a new peeling leave the slots alone.                       *)
LEMMA ScansSlots ==
    ASSUME SlotInv, FirstHalf \/ ScanFirst \/ NextScan \/ ScanSecond \/ Chain \/ Peeled
    PROVE  SlotTypes' /\ ValueInv'
PROOF
<1>1. /\ UNCHANGED <<edge, variables, sign, vals, runs, zeroed>>
      /\ mode' # "ready" /\ mode # "unpeeling"
  <2>1. CASE FirstHalf
    BY <2>1 DEF FirstHalf, Refill, request
  <2>2. CASE ScanFirst \/ NextScan \/ ScanSecond
    BY <2>2 DEF ScanFirst, NextScan, ScanSecond, slots, request
  <2>3. CASE Chain
    <3>1. mode = "second" /\ UNCHANGED <<edge, mode, slots, request, zeroed>>
      BY <2>3 DEF Chain, SlotInv, GraphInv, HandInv
    <3> QED BY <3>1 DEF slots, request
  <2>4. CASE Peeled
    BY <2>4 DEF Peeled, request
  <2> QED BY <2>1, <2>2, <2>3, <2>4
<1>2. SlotTypes'
  BY <1>1 DEF SlotInv, SlotTypes
<1> SUFFICES ASSUME ~zeroed', runs' <= 1 PROVE Fresh' \/ Finished'
  BY <1>2 DEF ValueInv
<1>3. Fresh \/ Finished
  BY <1>1 DEF SlotInv, ValueInv, First
<1>4. /\ mode' \in {"first", "second", "peeled", "external"}
      /\ mode \in {"new", "peeled", "ready"} => mode' = "first" /\ ~encoding'
      /\ mode \in {"first", "second"} =>
           IF mode' \in {"first", "second"} THEN encoding' = encoding
           ELSE counter' = Len(order') /\ mode' = IF encoding THEN "external" ELSE "peeled"
      /\ mode # "external"
  <2>1. CASE FirstHalf
    BY <2>1 DEF FirstHalf, Refill
  <2>2. CASE ScanFirst \/ NextScan \/ ScanSecond
    BY <2>2 DEF ScanFirst, NextScan, ScanSecond
  <2>3. CASE Chain
    <3>1. mode = "second" /\ mode' = mode /\ encoding' = encoding
      BY <2>3 DEF Chain, SlotInv, GraphInv, HandInv
    <3> QED BY <3>1
  <2>4. CASE Peeled
    BY <2>4 DEF Peeled
  <2> QED BY <2>1, <2>2, <2>3, <2>4
<1>5. CASE Fresh
  BY <1>1, <1>4, <1>5 DEF Fresh, Slot
<1>6. CASE Finished
  BY <1>1, <1>4, <1>6 DEF Finished
<1> QED BY <1>3, <1>5, <1>6

(* A request finds nothing set if it is the first.                         *)
LEMMA AskSlots ==
    ASSUME SlotInv, NEW v \in Input, Encode(v) \/ SecondHalf(v)
    PROVE  SlotTypes' /\ ValueInv'
PROOF
<1>1. /\ UNCHANGED <<edge, variables, sign, zeroed>>
      /\ mode # "unpeeling"
      /\ runs' = runs + 1 /\ vals' = v
      /\ v \in [Key -> Value]
  BY InputAssumption DEF Encode, Refill, SecondHalf, Ask, slots
<1>2. SlotTypes' /\ runs \in Nat
  BY <1>1 DEF SlotInv, SlotTypes
<1> SUFFICES ASSUME ~zeroed', runs' <= 1 PROVE Fresh'
  BY <1>2 DEF ValueInv
<1>3. runs = 0 /\ Fresh
  BY <1>1, <1>2 DEF SlotInv, ValueInv, First, Finished
<1>4. \/ mode' = "first" /\ encoding'
      \/ mode' = "external" /\ counter' = Len(order')
  BY <1>3 DEF Fresh, Encode, Refill, SecondHalf, slots
<1> QED BY <1>1, <1>3, <1>4 DEF Fresh, Slot

(* The slots of the 2-core are marked; all others are still unset.         *)
LEMMA ExternalSlots ==
    ASSUME SlotInv, External
    PROVE  SlotTypes' /\ ValueInv'
PROOF
<1>1. /\ UNCHANGED <<edge, alive, order, counter, vals, runs, zeroed>>
      /\ mode = "external" /\ mode' = "unpeeling"
      /\ sign' = sign \cup CoreSlot
      /\ variables' = [s \in Slot |-> IF s \in CoreSlot THEN Zero ELSE variables[s]]
  BY DEF External, request
<1>2. SlotTypes'
  <2>1. Zero \in Value
    BY DEF Zero, Value
  <2> QED BY <1>1, <2>1 DEF SlotInv, SlotTypes, Slot
<1> SUFFICES ASSUME ~zeroed', runs' <= 1 PROVE First'
  BY <1>2 DEF ValueInv
<1>3. Fresh /\ counter = Len(order) /\ runs = 1
  BY <1>1 DEF SlotInv, SlotTypes, ValueInv, Fresh, First, Finished
<1>4. Rest(order, counter)' = alive
  BY <1>1, <1>3, RestFacts DEF SlotInv
<1>5. Buckets(Rest(order, counter)') = CoreSlot
  BY <1>4 DEF Buckets, CoreSlot
<1>6. \A s \in Slot : s \notin CoreSlot => variables'[s] = Zero /\ s \notin sign'
  BY <1>1, <1>3 DEF Fresh
<1>7. Buckets(Rest(order, counter))' = CoreSlot
  BY <1>1, <1>5 DEF Buckets, At
<1> QED BY <1>1, <1>3, <1>4, <1>6, <1>7 DEF First, Unset, Slot

(* Unpeeling for the first time solves the request.                        *)
LEMMA UnpeelSlots ==
    ASSUME SlotInv, Unpeel
    PROVE  SlotTypes' /\ ValueInv'
PROOF
<1>0. PICK k : k = order[counter]
  OBVIOUS
<1>1. /\ UNCHANGED <<edge, alive, order, mode, sign, table, vals, runs>>
      /\ mode = "unpeeling" /\ counter > 0 /\ counter' = counter - 1
  BY DEF Unpeel, graph, request
<1>2. PICK r \in Filler :
        /\ variables' = Solved(k, r)
        /\ zeroed' = (zeroed \/ \E h \in Table :
                        variables'[At(k, h)] = Zero /\ At(k, h) \notin sign)
  BY <1>0 DEF Unpeel
<1>3. GraphInv /\ SlotTypes /\ counter \in 1..Len(order)
  <2>1. GraphInv /\ SlotTypes /\ counter \in 0..Len(order) /\ Len(order) \in Nat
    BY DEF SlotInv, GraphInv, GraphTypes
  <2> QED BY <1>1, <2>1
<1>4. /\ k \in Key \ alive
      /\ Rest(order, counter - 1) = Rest(order, counter) \cup {k}
      /\ \E h \in Table : \A l \in Rest(order, counter) : edge[l][h] # edge[k][h]
  BY <1>0, <1>1, <1>3, RestFacts
<1>5. /\ variables' \in [Slot -> Value]
      /\ \A s \in Slot : ~Unset(s) \/ (s # At(k, 1) /\ s # At(k, 2)) => variables'[s] = variables[s]
      /\ Unset(At(k, 1)) \/ Unset(At(k, 2)) => Decode(k, variables') = vals[k]
  <2> DEFINE g == variables'
  <2>1. g = Solved(k, r)
    BY <1>2
  <2> HIDE DEF g
  <2>2. /\ g \in [Slot -> Value]
        /\ \A s \in Slot : ~Unset(s) \/ (s # At(k, 1) /\ s # At(k, 2)) => g[s] = variables[s]
        /\ Unset(At(k, 1)) \/ Unset(At(k, 2)) => Decode(k, g) = vals[k]
    BY <1>3, <1>4, <2>1, SolvedSlots
  <2> QED BY <2>2 DEF g
<1>6. SlotTypes'
  BY <1>1, <1>3, <1>5 DEF SlotTypes, Slot
<1> SUFFICES ASSUME ~zeroed', runs' <= 1 PROVE First'
  BY <1>6 DEF ValueInv
<1>7. ~zeroed /\ \A h \in Table : ~(variables'[At(k, h)] = Zero /\ At(k, h) \notin sign)
  BY <1>2
<1>8. First
  BY <1>1, <1>7 DEF SlotInv, ValueInv, Fresh, Finished
<1>9. At(k, 1) \in Slot /\ At(k, 2) \in Slot /\ {At(k, h) : h \in Table} = {At(k, 1), At(k, 2)}
  BY <1>3, <1>4, SlotsOf DEF Table
<1>10. ASSUME NEW l \in Key, Holds(l) PROVE Holds(l)'
  <2>1. At(l, 1) \in Slot /\ At(l, 2) \in Slot
    BY <1>3, SlotsOf
  <2>2. variables'[At(l, 1)] = variables[At(l, 1)] /\ variables'[At(l, 2)] = variables[At(l, 2)]
    BY <1>5, <1>10, <2>1 DEF Holds
  <2>3. At(l, 1)' = At(l, 1) /\ At(l, 2)' = At(l, 2)
    BY <1>1 DEF At
  <2> QED BY <1>1, <1>10, <2>2, <2>3 DEF Holds, Unset, Decode
<1>11. Unset(At(k, 1)) \/ Unset(At(k, 2))
  <2>1. PICK h \in Table : \A l \in Rest(order, counter) : edge[l][h] # edge[k][h]
    BY <1>4
  <2>2. At(k, h) \notin Buckets(Rest(order, counter))
    BY <2>1 DEF Buckets, At
  <2>3. At(k, h) \in {At(k, 1), At(k, 2)} /\ At(k, h) \in Slot
    BY <1>9
  <2> QED BY <1>8, <2>2, <2>3 DEF First
<1>12. Holds(k)'
  <2>1. Decode(k, variables') = vals[k]
    BY <1>5, <1>11
  <2>2. Decode(k, variables)' = Decode(k, variables')
    BY <1>1 DEF Decode, At
  <2>3. ~Unset(At(k, 1))' /\ ~Unset(At(k, 2))'
    BY <1>1, <1>7 DEF Unset, At, Table
  <2> QED BY <1>1, <2>1, <2>2, <2>3 DEF Holds
<1>13. Rest(order, counter)' = Rest(order, counter) \cup {k}
  BY <1>1, <1>4
<1>14. \A l \in Rest(order, counter)' \ alive : Holds(l)'
  BY <1>8, <1>10, <1>12, <1>13 DEF First, Rest
<1>15. \A s \in Slot : s \notin Buckets(Rest(order, counter))' => Unset(s)'
  <2> SUFFICES ASSUME NEW s \in Slot, s \notin Buckets(Rest(order, counter) \cup {k})
               PROVE  variables'[s] = Zero /\ s \notin sign'
    BY <1>1, <1>13 DEF Unset, Buckets, At
  <2>1. s \notin Buckets(Rest(order, counter)) /\ s # At(k, 1) /\ s # At(k, 2)
    BY DEF Buckets, Table
  <2>2. Unset(s) /\ variables'[s] = variables[s]
    BY <1>5, <1>8, <2>1 DEF First
  <2> QED BY <1>1, <2>2 DEF Unset
<1> QED BY <1>1, <1>8, <1>14, <1>15 DEF First, Slot

LEMMA FinishSlots ==
    ASSUME SlotInv, Finish
    PROVE  SlotTypes' /\ ValueInv'
PROOF
<1>1. /\ UNCHANGED <<edge, alive, order, variables, sign, vals, runs, zeroed>>
      /\ mode = "unpeeling" /\ mode' = "ready" /\ counter = 0 /\ table' = variables
  BY DEF Finish, request
<1>2. SlotTypes' /\ Rest(order, 0) = Key
  BY <1>1, RestFacts DEF SlotInv, SlotTypes, Slot
<1> SUFFICES ASSUME ~zeroed', runs' <= 1 PROVE Finished'
  BY <1>2 DEF ValueInv
<1>3. First /\ \A k \in Key \ alive : Holds(k)
  BY <1>1, <1>2 DEF SlotInv, ValueInv, Fresh, First, Finished
<1>4. \A k \in Key \ alive : Decode(k, table)' = vals[k]
  BY <1>1, <1>3 DEF Holds, Decode, At
<1> QED BY <1>1, <1>3, <1>4 DEF First, Finished

LEMMA ForeignSlots ==
    ASSUME SlotInv, NEW t \in Foreign, DecodeByTable(t)
    PROVE  SlotTypes' /\ ValueInv'
PROOF
<1>1. /\ UNCHANGED <<edge, alive, order, mode, encoding, sign, counter, table, vals, runs, zeroed>>
      /\ mode = "ready" /\ variables' = t /\ t \in [Slot -> Value]
  BY ForeignAssumption DEF DecodeByTable, graph, request
<1>2. SlotTypes'
  BY <1>1 DEF SlotInv, SlotTypes, Slot
<1>3. ~zeroed' /\ runs' <= 1 => Finished'
  BY <1>1 DEF SlotInv, ValueInv, Fresh, First, Finished, Decode, At
<1> QED BY <1>2, <1>3 DEF ValueInv

LEMMA StutterSlots ==
    ASSUME SlotInv, UNCHANGED vars
    PROVE  SlotTypes' /\ ValueInv'
PROOF
<1>1. UNCHANGED <<edge, alive, order, mode, encoding, variables, sign, counter, table,
                  vals, runs, zeroed>>
  BY DEF vars, graph, slots, request
<1>2. SlotTypes'
  BY <1>1 DEF SlotInv, SlotTypes, Slot
<1>3. /\ Rest(order, counter)' = Rest(order, counter)
      /\ Buckets(Rest(order, counter))' = Buckets(Rest(order, counter))
  BY <1>1 DEF Rest, Buckets, At
<1>4. Fresh' = Fresh
  BY <1>1 DEF Fresh, Slot
<1>5. First' = First
  BY <1>1, <1>3, SlotsKept DEF First, Slot
<1>6. Finished' = Finished
  BY <1>1 DEF Finished, Decode, At
<1> QED BY <1>1, <1>2, <1>4, <1>5, <1>6 DEF SlotInv, ValueInv

LEMMA NextSlots == SlotInv /\ [Next]_vars => SlotInv'
PROOF
<1> SUFFICES ASSUME SlotInv, [Next]_vars PROVE SlotInv'
  OBVIOUS
<1>1. GraphInv'
  BY NextGraph DEF SlotInv
<1>2. SlotTypes' /\ ValueInv'
  BY ScansSlots, AskSlots, ExternalSlots, UnpeelSlots, FinishSlots, ForeignSlots, StutterSlots
     DEF Next, Exhausted
<1> QED BY <1>1, <1>2 DEF SlotInv
-----------------------------------------------------------------------------
(* The scans and chains of every encoding keep the invariant.              *)
LEMMA GraphInductive == Spec => []GraphInv
BY InitGraph, NextGraph, PTL DEF Spec

(* On every graph, a key is peeled only when it has a bucket to itself     *)
(* among the keys not peeled yet, both in the scan of the first table and  *)
(* in the chains, whose turns peel two keys (238-277).                     *)
THEOREM ChainsOrdered == Spec => []PeelOrder
<1>1. GraphInv => PeelOrder
  BY DEF GraphInv, OrderInv, Ordered, Rest, PeelOrder, After
<1> QED BY <1>1, GraphInductive, PTL

(* On every graph, one scan over each table with the chains leaves exactly *)
(* the 2-core.                                                             *)
THEOREM ChainsLeaveTwoCore == Spec => []TwoCore
<1>1. GraphInv => TwoCore
  <2> SUFFICES ASSUME GraphInv, mode # "new" PROVE TwoCore
    BY DEF TwoCore
  <2>1. \A S \in SUBSET Key : Crowded(S) => S \subseteq alive
    BY DEF GraphInv, CoreKept, Kept, Dense, Crowded
  <2>2. ~Peeling => Crowded(alive)
    BY NoSingleCrowded DEF GraphInv, GraphTypes, Seen, Peeling, Late
  <2> QED BY <2>1, <2>2 DEF TwoCore
<1> QED BY <1>1, GraphInductive, PTL

(* On every graph and for every field: the table of the first encoding     *)
(* decodes every peeled key to its value, if no slot came out as zero,     *)
(* whether encode or init and encodeOnlyUnpeeling were called (paxos.cpp   *)
(* 301-528, okvs.h 56-160).                                                *)
THEOREM FirstTableDecodes == Spec => []FirstTable
<1>1. SlotInv => FirstTable
  BY DEF SlotInv, ValueInv, Fresh, First, Finished, FirstTable
<1> QED BY <1>1, InitSlots, NextSlots, PTL DEF Spec
=============================================================================
