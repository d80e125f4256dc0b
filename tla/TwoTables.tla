----------------------------- MODULE TwoTables -----------------------------
(***************************************************************************)
(* Paxos of okvs/okvs.h over OBD2Tables of okvs/paxos.cpp, the OKVS with   *)
(* two hash tables.  A key is an edge between a bucket of each.  It has    *)
(* the interface of ThreeH_gct (module Okvs) but not its behaviour:        *)
(* peeling follows chains of keys instead of queues, the call of a solver  *)
(* for the 2-core is commented out, slots are never cleared after the      *)
(* constructor, peelingCounter stays at zero after unpeeling, and          *)
(* decodeByTable overwrites the variables with the table it is given.      *)
(*                                                                         *)
(* The extra (DH) variables are left out: they are copied from a vector    *)
(* nobody writes to and so are zero in every equation (409, 449-451).      *)
(***************************************************************************)
EXTENDS Integers, Sequences, FiniteSets

CONSTANTS
    Key,        \* the keys to encode, all different
    Bins,       \* tableRealSize, the number of buckets of each table
    Bit,        \* the bits of a field element
    Filler,     \* what a slot no equation determines may be filled with
    Input,      \* the value vectors a caller may encode
    Foreign,    \* the tables of other parties a caller may decode by
    MaxRuns     \* bound on the number of encodings

Table == 1..2
Bin == 0..(Bins-1)
Slot == Table \X Bin
Value == SUBSET Bit
Zero == {}

ASSUME BinsAssumption == Bins \in Nat \ {0}
ASSUME FillerAssumption == Filler \subseteq Value \ {Zero} /\ Filler # {}
ASSUME InputAssumption == Input \subseteq [Key -> Value] /\ Input # {}
ASSUME ForeignAssumption == Foreign \subseteq [Slot -> Value]

VARIABLES
    edge,       \* edge[k][h]: the bucket of key k in table h
    alive,      \* the keys in the tables
    order,      \* the peeling vector
    counter,    \* peelingCounter during unpeeling
    mode,       \* "new", "first", "second" (the two scans), "peeled",
                \* "external", "unpeeling" or "ready"
    encoding,   \* the peeling was started by encode, not by init
    pos,        \* the position of the scan
    hand,       \* the key the chain of the second scan has in hand, if any
    vals,       \* vals[k]: the value to encode at k
    variables,  \* variables[s]: the value of slot s
    sign,       \* the slots of the 2-core
    table,      \* Paxos::table
    runs,       \* how many encodings were started
    zeroed      \* history: unpeeling gave some slot the value zero

graph == <<edge, alive, order, mode, encoding, pos, hand>>
slots == <<variables, sign, counter, table>>
request == <<vals, runs>>
vars == <<graph, slots, request, zeroed>>

Single(K, h, b) == \E k \in K : \A l \in K : edge[l][h] = b <=> l = k
Alone(K, h, b) == CHOOSE k \in K : edge[k][h] = b
At(k, h) == <<h, edge[k][h]>>

Add(a, b) == (a \ b) \cup (b \ a)
Decode(k, f) == Add(f[At(k, 1)], f[At(k, 2)])

Init ==
    /\ edge \in [Key -> [Table -> Bin]]
    /\ alive = {}
    /\ order = <<>>
    /\ counter = 0
    /\ mode = "new"
    /\ encoding = FALSE
    /\ pos = 0
    /\ hand = {}
    /\ vals \in Input
    /\ variables = [s \in Slot |-> Zero]
    /\ sign = {}
    /\ table = [s \in Slot |-> Zero]
    /\ runs = 0
    /\ zeroed = FALSE
-----------------------------------------------------------------------------
(* fillTables puts every key back into the tables; peeling starts over.    *)
Refill ==
    /\ alive' = Key
    /\ order' = <<>>
    /\ counter' = 0
    /\ mode' = "first"
    /\ pos' = 0
    /\ UNCHANGED <<edge, hand, variables, sign, table>>

(* A caller asks for v to be encoded.                                      *)
Ask(v) ==
    /\ runs < MaxRuns
    /\ vals' = v
    /\ runs' = runs + 1
    /\ UNCHANGED zeroed

(* Paxos::init, "the first half of encoding".                              *)
FirstHalf ==
    /\ mode \in {"new", "ready"}
    /\ runs < MaxRuns
    /\ Refill
    /\ encoding' = FALSE
    /\ UNCHANGED <<request, zeroed>>

(* Paxos::encode, the complete process.                                    *)
Encode(v) ==
    /\ mode \in {"new", "peeled", "ready"}
    /\ Ask(v)
    /\ Refill
    /\ encoding' = TRUE

(* Paxos::encodeOnlyUnpeeling, "the second half".                          *)
SecondHalf(v) ==
    /\ mode \in {"peeled", "ready"}
    /\ Ask(v)
    /\ mode' = "external"
    /\ UNCHANGED <<edge, alive, order, encoding, pos, hand, slots>>
-----------------------------------------------------------------------------
ScanFirst ==
    /\ mode = "first"
    /\ pos < Bins
    /\ IF Single(alive, 1, pos)
         THEN LET k == Alone(alive, 1, pos)
              IN  alive' = alive \ {k} /\ order' = Append(order, k)
         ELSE UNCHANGED <<alive, order>>
    /\ pos' = pos + 1
    /\ UNCHANGED <<edge, mode, encoding, hand, slots, request, zeroed>>

NextScan ==
    /\ mode = "first"
    /\ pos = Bins
    /\ mode' = "second"
    /\ pos' = 0
    /\ UNCHANGED <<edge, alive, order, encoding, hand, slots, request, zeroed>>

(* One position of the second scan: its single key is taken in hand.       *)
ScanSecond ==
    /\ mode = "second"
    /\ hand = {}
    /\ pos < Bins
    /\ IF Single(alive, 2, pos)
         THEN hand' = {Alone(alive, 2, pos)} /\ UNCHANGED pos
         ELSE pos' = pos + 1 /\ UNCHANGED hand
    /\ UNCHANGED <<edge, alive, order, mode, encoding, slots, request, zeroed>>

(* The loop goes on with the key that is now alone in bucket b, or ends:   *)
(* if b is ahead of the scan, the scan will find the key.                  *)
Follow(K, b) ==
    IF Single(K, 2, b) /\ b <= pos
      THEN hand' = {Alone(K, 2, b)} /\ UNCHANGED pos
      ELSE hand' = {} /\ pos' = pos + 1

(* Mutations of Chain: the chain is not followed into the second table;    *)
(* the two keys of a turn are recorded in the wrong order.                 *)
Chain_NotFollowed ==
    \E k \in hand :
        LET rest == alive \ {k}
            l    == Alone(rest, 1, edge[k][1])
        IN  /\ IF Single(rest, 1, edge[k][1])
                 THEN alive' = rest \ {l} /\ order' = order \o <<k, l>>
                 ELSE alive' = rest /\ order' = Append(order, k)
            /\ hand' = {}
            /\ pos' = pos + 1
            /\ UNCHANGED <<edge, mode, encoding, slots, request, zeroed>>

Chain_Swapped ==
    \E k \in hand :
        LET rest == alive \ {k}
            l    == Alone(rest, 1, edge[k][1])
        IN  /\ IF Single(rest, 1, edge[k][1])
                 THEN /\ alive' = rest \ {l}
                      /\ order' = order \o <<l, k>>
                      /\ Follow(rest \ {l}, edge[l][2])
                 ELSE /\ alive' = rest
                      /\ order' = Append(order, k)
                      /\ hand' = {}
                      /\ pos' = pos + 1
            /\ UNCHANGED <<edge, mode, encoding, slots, request, zeroed>>

(* One iteration of the inner loop: the key in hand is peeled; if that     *)
(* leaves a key alone in its first bucket, that key is peeled, too, and    *)
(* the chain goes on in that key's second bucket.                          *)
Chain ==
    \E k \in hand :
        LET rest == alive \ {k}
            l    == Alone(rest, 1, edge[k][1])
        IN  /\ IF Single(rest, 1, edge[k][1])
                 THEN /\ alive' = rest \ {l}
                      /\ order' = order \o <<k, l>>
                      /\ Follow(rest \ {l}, edge[l][2])
                 ELSE /\ alive' = rest
                      /\ order' = Append(order, k)
                      /\ hand' = {}
                      /\ pos' = pos + 1
            /\ UNCHANGED <<edge, mode, encoding, slots, request, zeroed>>

Peeled ==
    /\ mode = "second"
    /\ hand = {}
    /\ pos = Bins
    /\ counter' = Len(order)
    /\ mode' = IF encoding THEN "external" ELSE "peeled"
    /\ UNCHANGED <<edge, alive, order, encoding, pos, hand,
                   variables, sign, table, request, zeroed>>
-----------------------------------------------------------------------------
(* generateExternalToolValues: the slots of the 2-core are marked and get  *)
(* the value the solver would have computed, which is zero.                *)
CoreSlot == {At(k, h) : k \in alive, h \in Table}

External ==
    /\ mode = "external"
    /\ sign' = sign \cup CoreSlot
    /\ variables' = [s \in Slot |-> IF s \in CoreSlot THEN Zero ELSE variables[s]]
    /\ mode' = "unpeeling"
    /\ UNCHANGED <<edge, alive, order, encoding, pos, hand, counter, table, request, zeroed>>

(* The variables after an assignment to a slot that is not set in f yet.   *)
Assign(f, s, value) == IF f[s] = Zero /\ s \notin sign THEN [f EXCEPT ![s] = value] ELSE f

(* If neither slot of k is set the first is filled with r; then the first, *)
(* and then the second, takes what the equation requires if it is not set. *)
Solved(k, r) ==
    LET one == At(k, 1)
        two == At(k, 2)
        filled == IF variables[two] = Zero /\ two \notin sign
                    THEN Assign(variables, one, r) ELSE variables
        solved == Assign(filled, one, Add(vals[k], filled[two]))
    IN  Assign(solved, two, Add(vals[k], solved[one]))

(* Mutation of Unpeel: the keys are taken in the order they were peeled.   *)
Unpeel_Forward ==
    /\ mode = "unpeeling"
    /\ counter > 0
    /\ LET k == order[Len(order) + 1 - counter]
       IN  \E r \in Filler :
             /\ variables' = Solved(k, r)
             /\ zeroed' = (zeroed \/ \E h \in Table :
                             variables'[At(k, h)] = Zero /\ At(k, h) \notin sign)
    /\ counter' = counter - 1
    /\ UNCHANGED <<graph, sign, table, request>>

(* One iteration of unpeeling, last peeled first.                          *)
Unpeel ==
    /\ mode = "unpeeling"
    /\ counter > 0
    /\ LET k == order[counter]
       IN  \E r \in Filler :
             /\ variables' = Solved(k, r)
             /\ zeroed' = (zeroed \/ \E h \in Table :
                             variables'[At(k, h)] = Zero /\ At(k, h) \notin sign)
    /\ counter' = counter - 1
    /\ UNCHANGED <<graph, sign, table, request>>

(* getVariables, copied to the table; peelingCounter is left at zero.      *)
Finish ==
    /\ mode = "unpeeling"
    /\ counter = 0
    /\ table' = variables
    /\ mode' = "ready"
    /\ UNCHANGED <<edge, alive, order, encoding, pos, hand,
                   variables, sign, counter, request, zeroed>>

(* decodeByTable(t): t replaces the variables, in which the keys are then  *)
(* decoded.                                                                *)
DecodeByTable(t) ==
    /\ mode = "ready"
    /\ variables' = t
    /\ UNCHANGED <<graph, sign, counter, table, request, zeroed>>

Exhausted == mode = "ready" /\ runs = MaxRuns /\ UNCHANGED vars

Next ==
    \/ FirstHalf
    \/ \E v \in Input : Encode(v) \/ SecondHalf(v)
    \/ ScanFirst
    \/ NextScan
    \/ ScanSecond
    \/ Chain
    \/ Peeled
    \/ External
    \/ Unpeel
    \/ Finish
    \/ \E t \in Foreign : DecodeByTable(t)
    \/ Exhausted

Spec == Init /\ [][Next]_vars
-----------------------------------------------------------------------------
After(n) == Key \ {order[j] : j \in 1..n}
Peeling == mode \in {"first", "second"}

(* What unpeeling relies on: a peeled key had a bucket that no key peeled  *)
(* after it, nor any key of the core, uses; although a turn of the chain   *)
(* peels two keys for different reasons (238-277).                         *)
PeelOrder ==
    mode # "new" =>
        /\ alive = After(Len(order))
        /\ \A n \in 1..Len(order) :
             order[n] \in After(n-1) /\ \E h \in Table :
                \A k \in After(n) : edge[k][h] # edge[order[n]][h]

(* A set of keys each of which shares both of its buckets.                 *)
Crowded(S) ==
    \A k \in S : \A h \in Table : \E l \in S \ {k} : edge[l][h] = edge[k][h]

(* One scan over each table is enough, because a chain is followed back to *)
(* the buckets the second scan has passed: peeling leaves exactly the      *)
(* 2-core.                                                                 *)
TwoCore ==
    /\ mode # "new" => \A S \in SUBSET Key : Crowded(S) => S \subseteq alive
    /\ mode # "new" /\ ~Peeling => Crowded(alive)

(* The first encoding is good, where the code solves anything: every key   *)
(* that was peeled decodes to its value, although one of its slots may be  *)
(* shared with keys solved before, unless unpeeling took a slot to zero,   *)
(* which counts as not set and is overwritten (474-490).  Nothing is said  *)
(* of the 2-core: the call of the solver is commented out (412).           *)
FirstTable ==
    mode = "ready" /\ runs = 1 /\ ~zeroed =>
        \A k \in Key \ alive : Decode(k, table) = vals[k]

(* checkOutput (530-564), whose call stands commented out where the table  *)
(* has been copied (okvs.h 107, 142), holds that the table decodes to the  *)
(* values given last.  It is wrong from the second encoding on, even of    *)
(* the keys it could be true of, the peeled ones, and if no slot is zero:  *)
(* nothing clears the slots, so that unpeeling finds them all set, and     *)
(* after encodeOnlyUnpeeling it finds peelingCounter at zero.              *)
CheckOutput ==
    mode = "ready" /\ ~zeroed => \A k \in Key \ alive : Decode(k, table) = vals[k]
=============================================================================
