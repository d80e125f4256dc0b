---------------------------- MODULE MCTwoTables ----------------------------
(***************************************************************************)
(* TwoTables on every graph of the given numbers of keys and buckets.      *)
(* Keys are numbers; the graphs are those whose keys are in the order of   *)
(* their buckets, to which every other graph is isomorphic.                *)
(***************************************************************************)
EXTENDS TwoTables

TwoBits == {1, 2}
MCFiller == {{1}}
MCInput == {[k \in Key |-> IF k % 2 = 0 THEN {2} ELSE {1, 2}], [k \in Key |-> {2}]}
MCForeign == {[s \in Slot |-> {1, 2}]}

Rank(k) == edge[k][1] * Bins + edge[k][2]

MCInit ==
    /\ Init
    /\ \A k, l \in Key : k < l => Rank(k) <= Rank(l)

MCSpec == MCInit /\ [][Next]_vars
=============================================================================
