----------------------------- MODULE MCPeeling -----------------------------
(***************************************************************************)
(* Peeling on every graph with the given number of keys and buckets.  The  *)
(* keys are numbers and nothing distinguishes them but their buckets, so   *)
(* that it is enough to look at graphs whose keys are in the order of      *)
(* their buckets.                                                          *)
(***************************************************************************)
EXTENDS Peeling

(* The three buckets of a key as one number.                               *)
Rank(k) == (edge[k][1] * Bins + edge[k][2]) * Bins + edge[k][3]

MCInit ==
    /\ Init
    /\ \A k, l \in Key : k < l => Rank(k) <= Rank(l)

MCSpec == MCInit /\ [][Next]_vars /\ WF_vars(Next)
=============================================================================
