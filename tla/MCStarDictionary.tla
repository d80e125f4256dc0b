-------------------------- MODULE MCStarDictionary --------------------------
(***************************************************************************)
(* StarDictionary with three bins of two places for two threads.  The      *)
(* second list moves a key out of bin 0, so that its place keeps an item   *)
(* of the first list, fills bin 1, and has a key twice.                    *)
(***************************************************************************)
EXTENDS StarDictionary, TLC

CONSTANTS k1, k2, k3, k4, k5

OneBit == {1}
MCHash == (k1 :> 0) @@ (k2 :> 0) @@ (k3 :> 1) @@ (k4 :> 2) @@ (k5 :> 1)

Item(k, v) == [key |-> k, val |-> v]
MCInput == {
    <<Item(k1, {1}), Item(k2, {}), Item(k3, {1}), Item(k4, {})>>,
    <<Item(k5, {1}), Item(k3, {}), Item(k2, {1}), Item(k4, {1}), Item(k4, {})>> }

MCFilling == {[k \in Block |-> Zero], [k \in Block |-> IF k \in {k1, k3} THEN {} ELSE {1}]}
MCTight == {{k1, k2}, {k3, Dummy}}
=============================================================================
