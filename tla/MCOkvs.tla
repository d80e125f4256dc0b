------------------------------- MODULE MCOkvs -------------------------------
(***************************************************************************)
(* Okvs on every graph of three keys over two buckets per table, with one  *)
(* extra variable.  The filler is the same for every slot, as it is in the *)
(* code as long as the allocator returns the block it just freed.  Keys    *)
(* are numbers: every graph is isomorphic to one whose keys are in the     *)
(* order of their buckets.                                                 *)
(***************************************************************************)
EXTENDS Okvs

MCFiller == {{1}}

(* Some values in a field of four elements, in which slots take values     *)
(* other than zero and the filler; and all values in its subfield of two,  *)
(* where keys 2 and 3 have the same.                                       *)
OneBit == {1}
TwoBits == {1, 2}
MixedInput ==
    {<<{1}, {2}, {1, 2}>>, <<{2}, {1, 2}, {1}>>, <<{1, 2}, {1}, {2}>>,
     <<{2}, {2}, {2}>>, <<{1, 2}, {2}, {}>>}
PairInput == {v \in [Key -> SUBSET OneBit] : v[2] = v[3]}
MCInput == MixedInput \cup PairInput

Rank(k) == (edge[k][1] * Bins + edge[k][2]) * Bins + edge[k][3]

MCInit ==
    /\ OkvsInit
    /\ \A k, l \in Key : k < l => Rank(k) <= Rank(l)

(* Values of the subfield are encoded in the subfield, by the solver, too, *)
(* and only they are encoded again.                                        *)
InSubfield == vals \in PairInput

MCNext ==
    \/ /\ OkvsNext
       /\ InSubfield' => \A s \in Slot : variables'[s] \subseteq OneBit
       /\ runs' > 1 => InSubfield /\ InSubfield'
    \/ /\ mode = "ready"
       /\ ~InSubfield
       /\ UNCHANGED allVars

MCSpec == MCInit /\ [][MCNext]_allVars
=============================================================================
