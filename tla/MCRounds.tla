------------------------------ MODULE MCRounds ------------------------------
(***************************************************************************)
(* Rounds with every pattern of membership at once: an element is the set  *)
(* of the parties that hold it, so that one run compares the result with   *)
(* the intersection for each of the 2^N ways an element can be shared.     *)
(***************************************************************************)
EXTENDS Rounds

MCElement == SUBSET (0..(N-1))
MCPartySet == [p \in 0..(N-1) |-> {x \in MCElement : p \in x}]
MCMaskPeers == 1..(N-T-1)
=============================================================================
