----------------------------- MODULE MCOringT1 -----------------------------
(***************************************************************************)
(* OringT1 for TLC, with the elements of MCMpsi.                           *)
(***************************************************************************)
EXTENDS OringT1

All == 0..(N-1)
MCElement == {All, All \ {1}, All \ {2}, All \ {N-1}, All \ {0}}
MCPartySet == [p \in All |-> {x \in MCElement : p \in x}]
=============================================================================
