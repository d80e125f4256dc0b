-------------------------------- MODULE Psi --------------------------------
(***************************************************************************)
(* What a run of the protocol promises: party 0 obtains, once, the set of  *)
(* elements every party holds.  Nothing is said of how the parties get     *)
(* there; Rounds and Mpsi implement this specification.                    *)
(***************************************************************************)
CONSTANTS
    Party,      \* the parties of the run
    Element,    \* what a set can contain (a 128-bit block in the code)
    PartySet    \* PartySet[p]: the input set of party p

VARIABLE result \* the answers party 0 has given

Intersection == {x \in Element : \A p \in Party : x \in PartySet[p]}

Init == result = {}

(* Party 0 compares its values with the decoded table and reports.         *)
Output ==
    /\ result = {}
    /\ result' = {Intersection}

Spec == Init /\ [][Output]_result /\ WF_result(Output)
=============================================================================
