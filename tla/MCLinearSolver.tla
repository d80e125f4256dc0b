--------------------------- MODULE MCLinearSolver ---------------------------
(***************************************************************************)
(* LinearSolver for TLC.                                                   *)
(***************************************************************************)
EXTENDS LinearSolver

OneBit == {1}
=============================================================================
