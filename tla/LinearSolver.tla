---------------------------- MODULE LinearSolver ----------------------------
(***************************************************************************)
(* solver() of okvs/linear_solver.cpp: NTL::gauss on the augmented matrix  *)
(* and back substitution from the last row, with random values for the     *)
(* variables no row determines.                                            *)
(*                                                                         *)
(* The coefficients are 0 and 1: a row is the set of the columns with a 1, *)
(* and adding rows is symmetric difference.  The right-hand sides and the  *)
(* variables are field elements, that is sets of bits, as in Okvs.         *)
(***************************************************************************)
EXTENDS Integers, FiniteSets

CONSTANTS Rows, Cols, Bit
ASSUME SizeAssumption == Rows \in Nat /\ Cols \in Nat \ {0}

Row == 1..Rows
Col == 0..(Cols-1)
Value == SUBSET Bit
Zero == {}

VARIABLES
    coef,   \* the system: coef[r] is the set of columns in equation r
    rhs,    \* and rhs[r] its right-hand side
    e,      \* A_b: the coefficients during the elimination, then the echelon form
    c,      \* the last column of A_b
    col,    \* the column being eliminated, Cols for the last one
    lead,   \* the row the next pivot goes to
    row,    \* the loop counter of the back substitution, Rows+1 before it
    x,      \* the solution vector
    set     \* x_set_flags

given == <<coef, rhs>>
matrix == <<e, c, col, lead>>
solution == <<row, x, set>>
vars == <<given, matrix, solution>>

Add(a, b) == (a \ b) \cup (b \ a)
Sum(S, f) == {b \in Bit : Cardinality({s \in S : b \in f[s]}) % 2 = 1}

(* Any system; the caller has just set the length of x.                    *)
Init ==
    /\ coef \in [Row -> SUBSET Col]
    /\ rhs \in [Row -> Value]
    /\ e = coef
    /\ c = rhs
    /\ col = 0
    /\ lead = 1
    /\ row = Rows + 1
    /\ x = [j \in Col |-> Zero]
    /\ set = {}
-----------------------------------------------------------------------------
(* NTL::gauss takes some row with a nonzero entry in the column, puts it   *)
(* at the lead position and clears the column below it.  The column of the *)
(* right-hand sides is one of the columns of A_b.                          *)
Nonzero(i) == IF col < Cols THEN col \in e[i] ELSE c[i] # Zero

Swapped(f, i, j) == [f EXCEPT ![i] = f[j], ![j] = f[i]]

Below(p) == {i \in (lead+1)..Rows : Swapped([r \in Row |-> Nonzero(r)], p, lead)[i]}

(* In the last column all entries are multiples of the pivot.              *)
Multiple(a, b) == IF col < Cols THEN Add(a, b) ELSE Zero

Eliminate ==
    /\ col <= Cols
    /\ col' = col + 1
    /\ IF \E p \in lead..Rows : Nonzero(p)
         THEN \E p \in lead..Rows :
                /\ Nonzero(p)
                /\ LET f == Swapped(e, p, lead)
                       g == Swapped(c, p, lead)
                   IN  /\ e' = [i \in Row |-> IF i \in Below(p) THEN Add(f[i], f[lead]) ELSE f[i]]
                       /\ c' = [i \in Row |-> IF i \in Below(p) THEN Multiple(g[i], g[lead]) ELSE g[i]]
                /\ lead' = lead + 1
         ELSE UNCHANGED <<e, c, lead>>
    /\ UNCHANGED <<given, solution>>

Echelon == col = Cols + 1

(* first_non0_index, which stays 0 in a row without coefficients.          *)
First(i) == IF e[i] = {} THEN 0 ELSE CHOOSE j \in e[i] : \A k \in e[i] : j <= k

(* Mutations of Substitute: the first variable is not taken out of the     *)
(* sum, and the variables of a row are not marked as set.                  *)
Substitute_OwnTerm ==
    /\ Echelon
    /\ row > 1
    /\ row' = row - 1
    /\ \E r \in [e[row'] \ set -> Value] :
         LET y == [j \in Col |-> IF j \in DOMAIN r THEN r[j] ELSE x[j]]
         IN  x' = [y EXCEPT ![First(row')] = Add(Sum(e[row'], y), c[row'])]
    /\ set' = set \cup e[row']
    /\ UNCHANGED <<given, matrix>>

Substitute_NoFlags ==
    /\ Echelon
    /\ row > 1
    /\ row' = row - 1
    /\ \E r \in [e[row'] \ set -> Value] :
         LET y == [j \in Col |-> IF j \in DOMAIN r THEN r[j] ELSE x[j]]
         IN  x' = [y EXCEPT ![First(row')] = Add(Add(Sum(e[row'], y), @), c[row'])]
    /\ UNCHANGED <<given, matrix, set>>

(* One row of the back substitution: the variables not set yet become      *)
(* random, then the first one is what the row requires.                    *)
Substitute ==
    /\ Echelon
    /\ row > 1
    /\ row' = row - 1
    /\ \E r \in [e[row'] \ set -> Value] :
         LET y == [j \in Col |-> IF j \in DOMAIN r THEN r[j] ELSE x[j]]
         IN  x' = [y EXCEPT ![First(row')] = Add(Add(Sum(e[row'], y), @), c[row'])]
    /\ set' = set \cup e[row']
    /\ UNCHANGED <<given, matrix>>

Done == Echelon /\ row = 1 /\ UNCHANGED vars

Next == Eliminate \/ Substitute \/ Done
Spec == Init /\ [][Next]_vars
-----------------------------------------------------------------------------
(* The equations that have been dealt with hold and keep holding, also     *)
(* when the system contradicts itself: the rows without coefficients come  *)
(* first, and what the code writes to x[0] for them (43) is made good by   *)
(* the rows with coefficients that follow.                                 *)
RowsHold ==
    \A i \in row..Rows : e[i] # {} => Sum(e[i], x) = c[i]

(* What OKVS relies on: check_encoding (50-60) finds an equation that x     *)
(* does not satisfy only if the equation takes part in a contradiction.    *)
(* So a system that has a solution is solved, with dependent rows or       *)
(* without (this is the solver Okvs assumes, Answers), and in a system     *)
(* that has none the damage is confined.                                   *)
Confined ==
    Echelon /\ row = 1 =>
        \A r \in Row :
            \/ Sum(coef[r], x) = rhs[r]
            \/ \E S \in SUBSET Row :
                 /\ r \in S
                 /\ \A j \in Col : Cardinality({i \in S : j \in coef[i]}) % 2 = 0
                 /\ Sum(S, rhs) # Zero
=============================================================================
