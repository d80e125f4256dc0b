------------------------- MODULE LinearSolverProofs -------------------------
(***************************************************************************)
(* Proofs about LinearSolver, for any number of equations and variables,   *)
(* any coefficients and any field GF(2^n).                                 *)
(***************************************************************************)
EXTENDS LinearSolver, FiniteSetTheorems, TLAPS

Least(S, m) == m \in S /\ \A l \in S : m <= l

SolverTypes ==
    /\ e \in [Row -> SUBSET Col] /\ c \in [Row -> Value]
    /\ col \in 0..(Cols+1) /\ lead \in 1..(Rows+1)
    /\ row \in 1..(Rows+1)
    /\ x \in [Col -> Value]

(* The rows without a pivot are clear of the columns before col.           *)
Cleared == \A k \in lead..Rows : \A j \in e[k] : col <= j

(* Below a row with a pivot, every coefficient is to the right of its      *)
(* first one; below an empty row every row is empty.                       *)
Step(i) ==
    \/ \E m : Least(e[i], m) /\ \A k \in (i+1)..Rows : \A j \in e[k] : m < j
    \/ e[i] = {} /\ \A k \in (i+1)..Rows : e[k] = {}

Stairs == \A i \in 1..(lead-1) : Step(i)

(* The back substitution starts with the echelon form, and the variables   *)
(* of the rows behind it have been set.                                    *)
Marked ==
    /\ row <= Rows => Echelon
    /\ \A i \in row..Rows : e[i] \subseteq set

SolverInv == SolverTypes /\ Cleared /\ Stairs /\ Marked /\ RowsHold
-----------------------------------------------------------------------------
LEMMA SumValue == ASSUME NEW S, NEW f PROVE Sum(S, f) \in Value
BY DEF Sum, Value

LEMMA AddValue == \A a, b \in Value : Add(a, b) \in Value
BY DEF Add, Value

LEMMA SumAgree ==
    ASSUME NEW S, NEW f, NEW g, \A s \in S : f[s] = g[s]
    PROVE  Sum(S, f) = Sum(S, g)
PROOF
<1>1. ASSUME NEW b \in Bit PROVE {s \in S : b \in f[s]} = {s \in S : b \in g[s]}
  OBVIOUS
<1> QED BY <1>1 DEF Sum

(* A sum is one of its terms and the sum of the others.                    *)
LEMMA SumSplit ==
    ASSUME NEW S, IsFiniteSet(S), NEW t \in S, NEW f, f[t] \in Value
    PROVE  Sum(S, f) = Add(f[t], Sum(S \ {t}, f))
PROOF
<1>1. ASSUME NEW b \in Bit
      PROVE  b \in Sum(S, f) <=> b \in Add(f[t], Sum(S \ {t}, f))
  <2> DEFINE T == {s \in S \ {t} : b \in f[s]}
             U == {s \in S : b \in f[s]}
  <2>1. IsFiniteSet(T) /\ Cardinality(T) \in Nat
    <3>1. IsFiniteSet(T)
      BY FS_Subset
    <3> QED BY <3>1, FS_CardinalityType
  <2>2. CASE b \in f[t]
    <3>1. U = T \cup {t} /\ t \notin T
      BY <2>2
    <3>2. Cardinality(U) = Cardinality(T) + 1
      BY <2>1, <3>1, FS_AddElement
    <3>3. Cardinality(U) % 2 = 1 <=> Cardinality(T) % 2 # 1
      BY <2>1, <3>2
    <3>4. (b \in Sum(S, f) <=> Cardinality(U) % 2 = 1)
          /\ (b \in Sum(S \ {t}, f) <=> Cardinality(T) % 2 = 1)
      BY DEF Sum
    <3> QED BY <2>2, <3>3, <3>4 DEF Add
  <2>3. CASE b \notin f[t]
    <3>1. U = T
      BY <2>3
    <3>2. (b \in Sum(S, f) <=> Cardinality(U) % 2 = 1)
          /\ (b \in Sum(S \ {t}, f) <=> Cardinality(T) % 2 = 1)
      BY DEF Sum
    <3> QED BY <2>3, <3>1, <3>2 DEF Add
  <2> QED BY <2>2, <2>3
<1>2. Sum(S, f) \subseteq Bit /\ Add(f[t], Sum(S \ {t}, f)) \subseteq Bit
  BY DEF Sum, Add, Value
<1> QED BY <1>1, <1>2

(* What the code writes to the first variable: the whole sum, less its own *)
(* term, plus the right-hand side.                                         *)
LEMMA OwnTerm ==
    ASSUME NEW a, NEW r, NEW v
    PROVE  Add(Add(Add(Add(a, r), a), v), r) = v
BY DEF Add

(* Two rows are exchanged.                                                 *)
LEMMA SwappedAt ==
    ASSUME NEW p \in Row, NEW q \in Row, NEW F, F = [i \in Row |-> F[i]]
    PROVE  /\ Swapped(F, p, q) = [i \in Row |-> Swapped(F, p, q)[i]]
           /\ \A i \in Row : Swapped(F, p, q)[i] =
                IF i = q THEN F[p] ELSE IF i = p THEN F[q] ELSE F[i]
BY DEF Swapped

LEMMA FirstLeast == ASSUME NEW i, NEW m \in Int, e[i] \subseteq Int, Least(e[i], m) PROVE First(i) = m
PROOF
<1>1. e[i] # {} /\ \A j \in e[i] : (\A k \in e[i] : j <= k) => j = m
  BY DEF Least
<1>2. (CHOOSE j \in e[i] : \A k \in e[i] : j <= k) \in e[i]
      /\ \A k \in e[i] : (CHOOSE j \in e[i] : \A l \in e[i] : j <= l) <= k
  BY DEF Least
<1> QED BY <1>1, <1>2 DEF First
-----------------------------------------------------------------------------
LEMMA InitSolver == Init => SolverInv
PROOF
<1> SUFFICES ASSUME Init PROVE SolverInv
  OBVIOUS
<1>1. SolverTypes
  BY SizeAssumption DEF Init, SolverTypes, Zero, Value
<1>2. lead = 1 /\ row = Rows + 1 /\ col = 0 /\ Rows \in Nat
  BY SizeAssumption DEF Init
<1>3. Cleared
  BY <1>1, <1>2 DEF Cleared, SolverTypes, Row, Col
<1> QED BY <1>1, <1>2, <1>3 DEF SolverInv, Stairs, Marked, RowsHold

(* One column: its pivot row joins the stairs, and the rows below it are   *)
(* cleared.                                                                *)
LEMMA EliminateSolver ==
    ASSUME SolverInv, Eliminate
    PROVE  SolverInv'
PROOF
<1>1. /\ Rows \in Nat /\ Cols \in Nat /\ col \in Nat /\ col <= Cols /\ col' = col + 1
      /\ lead \in 1..(Rows+1) /\ e \in [Row -> SUBSET Col] /\ c \in [Row -> Value]
      /\ UNCHANGED solution
  BY SizeAssumption DEF Eliminate, SolverInv, SolverTypes
<1>2. row = Rows + 1
  BY <1>1 DEF SolverInv, SolverTypes, Marked, Echelon
<1>3. RowsHold' /\ Marked'
  BY <1>1, <1>2 DEF RowsHold, Marked, solution
<1>4. CASE \A p \in lead..Rows : ~Nonzero(p)
  <2>1. UNCHANGED <<e, c, lead>>
    BY <1>4 DEF Eliminate
  <2>2. SolverTypes'
    BY <1>1, <2>1 DEF SolverInv, SolverTypes, solution
  <2>3. Stairs'
    BY <2>1 DEF SolverInv, Stairs, Step
  <2>4. Cleared'
    <3> SUFFICES ASSUME NEW k \in lead..Rows, NEW j \in e[k] PROVE col + 1 <= j
      BY <1>1, <2>1 DEF Cleared
    <3>1. k \in Row /\ j \in 0..(Cols-1) /\ col <= j
      BY <1>1 DEF SolverInv, Cleared, Row, Col
    <3>2. j # col
      BY <1>1, <1>4, <3>1 DEF Nonzero
    <3> QED BY <1>1, <3>1, <3>2
  <2> QED BY <1>3, <2>2, <2>3, <2>4 DEF SolverInv
<1>5. CASE \E p \in lead..Rows : Nonzero(p)
  <2>1. PICK p \in lead..Rows :
          /\ Nonzero(p)
          /\ LET f == Swapped(e, p, lead)
                 g == Swapped(c, p, lead)
             IN  /\ e' = [i \in Row |-> IF i \in Below(p) THEN Add(f[i], f[lead]) ELSE f[i]]
                 /\ c' = [i \in Row |-> IF i \in Below(p) THEN Multiple(g[i], g[lead]) ELSE g[i]]
          /\ lead' = lead + 1
    BY <1>5 DEF Eliminate
  <2> DEFINE f == Swapped(e, p, lead)
             g == Swapped(c, p, lead)
  <2>2. p \in Row /\ lead \in Row /\ lead <= p /\ p \in Nat /\ lead \in Nat
    BY <1>1 DEF Row
  <2>3. /\ f \in [Row -> SUBSET Col] /\ f[lead] = e[p]
        /\ \A i \in Row : i < lead => f[i] = e[i]
        /\ \A i \in Row : i >= lead => \E k \in lead..Rows : f[i] = e[k]
        /\ \A i \in (lead+1)..Rows : i \in Below(p) <=>
              IF col < Cols THEN col \in f[i] ELSE g[i] # Zero
        /\ Below(p) \subseteq (lead+1)..Rows
    <3>1. /\ \A i \in Row : f[i] = IF i = lead THEN e[p] ELSE IF i = p THEN e[lead] ELSE e[i]
          /\ \A i \in Row : g[i] = IF i = lead THEN c[p] ELSE IF i = p THEN c[lead] ELSE c[i]
      BY <1>1, <2>2, SwappedAt
    <3>2. f \in [Row -> SUBSET Col]
      BY <1>1, <2>2 DEF Swapped
    <3>3. \A i \in Row : i < lead => f[i] = e[i]
      BY <1>1, <2>2, <3>1
    <3>4. \A i \in Row : i >= lead => \E k \in lead..Rows : f[i] = e[k]
      BY <1>1, <2>2, <3>1 DEF Row
    <3>5. ASSUME NEW i \in (lead+1)..Rows
          PROVE  i \in Below(p) <=> IF col < Cols THEN col \in f[i] ELSE g[i] # Zero
      <4> DEFINE F == [r \in Row |-> Nonzero(r)]
      <4>1. i \in Row /\ i # lead
        BY <1>1, <2>2 DEF Row
      <4>2. Swapped(F, p, lead)[i] = IF i = p THEN F[lead] ELSE F[i]
        <5>1. F = [r \in Row |-> F[r]]
          OBVIOUS
        <5> HIDE DEF F
        <5>2. \A j \in Row : Swapped(F, p, lead)[j] =
                IF j = lead THEN F[p] ELSE IF j = p THEN F[lead] ELSE F[j]
          BY <2>2, <5>1, SwappedAt
        <5> QED BY <4>1, <5>2
      <4>3. i \in Below(p) <=> Swapped(F, p, lead)[i]
        BY ZenonT(30) DEF Below
      <4> DEFINE m == IF i = p THEN lead ELSE i
      <4>4. i \in Below(p) <=> Nonzero(m)
        <5>1. CASE i = p
          <6>1. Swapped(F, p, lead)[i] = Nonzero(lead)
            BY <2>2, <4>2, <5>1
          <6> QED BY <4>3, <5>1, <6>1
        <5>2. CASE i # p
          <6>1. Swapped(F, p, lead)[i] = Nonzero(i)
            BY <4>1, <4>2, <5>2
          <6> QED BY <4>3, <5>2, <6>1
        <5> QED BY <5>1, <5>2
      <4>5. f[i] = e[m] /\ g[i] = c[m]
        BY <3>1, <4>1
      <4> QED BY <4>4, <4>5 DEF Nonzero
    <3>6. f[lead] = e[p] /\ Below(p) \subseteq (lead+1)..Rows
      BY <2>2, <3>1 DEF Below
    <3> HIDE DEF f, g
    <3> QED BY <3>2, <3>3, <3>4, <3>5, <3>6
  <2>4. g \in [Row -> Value]
    BY <1>1, <2>2 DEF Swapped
  <2>5. /\ e' = [i \in Row |-> IF i \in Below(p) THEN Add(f[i], f[lead]) ELSE f[i]]
        /\ c' = [i \in Row |-> IF i \in Below(p) THEN Multiple(g[i], g[lead]) ELSE g[i]]
        /\ lead' = lead + 1
    BY <2>1
  <2> HIDE DEF f, g
  <2>6. SolverTypes'
    <3>1. \A i \in Row : Add(f[i], f[lead]) \in SUBSET Col
      BY <2>2, <2>3 DEF Add
    <3>2. \A i \in Row : Multiple(g[i], g[lead]) \in Value
      BY <2>2, <2>4, AddValue DEF Multiple, Zero, Value
    <3>3. e' \in [Row -> SUBSET Col] /\ c' \in [Row -> Value]
      BY <2>3, <2>4, <2>5, <3>1, <3>2
    <3> QED BY <1>1, <2>2, <2>5, <3>3 DEF SolverInv, SolverTypes, solution, Row
  <2>7. \A i \in Row : i >= lead => \A j \in f[i] : j \in Int /\ col <= j
    BY <1>1, <2>3 DEF SolverInv, Cleared, Col
  <2>8. \A k \in Row : k < lead => e'[k] = e[k]
    BY <1>1, <2>2, <2>3, <2>5 DEF Row
  <2>9. e'[lead] = f[lead]
    BY <1>1, <2>2, <2>3, <2>5 DEF Row
  <2>10. \A k \in (lead+1)..Rows : \A j \in e'[k] :
            k \in Row /\ j \in Int /\ col <= j /\ (j \in f[k] \/ j \in f[lead])
    <3> SUFFICES ASSUME NEW k \in (lead+1)..Rows, NEW j \in e'[k]
                 PROVE  k \in Row /\ j \in Int /\ col <= j /\ (j \in f[k] \/ j \in f[lead])
      OBVIOUS
    <3>1. k \in Row /\ k >= lead
      BY <1>1, <2>2 DEF Row
    <3>2. j \in f[k] \/ j \in f[lead]
      BY <2>5, <3>1 DEF Add
    <3> QED BY <2>2, <2>7, <3>1, <3>2
  <2>11. \A k \in (lead+1)..Rows : \A j \in e'[k] : col < j
    <3> SUFFICES ASSUME NEW k \in (lead+1)..Rows, NEW j \in e'[k], j = col PROVE FALSE
      BY <1>1, <2>10
    <3>1. k \in Row /\ col \in Col
      BY <1>1, <2>3, <2>2, <2>10
    <3>2. col < Cols /\ col \in f[lead]
      BY <1>1, <2>1, <2>3, <3>1 DEF Nonzero, Col
    <3> QED BY <2>3, <2>5, <3>1, <3>2 DEF Add
  <2>12. Cleared'
    <3> SUFFICES ASSUME NEW k \in (lead+1)..Rows, NEW j \in e'[k] PROVE col + 1 <= j
      BY <1>1, <2>5 DEF Cleared
    <3> QED BY <1>1, <2>10, <2>11
  <2>13. ASSUME NEW i \in 1..(lead-1) PROVE Step(i)'
    <3>1. Step(i) /\ i \in Row /\ e'[i] = e[i]
      BY <1>1, <2>8 DEF SolverInv, Stairs, Row
    <3>2. \A k \in (i+1)..Rows : \A j \in e'[k] : \E l \in (i+1)..Rows : j \in e[l]
      <4> SUFFICES ASSUME NEW k \in (i+1)..Rows, NEW j \in e'[k]
                   PROVE  \E l \in (i+1)..Rows : j \in e[l]
        OBVIOUS
      <4>1. CASE k < lead
        BY <1>1, <2>8, <4>1 DEF Row
      <4>2. CASE k >= lead
        <5>1. k \in Row /\ (j \in f[k] \/ j \in f[lead])
          BY <1>1, <2>9, <2>10, <4>2 DEF Row
        <5>2. PICK l \in lead..Rows : j \in e[l]
          BY <2>2, <2>3, <4>2, <5>1
        <5> QED BY <1>1, <5>2
      <4> QED BY <1>1, <4>1, <4>2
    <3> QED BY <3>1, <3>2 DEF Step, Least
  <2>14. ASSUME NEW n, n = lead PROVE Step(n)'
    <3>1. CASE col < Cols
      <4>1. Least(e'[lead], col)
        BY <1>1, <2>1, <2>2, <2>3, <2>7, <2>9, <3>1 DEF Nonzero, Least
      <4> QED BY <1>1, <2>11, <2>14, <4>1 DEF Step, Least
    <3>2. CASE col = Cols
      <4>1. f[lead] = {}
        BY <1>1, <2>2, <2>3, <2>7, <3>2 DEF Col
      <4>2. \A k \in (lead+1)..Rows : e'[k] = {}
        <5> SUFFICES ASSUME NEW k \in (lead+1)..Rows, NEW j \in e'[k] PROVE FALSE
          OBVIOUS
        <5>1. j \in Col
          BY <2>6, <2>10 DEF SolverTypes
        <5> QED BY <1>1, <2>10, <3>2, <5>1 DEF Col
      <4> QED BY <2>9, <2>14, <4>1, <4>2 DEF Step
    <3> QED BY <1>1, <3>1, <3>2
  <2>15. Stairs'
    <3>1. \A i \in 1..lead : i \in 1..(lead-1) \/ i = lead
      BY <2>2
    <3>2. \A i \in 1..lead : Step(i)'
      BY <2>13, <2>14, <3>1
    <3>3. lead' - 1 = lead
      BY <2>2, <2>5
    <3> QED BY <3>2, <3>3 DEF Stairs
  <2> QED BY <1>3, <2>6, <2>12, <2>15 DEF SolverInv
<1> QED BY <1>4, <1>5

(* One row of the back substitution: its first variable is in no row that  *)
(* has been dealt with, and those rows leave it nothing else to change.    *)
LEMMA SubstituteSolver ==
    ASSUME SolverInv, Substitute
    PROVE  SolverInv'
PROOF
<1>1. /\ Rows \in Nat /\ Cols \in Nat \ {0} /\ row \in 2..(Rows+1) /\ row' = row - 1
      /\ Echelon /\ UNCHANGED matrix /\ set' = set \cup e[row']
      /\ e \in [Row -> SUBSET Col] /\ c \in [Row -> Value] /\ x \in [Col -> Value]
  BY SizeAssumption DEF Substitute, SolverInv, SolverTypes
<1>2. PICK n \in Row : n = row - 1
  BY <1>1 DEF Row
<1>3. PICK r \in [e[n] \ set -> Value] :
        LET y == [j \in Col |-> IF j \in DOMAIN r THEN r[j] ELSE x[j]]
        IN  x' = [y EXCEPT ![First(n)] = Add(Add(Sum(e[n], y), @), c[n])]
  BY <1>1, <1>2 DEF Substitute
<1> DEFINE y == [j \in Col |-> IF j \in DOMAIN r THEN r[j] ELSE x[j]]
           v == Add(Add(Sum(e[n], y), y[First(n)]), c[n])
<1>4. y \in [Col -> Value] /\ \A j \in Col : j \in set => y[j] = x[j]
  BY <1>1
<1>5. x' = [y EXCEPT ![First(n)] = v]
  BY <1>3
<1> HIDE DEF y
<1>6. e[n] \subseteq Col /\ c[n] \in Value /\ Col \subseteq Int /\ IsFiniteSet(e[n])
  <2>1. e[n] \subseteq Col /\ IsFiniteSet(Col)
    BY <1>1, <1>2, FS_Interval DEF Col
  <2> QED BY <1>1, <1>2, <2>1, FS_Subset DEF Col
<1>7. \/ \E m : Least(e[n], m) /\ \A k \in (n+1)..Rows : \A j \in e[k] : m < j
      \/ e[n] = {} /\ \A k \in (n+1)..Rows : e[k] = {}
  <2>1. lead \in Nat /\ n \in Nat
    BY <1>2 DEF SolverInv, SolverTypes, Row
  <2>2. CASE n < lead
    BY <2>1, <2>2, <1>2 DEF SolverInv, Stairs, Step, Row
  <2>3. CASE n >= lead
    <3>1. ASSUME NEW k \in lead..Rows, NEW j \in e[k] PROVE FALSE
      <4>1. k \in Row /\ Cols + 1 <= j
        BY <1>1, <2>1, <3>1, <1>2 DEF SolverInv, Cleared, Echelon, Row, SolverTypes
      <4> QED BY <1>1, <4>1 DEF Col
    <3>2. n \in lead..Rows /\ \A k \in (n+1)..Rows : k \in lead..Rows
      BY <1>1, <2>1, <2>3, <1>2 DEF Row
    <3>3. e[n] = {}
      BY <3>1, <3>2
    <3>4. \A k \in (n+1)..Rows : e[k] = {}
      BY <3>1, <3>2
    <3> QED BY <3>3, <3>4
  <2> QED BY <2>1, <2>2, <2>3
<1>8. First(n) \in Col /\ (e[n] # {} => First(n) \in e[n])
      /\ \A k \in (n+1)..Rows : First(n) \notin e[k]
  <2>1. CASE e[n] = {}
    BY <1>1, <1>7, <2>1 DEF First, Col, Least
  <2>2. CASE e[n] # {}
    <3>1. PICK m : Least(e[n], m) /\ \A k \in (n+1)..Rows : \A j \in e[k] : m < j
      BY <1>7, <2>2
    <3>2. m \in e[n] /\ m \in Int
      BY <1>6, <3>1 DEF Least
    <3>3. First(n) = m
      BY <1>6, <3>1, <3>2, FirstLeast
    <3> QED BY <1>6, <3>1, <3>2, <3>3
  <2> QED BY <2>1, <2>2
<1>9. y[First(n)] \in Value
  BY <1>4, <1>8
<1>10. v \in Value
  BY <1>6, <1>9, SumValue, AddValue
<1> HIDE DEF v
<1>11. x' \in [Col -> Value] /\ x'[First(n)] = v /\ \A j \in Col : j # First(n) => x'[j] = y[j]
  BY <1>4, <1>5, <1>8, <1>10
<1>12. SolverTypes' /\ Cleared' /\ Stairs'
  BY <1>1, <1>11 DEF SolverInv, SolverTypes, Cleared, Stairs, Step, Least, matrix
<1>13. \A k \in n..Rows : k \in Row /\ (k = n \/ k \in row..Rows) /\ (k \in row..Rows => k \in (n+1)..Rows)
  BY <1>1, <1>2 DEF Row
<1>14. Marked'
  BY <1>1, <1>2, <1>13 DEF SolverInv, Marked, Echelon, matrix
<1>15. ASSUME NEW k \in row..Rows, e[k] # {} PROVE Sum(e[k], x') = c[k]
  <2>1. e[k] \subseteq set /\ e[k] \subseteq Col /\ First(n) \notin e[k]
    BY <1>1, <1>2, <1>8, <1>13 DEF SolverInv, Marked, Row
  <2>2. \A j \in e[k] : x'[j] = x[j]
    BY <1>4, <1>11, <2>1
  <2>3. Sum(e[k], x') = Sum(e[k], x)
    BY <2>2, SumAgree
  <2> QED BY <1>15, <2>3 DEF SolverInv, RowsHold
<1>16. ASSUME e[n] # {} PROVE Sum(e[n], x') = c[n]
  <2> DEFINE F == First(n)
             R == Sum(e[n] \ {F}, y)
  <2>1. F \in e[n] /\ x'[F] \in Value
    BY <1>8, <1>10, <1>11, <1>16
  <2>2. Sum(e[n], x') = Add(v, Sum(e[n] \ {F}, x'))
    BY <1>6, <1>11, <2>1, SumSplit
  <2>3. Sum(e[n] \ {F}, x') = R
    <3>1. \A j \in e[n] \ {F} : x'[j] = y[j]
      BY <1>6, <1>11
    <3> QED BY <3>1, SumAgree
  <2>4. Sum(e[n], y) = Add(y[F], R)
    BY <1>6, <1>9, <2>1, SumSplit
  <2>5. v = Add(Add(Add(y[F], R), y[F]), c[n])
    BY <2>4 DEF v
  <2> HIDE DEF R, F
  <2> QED BY <2>2, <2>3, <2>5, OwnTerm
<1>17. RowsHold'
  <2> SUFFICES ASSUME NEW k \in n..Rows, e[k] # {} PROVE Sum(e[k], x') = c[k]
    BY <1>1, <1>2 DEF RowsHold, matrix
  <2> QED BY <1>13, <1>15, <1>16
<1> QED BY <1>12, <1>14, <1>17 DEF SolverInv

LEMMA NextSolver == SolverInv /\ [Next]_vars => SolverInv'
PROOF
<1> SUFFICES ASSUME SolverInv, [Next]_vars PROVE SolverInv'
  OBVIOUS
<1>1. CASE UNCHANGED vars
  BY <1>1 DEF vars, matrix, solution, SolverInv, SolverTypes, Cleared, Stairs, Step, Least,
              Marked, Echelon, RowsHold
<1> QED BY <1>1, EliminateSolver, SubstituteSolver DEF Next, Done

(* Whatever rows gauss picks and whatever the random values, an equation   *)
(* the back substitution has dealt with holds ever after, and so do all    *)
(* equations of the echelon form with coefficients when solver returns     *)
(* (linear_solver.cpp 27-43).                                              *)
THEOREM SubstitutionHolds == Spec => []RowsHold
<1>1. SolverInv => RowsHold
  BY DEF SolverInv
<1> QED BY <1>1, InitSolver, NextSolver, PTL DEF Spec
-----------------------------------------------------------------------------
(* An odd number of members s of S have b in f[s].                         *)
Odd(S, f, b) == Cardinality({s \in S : b \in f[s]}) % 2 = 1

(* The row with coefficients a and right-hand side v is the sum of those   *)
(* of the given equations, with coefficients E and right-hand sides d,     *)
(* that are in S; by how much y misses it.                                 *)
Combines(E, d, S, a, v) ==
    S \subseteq Row /\ (\A j \in Col : j \in a <=> Odd(S, E, j)) /\ Sum(S, d) = v

Excess(a, v, y) == Add(Sum(a, y), v)

(* Where the rows a, v with n-1 pivots come from: row k was once equation  *)
(* own[k], and it is the sum of the equations in from[k].  A row without a *)
(* pivot has never been added to another, so its own equation is in its    *)
(* sum and in no other; and all that was ever added to a row is pivot      *)
(* rows, so a y that satisfies these misses a row as it misses the row's   *)
(* own equation.                                                           *)
Traced(E, d, own, from, a, v, n) ==
    /\ own \in [Row -> Row] /\ from \in [Row -> SUBSET Row]
    /\ \A r \in Row : \E k \in Row : own[k] = r
    /\ \A k \in Row : Combines(E, d, from[k], a[k], v[k])
    /\ \A k, i \in Row : k >= n => (own[k] \in from[i] <=> i = k)
    /\ \A y \in [Col -> Value] :
         (\A l \in Row : l < n => Sum(a[l], y) = v[l]) =>
            \A k \in Row : Excess(a[k], v[k], y) = Excess(E[own[k]], d[own[k]], y)

(* Equation r is part of a contradiction.                                  *)
Contradicted(E, d, r) ==
    \E S \in SUBSET Row :
        /\ r \in S
        /\ \A j \in Col : Cardinality({i \in S : j \in E[i]}) % 2 = 0
        /\ Sum(S, d) # Zero

(* Equation r follows from the rows a, v with coefficients.                *)
Follows(E, d, a, v, r) ==
    \A y \in [Col -> Value] :
        (\A i \in Row : a[i] # {} => Sum(a[i], y) = v[i]) => Sum(E[r], y) = d[r]

(* The elimination so far, and what is left of it in the echelon form.     *)
TraceInv ==
    /\ coef \in [Row -> SUBSET Col] /\ rhs \in [Row -> Value]
    /\ col <= Cols =>
         /\ \A l \in Row : l < lead => e[l] # {}
         /\ \E own \in [Row -> Row], from \in [Row -> SUBSET Row] :
              Traced(coef, rhs, own, from, e, c, lead)
    /\ Echelon => \A r \in Row : Contradicted(coef, rhs, r) \/ Follows(coef, rhs, e, c, r)

(* Parity of a symmetric difference.                                       *)
LEMMA OddAdd ==
    ASSUME NEW S, IsFiniteSet(S), NEW T, IsFiniteSet(T), NEW f, NEW b
    PROVE  Odd(Add(S, T), f, b) <=> ~(Odd(S, f, b) <=> Odd(T, f, b))
PROOF
<1> DEFINE A == {s \in S : b \in f[s]}
           B == {s \in T : b \in f[s]}
           D == {s \in Add(S, T) : b \in f[s]}
<1>1. IsFiniteSet(A) /\ IsFiniteSet(B)
  BY FS_Subset
<1>2. IsFiniteSet(A \ B) /\ IsFiniteSet(B \ A) /\ IsFiniteSet(A \cap B)
  BY <1>1, FS_Subset
<1>3. D = (A \ B) \cup (B \ A) /\ (A \ B) \cap (B \ A) = {}
  BY DEF Add
<1>4. /\ Odd(S, f, b) <=> Cardinality(A) % 2 = 1
      /\ Odd(T, f, b) <=> Cardinality(B) % 2 = 1
      /\ Odd(Add(S, T), f, b) <=> Cardinality(D) % 2 = 1
  BY DEF Odd
<1> HIDE DEF A, B, D
<1>5. Cardinality(D) = Cardinality(A \ B) + Cardinality(B \ A)
  <2>1. Cardinality(D) = Cardinality(A \ B) + Cardinality(B \ A)
                           - Cardinality((A \ B) \cap (B \ A))
    BY <1>2, <1>3, FS_Union
  <2>2. Cardinality((A \ B) \cap (B \ A)) = 0
    BY <1>3, FS_EmptySet
  <2> QED BY <1>2, <2>1, <2>2, FS_CardinalityType
<1>6. Cardinality(A \ B) = Cardinality(A) - Cardinality(A \cap B)
  BY <1>1, FS_Difference
<1>7. Cardinality(B \ A) = Cardinality(B) - Cardinality(A \cap B)
  <2>1. B \cap A = A \cap B
    OBVIOUS
  <2>2. Cardinality(B \ A) = Cardinality(B) - Cardinality(B \cap A)
    BY <1>1, FS_Difference
  <2> QED BY <2>1, <2>2
<1>8. /\ Cardinality(A) \in Nat /\ Cardinality(B) \in Nat /\ Cardinality(A \cap B) \in Nat
      /\ Cardinality(D) \in Nat
  BY <1>1, <1>2, <1>5, FS_CardinalityType
<1>9. \A x1, x2, y1, z1 \in Nat : z1 = (x1 - y1) + (x2 - y1) =>
         (z1 % 2 = 1 <=> ~(x1 % 2 = 1 <=> x2 % 2 = 1))
  OBVIOUS
<1>10. Cardinality(D) = (Cardinality(A) - Cardinality(A \cap B))
                          + (Cardinality(B) - Cardinality(A \cap B))
  BY <1>5, <1>6, <1>7
<1> QED BY <1>4, <1>8, <1>9, <1>10

LEMMA OddOne ==
    ASSUME NEW t, NEW f, NEW b
    PROVE  Odd({t}, f, b) <=> b \in f[t]
PROOF
<1>1. CASE b \in f[t]
  <2>1. {s \in {t} : b \in f[s]} = {t}
    BY <1>1
  <2>2. Cardinality({t}) = 1
    BY FS_Singleton
  <2> QED BY <1>1, <2>1, <2>2 DEF Odd
<1>2. CASE b \notin f[t]
  <2>1. {s \in {t} : b \in f[s]} = {}
    BY <1>2
  <2>2. Cardinality({}) = 0
    BY FS_EmptySet
  <2> QED BY <1>2, <2>1, <2>2 DEF Odd
<1> QED BY <1>1, <1>2

LEMMA SumOdd == ASSUME NEW S, NEW f PROVE Sum(S, f) = {b \in Bit : Odd(S, f, b)}
BY DEF Sum, Odd

(* A sum is linear.                                                        *)
LEMMA SumAdd ==
    ASSUME NEW S, IsFiniteSet(S), NEW T, IsFiniteSet(T), NEW f
    PROVE  Sum(Add(S, T), f) = Add(Sum(S, f), Sum(T, f))
PROOF
<1>1. \A b \in Bit : Odd(Add(S, T), f, b) <=> ~(Odd(S, f, b) <=> Odd(T, f, b))
  BY OddAdd
<1> QED BY <1>1, SumOdd DEF Add

LEMMA SumOne == ASSUME NEW t, NEW f, f[t] \in Value PROVE Sum({t}, f) = f[t]
PROOF
<1>1. \A b \in Bit : Odd({t}, f, b) <=> b \in f[t]
  BY OddOne
<1> QED BY <1>1, SumOdd DEF Value

LEMMA SumNone == ASSUME NEW f PROVE Sum({}, f) = Zero
PROOF
<1>1. \A b : {s \in {} : b \in f[s]} = {} /\ Cardinality({}) = 0
  BY FS_EmptySet
<1> QED BY <1>1 DEF Sum, Zero

LEMMA FiniteParts == \A S : S \subseteq Row \/ S \subseteq Col => IsFiniteSet(S)
PROOF
<1>1. IsFiniteSet(Row) /\ IsFiniteSet(Col)
  BY SizeAssumption, FS_Interval DEF Row, Col
<1> QED BY <1>1, FS_Subset

(* The sum of two rows comes from both their sums.                         *)
LEMMA AddCombines ==
    ASSUME NEW E, NEW d, NEW S, NEW T, NEW a, NEW f, NEW v, NEW w,
           Combines(E, d, S, a, v), Combines(E, d, T, f, w)
    PROVE  Combines(E, d, Add(S, T), Add(a, f), Add(v, w))
PROOF
<1>1. S \subseteq Row /\ T \subseteq Row /\ IsFiniteSet(S) /\ IsFiniteSet(T)
  BY FiniteParts DEF Combines
<1>2. Add(S, T) \subseteq Row
  BY <1>1 DEF Add
<1>3. Sum(Add(S, T), d) = Add(v, w)
  BY <1>1, SumAdd DEF Combines
<1>4. ASSUME NEW j \in Col PROVE j \in Add(a, f) <=> Odd(Add(S, T), E, j)
  <2>1. Odd(Add(S, T), E, j) <=> ~(Odd(S, E, j) <=> Odd(T, E, j))
    BY <1>1, OddAdd
  <2>2. (j \in a <=> Odd(S, E, j)) /\ (j \in f <=> Odd(T, E, j))
    BY DEF Combines
  <2> QED BY <2>1, <2>2 DEF Add
<1> QED BY <1>2, <1>3, <1>4 DEF Combines

(* A row that misses by what it missed before, plus nothing.               *)
LEMMA ExcessAdd ==
    ASSUME NEW a, IsFiniteSet(a), NEW d, IsFiniteSet(d), NEW v, NEW w, NEW y, Sum(d, y) = w
    PROVE  Excess(Add(a, d), Add(v, w), y) = Excess(a, v, y)
PROOF
<1>1. Sum(Add(a, d), y) = Add(Sum(a, y), w)
  BY SumAdd
<1>2. \A s, t, u : Add(Add(s, t), Add(u, t)) = Add(s, u)
  BY DEF Add
<1> QED BY <1>1, <1>2 DEF Excess

LEMMA ExcessZero == \A s, t : Add(s, t) = Zero <=> s = t
BY DEF Add, Zero

LEMMA SwappedType ==
    ASSUME NEW T, NEW F \in [Row -> T], NEW p \in Row, NEW q \in Row
    PROVE  Swapped(F, p, q) \in [Row -> T]
BY DEF Swapped

(* The row that p and q exchange.                                          *)
Other(i, p, q) == IF i = q THEN p ELSE IF i = p THEN q ELSE i

LEMMA SwappedOther ==
    ASSUME NEW F, DOMAIN F = Row, NEW p \in Row, NEW q \in Row, NEW i \in Row
    PROVE  Swapped(F, p, q)[i] = F[Other(i, p, q)]
BY DEF Swapped, Other

LEMMA OtherFacts ==
    ASSUME NEW p \in Row, NEW q \in Row, NEW n \in Nat, p >= n, q >= n
    PROVE  /\ \A i \in Row : Other(i, p, q) \in Row /\ Other(Other(i, p, q), p, q) = i
           /\ \A i \in Row : i >= n <=> Other(i, p, q) >= n
           /\ \A i \in Row : i < n => Other(i, p, q) = i
           /\ \A i, k \in Row : Other(i, p, q) = Other(k, p, q) <=> i = k
BY SizeAssumption DEF Row, Other

(* Two rows without pivots are exchanged.                                  *)
LEMMA SwapTraced ==
    ASSUME NEW E, NEW d, NEW own, NEW from, NEW a \in [Row -> SUBSET Col], NEW v \in [Row -> Value],
           NEW n \in Row, NEW p \in Row, p >= n, Traced(E, d, own, from, a, v, n)
    PROVE  Traced(E, d, Swapped(own, p, n), Swapped(from, p, n), Swapped(a, p, n), Swapped(v, p, n), n)
PROOF
<1> DEFINE o(i) == Other(i, p, n)
<1>1. n \in Nat /\ n >= n
  BY SizeAssumption DEF Row
<1>2. own \in [Row -> Row] /\ from \in [Row -> SUBSET Row]
  BY DEF Traced
<1>3. ASSUME NEW i \in Row
      PROVE  /\ Swapped(own, p, n)[i] = own[o(i)] /\ Swapped(from, p, n)[i] = from[o(i)]
             /\ Swapped(a, p, n)[i] = a[o(i)] /\ Swapped(v, p, n)[i] = v[o(i)]
  <2>1. DOMAIN own = Row /\ DOMAIN from = Row /\ DOMAIN a = Row /\ DOMAIN v = Row
    BY <1>2
  <2> QED BY <2>1, SwappedOther
<1>4. Swapped(own, p, n) \in [Row -> Row] /\ Swapped(from, p, n) \in [Row -> SUBSET Row]
  BY <1>2, SwappedType
<1>5. /\ \A i \in Row : o(i) \in Row /\ o(o(i)) = i
      /\ \A i \in Row : i >= n <=> o(i) >= n
      /\ \A i \in Row : i < n => o(i) = i
      /\ \A i, k \in Row : o(i) = o(k) <=> i = k
  BY <1>1, OtherFacts
<1> DEFINE own2 == Swapped(own, p, n)
           from2 == Swapped(from, p, n)
           a2 == Swapped(a, p, n)
           v2 == Swapped(v, p, n)
<1> HIDE DEF o, own2, from2, a2, v2
<1>6. /\ \A i \in Row : own2[i] = own[o(i)] /\ from2[i] = from[o(i)]
      /\ \A i \in Row : a2[i] = a[o(i)] /\ v2[i] = v[o(i)]
      /\ own2 \in [Row -> Row] /\ from2 \in [Row -> SUBSET Row]
  BY <1>3, <1>4 DEF own2, from2, a2, v2
<1>7. \A r \in Row : \E k \in Row : own2[k] = r
  <2> SUFFICES ASSUME NEW r \in Row PROVE \E k \in Row : own2[k] = r
    OBVIOUS
  <2>1. PICK k \in Row : own[k] = r
    BY DEF Traced
  <2> QED BY <1>5, <1>6, <2>1
<1>8. \A k \in Row : Combines(E, d, from2[k], a2[k], v2[k])
  BY <1>5, <1>6 DEF Traced
<1>9. ASSUME NEW k \in Row, NEW i \in Row, k >= n
      PROVE  own2[k] \in from2[i] <=> i = k
  <2>1. o(k) \in Row /\ o(i) \in Row /\ o(k) >= n /\ (o(i) = o(k) <=> i = k)
    BY <1>5, <1>9
  <2>2. own[o(k)] \in from[o(i)] <=> o(i) = o(k)
    BY <2>1 DEF Traced
  <2> QED BY <1>6, <2>1, <2>2
<1>10. ASSUME NEW y \in [Col -> Value], \A l \in Row : l < n => Sum(a2[l], y) = v2[l],
              NEW k \in Row
       PROVE  Excess(a2[k], v2[k], y) = Excess(E[own2[k]], d[own2[k]], y)
  <2>1. \A l \in Row : l < n => Sum(a[l], y) = v[l]
    BY <1>5, <1>6, <1>10
  <2>2. o(k) \in Row /\ Excess(a[o(k)], v[o(k)], y) = Excess(E[own[o(k)]], d[own[o(k)]], y)
    BY <1>5, <2>1 DEF Traced
  <2> QED BY <1>6, <2>2
<1>11. Traced(E, d, own2, from2, a2, v2, n)
  BY <1>6, <1>7, <1>8, <1>9, <1>10 DEF Traced
<1> QED BY <1>11 DEF own2, from2, a2, v2

(* Row n of F is added to the rows in B, which gives G.                    *)
AddsTo(B, n, F, G) == \A i \in Row : G[i] = IF i \in B THEN Add(F[i], F[n]) ELSE F[i]

(* The row of the new pivot is added to rows below it.                     *)
LEMMA AddTraced ==
    ASSUME NEW E, NEW d, NEW own, NEW from, NEW a, NEW v, NEW n, NEW B, NEW s, NEW b, NEW u, NEW m,
           Traced(E, d, own, from, a, v, n), AddsTo(B, n, from, s), AddsTo(B, n, a, b),
           AddsTo(B, n, v, u), s = [i \in Row |-> s[i]],
           a \in [Row -> SUBSET Col], n \in Row, \A i \in B : i > n, m = n + 1
    PROVE  Traced(E, d, own, s, b, u, m)
PROOF
<1>3. /\ \A i \in Row : i \in B =>
            s[i] = Add(from[i], from[n]) /\ b[i] = Add(a[i], a[n]) /\ u[i] = Add(v[i], v[n])
      /\ \A i \in Row : i \notin B => s[i] = from[i] /\ b[i] = a[i] /\ u[i] = v[i]
  BY DEF AddsTo
<1>1. /\ own \in [Row -> Row] /\ from \in [Row -> SUBSET Row]
      /\ \A r \in Row : \E k \in Row : own[k] = r
      /\ \A k \in Row : Combines(E, d, from[k], a[k], v[k])
      /\ \A k, i \in Row : k >= n => (own[k] \in from[i] <=> i = k)
  BY DEF Traced
<1>2. Row \subseteq Nat /\ n \in Nat /\ n \notin B
  BY SizeAssumption DEF Row
<1>4. s \in [Row -> SUBSET Row]
  <2>1. \A i \in Row : Add(from[i], from[n]) \in SUBSET Row
    BY <1>1 DEF Add
  <2>2. \A i \in Row : s[i] \in SUBSET Row
    BY <1>1, <1>3, <2>1
  <2> QED BY <2>2
<1>5. ASSUME NEW k \in Row PROVE Combines(E, d, s[k], b[k], u[k])
  <2>1. CASE k \in B
    BY <1>1, <1>3, <2>1, AddCombines
  <2>2. CASE k \notin B
    BY <1>1, <1>3, <2>2
  <2> QED BY <2>1, <2>2
<1>6. ASSUME NEW k \in Row, NEW i \in Row, k >= n + 1
      PROVE  own[k] \in s[i] <=> i = k
  <2>1. (own[k] \in from[i] <=> i = k) /\ own[k] \notin from[n]
    BY <1>1, <1>2, <1>6
  <2> QED BY <1>3, <2>1 DEF Add
<1>7. ASSUME NEW y \in [Col -> Value], \A l \in Row : l < n + 1 => Sum(b[l], y) = u[l],
             NEW k \in Row
      PROVE  Excess(b[k], u[k], y) = Excess(E[own[k]], d[own[k]], y)
  <2>1. \A l \in Row : l < n + 1 => l \notin B
    BY <1>2
  <2>2. \A l \in Row : l < n + 1 => Sum(a[l], y) = v[l]
    BY <1>2, <1>3, <1>7, <2>1
  <2>3. Excess(a[k], v[k], y) = Excess(E[own[k]], d[own[k]], y)
    BY <1>2, <2>2 DEF Traced
  <2>4. CASE k \in B
    <3>1. Sum(a[n], y) = v[n]
      BY <1>2, <2>2
    <3>2. IsFiniteSet(a[k]) /\ IsFiniteSet(a[n])
      BY FiniteParts
    <3> QED BY <1>3, <2>3, <2>4, <3>1, <3>2, ExcessAdd
  <2>5. CASE k \notin B
    BY <1>3, <2>3, <2>5
  <2> QED BY <2>4, <2>5
<1> QED BY <1>1, <1>4, <1>5, <1>6, <1>7 DEF Traced

(* Before the elimination a row is its own equation.                       *)
LEMMA InitTrace == Init => TraceInv
PROOF
<1> SUFFICES ASSUME Init PROVE TraceInv
  OBVIOUS
<1>1. /\ coef \in [Row -> SUBSET Col] /\ rhs \in [Row -> Value] /\ e = coef /\ c = rhs
      /\ col = 0 /\ lead = 1 /\ Cols \in Nat \ {0} /\ Rows \in Nat
  BY SizeAssumption DEF Init
<1> DEFINE own == [k \in Row |-> k]
           from == [k \in Row |-> {k}]
<1>2. \A l \in Row : ~(l < 1)
  BY <1>1 DEF Row
<1>3. ASSUME NEW k \in Row PROVE Combines(coef, rhs, from[k], e[k], c[k])
  <2>1. Sum({k}, rhs) = c[k]
    BY <1>1, SumOne
  <2>2. \A j \in Col : j \in e[k] <=> Odd({k}, coef, j)
    BY <1>1, OddOne
  <2>3. from[k] = {k} /\ {k} \subseteq Row
    OBVIOUS
  <2> HIDE DEF from
  <2> QED BY <2>1, <2>2, <2>3 DEF Combines
<1>4. /\ own \in [Row -> Row] /\ from \in [Row -> SUBSET Row]
      /\ \A r \in Row : \E k \in Row : own[k] = r
      /\ \A k, i \in Row : own[k] \in from[i] <=> i = k
      /\ \A k \in Row : own[k] = k
  OBVIOUS
<1> HIDE DEF own, from
<1>5. Traced(coef, rhs, own, from, e, c, lead)
  BY <1>1, <1>3, <1>4 DEF Traced
<1> QED BY <1>1, <1>2, <1>4, <1>5 DEF TraceInv, Echelon

(* When the last column is reached the rows without pivots are empty: such *)
(* a row is a contradiction its own equation is part of, or it says zero   *)
(* is zero and its own equation follows from the rows with coefficients.   *)
LEMMA SettleTrace ==
    ASSUME SolverInv, TraceInv, col = Cols, UNCHANGED given,
           \A i \in Row : e'[i] = e[i], \A i \in Row : i < lead => c'[i] = c[i]
    PROVE  \A r \in Row : Contradicted(coef, rhs, r)' \/ Follows(coef, rhs, e, c, r)'
PROOF
<1>1. /\ Cols \in Nat \ {0} /\ Rows \in Nat /\ e \in [Row -> SUBSET Col] /\ c \in [Row -> Value]
      /\ lead \in 1..(Rows+1) /\ coef' = coef /\ rhs' = rhs
      /\ coef \in [Row -> SUBSET Col] /\ rhs \in [Row -> Value]
  BY SizeAssumption DEF SolverInv, SolverTypes, TraceInv, given
<1>2. PICK own \in [Row -> Row], from \in [Row -> SUBSET Row] : Traced(coef, rhs, own, from, e, c, lead)
  BY <1>1 DEF TraceInv
<1>3. ASSUME NEW k \in Row, k >= lead PROVE e[k] = {}
  <2> SUFFICES ASSUME NEW j \in e[k] PROVE FALSE
    OBVIOUS
  <2>1. k \in lead..Rows /\ j \in Col
    BY <1>1, <1>3 DEF Row
  <2>2. Cols <= j
    BY <2>1 DEF SolverInv, Cleared
  <2> QED BY <1>1, <2>1, <2>2 DEF Col
<1>4. \A l \in Row : l < lead => e[l] # {}
  BY <1>1 DEF TraceInv
<1> SUFFICES ASSUME NEW r \in Row PROVE Contradicted(coef, rhs, r)' \/ Follows(coef, rhs, e, c, r)'
  OBVIOUS
<1>5. PICK k \in Row : own[k] = r
  BY <1>2 DEF Traced
<1>6. CASE k >= lead /\ c[k] # Zero
  <2>1. r \in from[k] /\ Combines(coef, rhs, from[k], e[k], c[k])
    BY <1>2, <1>5, <1>6 DEF Traced
  <2>2. from[k] \in SUBSET Row /\ Sum(from[k], rhs) # Zero
    BY <1>6, <2>1 DEF Combines
  <2>3. ASSUME NEW j \in Col PROVE Cardinality({i \in from[k] : j \in coef[i]}) % 2 = 0
    <3> DEFINE A == {i \in from[k] : j \in coef[i]}
    <3>1. ~(Cardinality(A) % 2 = 1)
      BY <1>3, <1>6, <2>1 DEF Combines, Odd
    <3>2. IsFiniteSet(A)
      <4>1. A \subseteq Row
        BY <2>2
      <4> QED BY <4>1, FiniteParts
    <3>3. Cardinality(A) \in Nat
      BY <3>2, FS_CardinalityType
    <3> HIDE DEF A
    <3>4. Cardinality(A) % 2 = 0
      BY <3>1, <3>3
    <3> QED BY <3>4 DEF A
  <2>4. Contradicted(coef, rhs, r)'
    BY <1>1, <2>1, <2>2, <2>3 DEF Contradicted
  <2> QED BY <2>4
<1>7. CASE k < lead \/ c[k] = Zero
  <2> SUFFICES ASSUME NEW y \in [Col -> Value],
                      \A i \in Row : e'[i] # {} => Sum(e'[i], y) = c'[i]
               PROVE  Sum(coef[r], y) = rhs[r]
    BY <1>1 DEF Follows
  <2>1. \A l \in Row : l < lead => Sum(e[l], y) = c[l]
    BY <1>4
  <2>2. Excess(e[k], c[k], y) = Excess(coef[r], rhs[r], y)
    BY <1>2, <1>5, <2>1 DEF Traced
  <2>3. Sum(e[k], y) = c[k]
    <3>1. CASE k < lead
      BY <2>1, <3>1
    <3>2. CASE k >= lead /\ c[k] = Zero
      BY <1>3, <3>2, SumNone
    <3> QED BY <1>1, <1>7, <3>1, <3>2 DEF Row
  <2>4. Excess(coef[r], rhs[r], y) = Zero
    BY <2>2, <2>3, ExcessZero DEF Excess
  <2> QED BY <2>4, ExcessZero DEF Excess
<1> QED BY <1>1, <1>6, <1>7 DEF Row

(* One column of the elimination.                                          *)
LEMMA EliminateTrace ==
    ASSUME SolverInv, TraceInv, Eliminate
    PROVE  TraceInv'
PROOF
<1>1. /\ Cols \in Nat \ {0} /\ Rows \in Nat /\ col \in Nat /\ col <= Cols /\ col' = col + 1
      /\ e \in [Row -> SUBSET Col] /\ c \in [Row -> Value] /\ lead \in 1..(Rows+1)
      /\ UNCHANGED given
      /\ coef' \in [Row -> SUBSET Col] /\ rhs' \in [Row -> Value]
  BY SizeAssumption DEF SolverInv, SolverTypes, TraceInv, Eliminate, given
<1>2. PICK own \in [Row -> Row], from \in [Row -> SUBSET Row] : Traced(coef, rhs, own, from, e, c, lead)
  BY <1>1 DEF TraceInv
<1>3. \A l \in Row : l < lead => e[l] # {}
  BY <1>1 DEF TraceInv
<1>4. CASE \A p \in lead..Rows : ~Nonzero(p)
  <2>1. UNCHANGED <<e, c, lead>>
    BY <1>4 DEF Eliminate
  <2>2. CASE col < Cols
    <3>2. Traced(coef, rhs, own, from, e, c, lead)'
      BY <1>1, <1>2, <2>1 DEF given
    <3> QED BY <1>1, <1>3, <2>1, <2>2, <3>2 DEF TraceInv, Echelon
  <2>3. CASE col = Cols
    <3>1. \A r \in Row : Contradicted(coef, rhs, r)' \/ Follows(coef, rhs, e, c, r)'
      BY <1>1, <2>1, <2>3, SettleTrace
    <3> QED BY <1>1, <2>3, <3>1 DEF TraceInv
  <2> QED BY <1>1, <2>2, <2>3
<1>5. CASE \E p \in lead..Rows : Nonzero(p)
  <2>1. PICK p \in lead..Rows :
          /\ Nonzero(p)
          /\ LET f == Swapped(e, p, lead)
                 g == Swapped(c, p, lead)
             IN  /\ e' = [i \in Row |-> IF i \in Below(p) THEN Add(f[i], f[lead]) ELSE f[i]]
                 /\ c' = [i \in Row |-> IF i \in Below(p) THEN Multiple(g[i], g[lead]) ELSE g[i]]
          /\ lead' = lead + 1
    BY <1>5 DEF Eliminate
  <2> DEFINE f == Swapped(e, p, lead)
             g == Swapped(c, p, lead)
             B == Below(p)
  <2>2. p \in Row /\ lead \in Row /\ p >= lead
    BY <1>1 DEF Row
  <2>3. f \in [Row -> SUBSET Col] /\ g \in [Row -> Value] /\ \A i \in B : i > lead
    <3>1. \A i \in B : i > lead
      BY <1>1 DEF Below
    <3> QED BY <1>1, <2>2, <3>1, SwappedType
  <2>4. ASSUME NEW i \in Row
        PROVE  f[i] = e[Other(i, p, lead)] /\ g[i] = c[Other(i, p, lead)]
    <3>1. DOMAIN e = Row /\ DOMAIN c = Row
      BY <1>1
    <3> QED BY <2>2, <3>1, SwappedOther
  <2>5. /\ \A i \in Row : Other(i, p, lead) \in Row
        /\ \A i \in Row : i >= lead <=> Other(i, p, lead) >= lead
        /\ \A i \in Row : i < lead => Other(i, p, lead) = i
    BY <1>1, <2>2, OtherFacts
  <2>6. /\ e' = [i \in Row |-> IF i \in B THEN Add(f[i], f[lead]) ELSE f[i]]
        /\ c' = [i \in Row |-> IF i \in B THEN Multiple(g[i], g[lead]) ELSE g[i]]
        /\ lead' = lead + 1
    BY <2>1
  <2>7. CASE col < Cols
    <3>1. Traced(coef, rhs, Swapped(own, p, lead), Swapped(from, p, lead), f, g, lead)
      BY <1>1, <1>2, <2>2, SwapTraced
    <3> DEFINE own2 == Swapped(own, p, lead)
               from1 == Swapped(from, p, lead)
               from2 == [i \in Row |-> IF i \in B THEN Add(from1[i], from1[lead]) ELSE from1[i]]
    <3> HIDE DEF f, g, B, own2, from1
    <3>2. c' = [i \in Row |-> IF i \in B THEN Add(g[i], g[lead]) ELSE g[i]]
      BY <2>6, <2>7 DEF Multiple
    <3>3. Traced(coef, rhs, own2, from1, f, g, lead)
      BY <3>1 DEF own2, from1
    <3>4. Traced(coef, rhs, own2, from2, e', c', lead')
      <4>1. f \in [Row -> SUBSET Col] /\ lead \in Row /\ (\A i \in B : i > lead)
            /\ from2 = [i \in Row |-> from2[i]]
        BY <2>2, <2>3
      <4>2. AddsTo(B, lead, f, e') /\ AddsTo(B, lead, g, c') /\ AddsTo(B, lead, from1, from2)
        BY <2>6, <3>2 DEF AddsTo
      <4>3. lead' = lead + 1
        BY <2>6
      <4> HIDE DEF from2
      <4> QED BY <3>3, <4>1, <4>2, <4>3, AddTraced
    <3>5. own2 \in [Row -> Row] /\ from2 \in [Row -> SUBSET Row]
      BY <3>4 DEF Traced
    <3>6. PICK o \in [Row -> Row], s \in [Row -> SUBSET Row] : Traced(coef, rhs, o, s, e', c', lead')
      BY <3>4, <3>5
    <3>8. Traced(coef, rhs, o, s, e, c, lead)'
      BY <1>1, <3>6 DEF given
    <3>7. \A l \in Row : l < lead' => e'[l] # {}
      <4> SUFFICES ASSUME NEW l \in Row, l < lead + 1 PROVE e'[l] # {}
        BY <2>6
      <4>1. l \notin B /\ l \in Int /\ lead \in Int
        BY <1>1, <2>3 DEF Row
      <4>2. e'[l] = e[Other(l, p, lead)]
        BY <2>4, <2>6, <4>1
      <4>3. CASE l < lead
        BY <1>3, <2>5, <4>2, <4>3
      <4>4. CASE l = lead
        BY <2>1, <2>7, <4>2, <4>4 DEF Other, Nonzero
      <4> QED BY <4>1, <4>3, <4>4
    <3> QED BY <1>1, <2>7, <3>7, <3>8 DEF TraceInv, Echelon
  <2>8. CASE col = Cols
    <3>1. ASSUME NEW k \in Row, k >= lead PROVE e[k] = {}
      <4> SUFFICES ASSUME NEW j \in e[k] PROVE FALSE
        OBVIOUS
      <4>1. k \in lead..Rows /\ j \in Col
        BY <1>1, <3>1 DEF Row
      <4>2. Cols <= j
        BY <2>8, <4>1 DEF SolverInv, Cleared
      <4> QED BY <1>1, <4>1, <4>2 DEF Col
    <3> HIDE DEF f, g, B
    <3>2. ASSUME NEW i \in Row PROVE e'[i] = e[i]
      <4>1. CASE i >= lead
        <5>1. e[i] = {} /\ e[Other(i, p, lead)] = {}
          BY <2>5, <3>1, <4>1
        <5>2. lead >= lead
          BY <1>1
        <5>3. e[Other(lead, p, lead)] = {}
          BY <2>2, <2>5, <3>1, <5>2
        <5>4. f[i] = {} /\ f[lead] = {}
          BY <2>2, <2>4, <5>1, <5>3
        <5> QED BY <2>6, <5>1, <5>4 DEF Add
      <4>2. CASE i < lead
        <5>1. i \notin B
          BY <1>1, <2>3, <4>2 DEF Row
        <5> QED BY <2>4, <2>5, <2>6, <4>2, <5>1
      <4> QED BY <1>1, <4>1, <4>2 DEF Row
    <3>3. ASSUME NEW i \in Row, i < lead PROVE c'[i] = c[i]
      <4>1. i \notin B
        BY <1>1, <2>3, <3>3 DEF Row
      <4> QED BY <2>4, <2>5, <2>6, <3>3, <4>1
    <3>4. \A r \in Row : Contradicted(coef, rhs, r)' \/ Follows(coef, rhs, e, c, r)'
      BY <1>1, <2>8, <3>2, <3>3, SettleTrace
    <3> QED BY <1>1, <2>8, <3>4 DEF TraceInv
  <2> QED BY <1>1, <2>7, <2>8
<1> QED BY <1>4, <1>5

(* The back substitution leaves the matrix alone.                          *)
LEMMA NextTrace == SolverInv /\ TraceInv /\ [Next]_vars => TraceInv'
PROOF
<1> SUFFICES ASSUME SolverInv, TraceInv, [Next]_vars PROVE TraceInv'
  OBVIOUS
<1>1. CASE Eliminate
  BY <1>1, EliminateTrace
<1>2. CASE UNCHANGED <<given, matrix>>
  <2>1. /\ coef' = coef /\ rhs' = rhs
        /\ e' = e /\ c' = c /\ col' = col /\ lead' = lead
    BY <1>2 DEF given, matrix
  <2> QED BY <2>1 DEF TraceInv, Echelon
<1> QED BY <1>1, <1>2 DEF Next, Substitute, Done, vars

(* check_encoding finds nothing to complain of but contradictions: in      *)
(* whatever order gauss takes the rows and whatever the random values, an  *)
(* equation that does not hold when solver returns is one of a set whose   *)
(* coefficients cancel and whose right-hand sides do not                   *)
(* (linear_solver.cpp 18-60).                                              *)
THEOREM DamageConfined == Spec => []Confined
<1>1. SolverInv /\ TraceInv => Confined
  <2> SUFFICES ASSUME SolverInv, TraceInv, Echelon, row = 1, NEW r \in Row
               PROVE  Sum(coef[r], x) = rhs[r] \/ Contradicted(coef, rhs, r)
    BY DEF Confined, Contradicted
  <2>1. x \in [Col -> Value] /\ \A i \in Row : e[i] # {} => Sum(e[i], x) = c[i]
    BY DEF SolverInv, SolverTypes, RowsHold, Row
  <2> QED BY <2>1 DEF TraceInv, Follows
<1> QED BY <1>1, InitSolver, NextSolver, InitTrace, NextTrace, PTL DEF Spec
-----------------------------------------------------------------------------
(* y satisfies the equations with coefficients E and right-hand sides d.   *)
Satisfies(E, d, y) == \A r \in Row : Sum(E[r], y) = d[r]

Solvable == \E y \in [Col -> Value] : Satisfies(coef, rhs, y)

(* The elimination neither gains nor loses a solution.  Only the step that *)
(* treats the right-hand sides as a column does, and it has nothing to     *)
(* eliminate in a system that has a solution.                              *)
SolutionsKept ==
    Solvable =>
        \A y \in [Col -> Value] : Satisfies(e, c, y) <=> Satisfies(coef, rhs, y)

LEMMA SwapSatisfies ==
    ASSUME NEW a \in [Row -> SUBSET Col], NEW v \in [Row -> Value],
           NEW p \in Row, NEW q \in Row, NEW y
    PROVE  Satisfies(Swapped(a, p, q), Swapped(v, p, q), y) <=> Satisfies(a, v, y)
PROOF
<1>1. ASSUME NEW i \in Row
      PROVE  Swapped(a, p, q)[i] = a[Other(i, p, q)] /\ Swapped(v, p, q)[i] = v[Other(i, p, q)]
  <2>1. DOMAIN a = Row /\ DOMAIN v = Row
    OBVIOUS
  <2> QED BY <2>1, SwappedOther
<1>2. \A i \in Row : Other(i, p, q) \in Row /\ Other(Other(i, p, q), p, q) = i
  BY DEF Other
<1>3. Satisfies(Swapped(a, p, q), Swapped(v, p, q), y)
        <=> \A i \in Row : Sum(a[Other(i, p, q)], y) = v[Other(i, p, q)]
  BY <1>1 DEF Satisfies
<1> QED BY <1>2, <1>3 DEF Satisfies

(* A row is added to others, which it can be taken out of again.           *)
LEMMA AddSatisfies ==
    ASSUME NEW a \in [Row -> SUBSET Col], NEW v, NEW b, NEW u, NEW B, NEW n \in Row, n \notin B,
           AddsTo(B, n, a, b), AddsTo(B, n, v, u), NEW y
    PROVE  Satisfies(b, u, y) <=> Satisfies(a, v, y)
PROOF
<1>1. b[n] = a[n] /\ u[n] = v[n]
  BY DEF AddsTo
<1>2. ASSUME NEW i \in Row, Sum(a[n], y) = v[n]
      PROVE  Sum(b[i], y) = u[i] <=> Sum(a[i], y) = v[i]
  <2>1. CASE i \in B
    <3>1. b[i] = Add(a[i], a[n]) /\ u[i] = Add(v[i], v[n])
      BY <2>1 DEF AddsTo
    <3>2. IsFiniteSet(a[i]) /\ IsFiniteSet(a[n])
      BY FiniteParts
    <3>3. Excess(b[i], u[i], y) = Excess(a[i], v[i], y)
      BY <1>2, <3>1, <3>2, ExcessAdd
    <3> QED BY <3>3, ExcessZero DEF Excess
  <2>2. CASE i \notin B
    BY <2>2 DEF AddsTo
  <2> QED BY <2>1, <2>2
<1> QED BY <1>1, <1>2 DEF Satisfies

LEMMA InitKept == Init => SolutionsKept
BY DEF Init, SolutionsKept

LEMMA EliminateKept ==
    ASSUME SolverInv, SolutionsKept, Eliminate
    PROVE  SolutionsKept'
PROOF
<1>1. /\ Cols \in Nat \ {0} /\ Rows \in Nat /\ col \in Nat /\ col <= Cols
      /\ e \in [Row -> SUBSET Col] /\ c \in [Row -> Value] /\ lead \in 1..(Rows+1)
      /\ coef' = coef /\ rhs' = rhs
  BY SizeAssumption DEF SolverInv, SolverTypes, Eliminate, given
<1> SUFFICES ASSUME Solvable, NEW y \in [Col -> Value]
             PROVE  Satisfies(e', c', y) <=> Satisfies(e, c, y)
  BY <1>1 DEF SolutionsKept, Solvable, Satisfies
<1>2. CASE \A p \in lead..Rows : ~Nonzero(p)
  BY <1>2 DEF Eliminate
<1>3. CASE \E p \in lead..Rows : Nonzero(p)
  <2>1. PICK p \in lead..Rows :
          /\ Nonzero(p)
          /\ LET f == Swapped(e, p, lead)
                 g == Swapped(c, p, lead)
             IN  /\ e' = [i \in Row |-> IF i \in Below(p) THEN Add(f[i], f[lead]) ELSE f[i]]
                 /\ c' = [i \in Row |-> IF i \in Below(p) THEN Multiple(g[i], g[lead]) ELSE g[i]]
    BY <1>3 DEF Eliminate
  <2> DEFINE f == Swapped(e, p, lead)
             g == Swapped(c, p, lead)
             B == Below(p)
  <2>2. p \in Row /\ lead \in Row /\ p \in Int
    BY <1>1 DEF Row
  <2>3. CASE col < Cols
    <3>1. f \in [Row -> SUBSET Col] /\ lead \notin B
      <4>1. f \in [Row -> SUBSET Col]
        BY <1>1, <2>2, SwappedType
      <4> QED BY <1>1, <4>1 DEF Below
    <3>2. Satisfies(f, g, y) <=> Satisfies(e, c, y)
      BY <1>1, <2>2, SwapSatisfies
    <3>3. AddsTo(B, lead, f, e') /\ AddsTo(B, lead, g, c')
      <4> HIDE DEF f, g, B
      <4>1. /\ e' = [i \in Row |-> IF i \in B THEN Add(f[i], f[lead]) ELSE f[i]]
            /\ c' = [i \in Row |-> IF i \in B THEN Add(g[i], g[lead]) ELSE g[i]]
        BY <2>1, <2>3 DEF Multiple, f, g, B
      <4> QED BY <4>1 DEF AddsTo
    <3> HIDE DEF f, g, B
    <3>4. Satisfies(e', c', y) <=> Satisfies(f, g, y)
      BY <2>2, <3>1, <3>3, AddSatisfies
    <3> QED BY <3>2, <3>4
  <2>4. CASE col = Cols
    <3>1. e[p] = {}
      <4> SUFFICES ASSUME NEW j \in e[p] PROVE FALSE
        OBVIOUS
      <4>1. j \in Col /\ Cols <= j
        BY <1>1, <2>2, <2>4 DEF SolverInv, Cleared
      <4> QED BY <1>1, <4>1 DEF Col
    <3>2. PICK z \in [Col -> Value] : Satisfies(e, c, z)
      BY DEF Solvable, SolutionsKept
    <3>3. c[p] = Zero
      BY <2>2, <3>1, <3>2, SumNone DEF Satisfies
    <3>4. ~(col < Cols)
      BY <1>1, <2>4
    <3>5. ~Nonzero(p)
      BY <3>3, <3>4 DEF Nonzero
    <3> QED BY <2>1, <3>5
  <2> QED BY <1>1, <2>3, <2>4
<1> QED BY <1>2, <1>3

LEMMA NextKept == SolverInv /\ SolutionsKept /\ [Next]_vars => SolutionsKept'
PROOF
<1> SUFFICES ASSUME SolverInv, SolutionsKept, [Next]_vars PROVE SolutionsKept'
  OBVIOUS
<1>1. CASE Eliminate
  BY <1>1, EliminateKept
<1>2. CASE UNCHANGED <<given, matrix>>
  <2>1. coef' = coef /\ rhs' = rhs /\ e' = e /\ c' = c
    BY <1>2 DEF given, matrix
  <2> QED BY <2>1 DEF SolutionsKept, Solvable, Satisfies
<1> QED BY <1>1, <1>2 DEF Next, Substitute, Done, vars

(* A system that has a solution is solved, whatever its rank, the order in *)
(* which gauss takes the rows and the random values: the rows without      *)
(* coefficients, for which the code writes to x[0], are empty equations in *)
(* it (linear_solver.cpp 18-48).  This is what Okvs takes from the solver  *)
(* (Answers), and check_encoding then finds nothing (50-60).               *)
THEOREM SolvableSolved == Spec => [](Solvable /\ Echelon /\ row = 1 => Satisfies(coef, rhs, x))
<1>1. SolverInv /\ SolutionsKept => (Solvable /\ Echelon /\ row = 1 => Satisfies(coef, rhs, x))
  <2> SUFFICES ASSUME SolverInv, SolutionsKept, Solvable, row = 1
               PROVE  Satisfies(e, c, x)
    BY DEF SolutionsKept, SolverInv, SolverTypes
  <2>1. \A i \in Row : e[i] # {} => Sum(e[i], x) = c[i]
    BY DEF SolverInv, RowsHold, Row
  <2>2. PICK z \in [Col -> Value] : Satisfies(e, c, z)
    BY DEF Solvable, SolutionsKept
  <2>3. ASSUME NEW i \in Row, e[i] = {} PROVE Sum(e[i], x) = c[i]
    BY <2>2, <2>3, SumNone DEF Satisfies
  <2> QED BY <2>1, <2>3 DEF Satisfies
<1> QED BY <1>1, InitSolver, NextSolver, InitKept, NextKept, PTL DEF Spec
=============================================================================
