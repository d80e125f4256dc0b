------------------------ MODULE StarDictionaryProofs ------------------------
(***************************************************************************)
(* Proofs about StarDictionary, for any number of bins and threads: that   *)
(* the threads share the bins (PlaceInv), that the results of peeling are  *)
(* combined to the failed bin (FailInv), and that encoded keys decode      *)
(* (DecInv).                                                               *)
(***************************************************************************)
EXTENDS StarDictionary, FiniteSetTheorems, SequenceTheorems, WellFoundedInduction, TLAPS

(* A thread's next bin, from its first to the one behind its last; threads *)
(* that are given no bin stay where they are.                              *)
PlaceInv ==
    /\ at \in [Thread -> Int]
    /\ \A t \in Thread : Start(t) <= at[t] /\ (at[t] <= End(t) \/ at[t] = Start(t))

(* The partition.                                                          *)
LEMMA Product ==
    ASSUME NEW a \in Nat, NEW b \in Nat, NEW n \in Nat, a <= b
    PROVE  a * n <= b * n
OBVIOUS

LEMMA Parts ==
    /\ Each \in Nat \ {0} /\ Threads \in Nat \ {0} /\ Q \in Nat \ {0}
    /\ Q <= Threads * Each
PROOF
<1>1. Q \in Nat \ {0} /\ NumThreads \in Nat \ {0}
  BY StarAssumption
<1>2. CASE Q <= NumThreads
  BY <1>1, <1>2 DEF Each, Threads
<1>3. CASE ~(Q <= NumThreads)
  <2> DEFINE d == (Q + NumThreads - 1) \div NumThreads
             r == (Q + NumThreads - 1) % NumThreads
  <2>1. d \in Int /\ r \in 0..(NumThreads-1) /\ Q + NumThreads - 1 = NumThreads * d + r
    BY <1>1
  <2>2. d >= 1
    BY <1>1, <1>3
  <2>3. Each = d /\ Threads = NumThreads
    BY <1>3 DEF Each, Threads
  <2> HIDE DEF d, r
  <2>4. Q <= NumThreads * d
    BY <1>1, <2>1
  <2> QED BY <1>1, <2>1, <2>2, <2>3, <2>4
<1> QED BY <1>1, <1>2, <1>3

LEMMA Bounds ==
    /\ \A t \in Thread : Start(t) \in Nat /\ End(t) \in Nat /\ End(t) <= Q
    /\ \A s, t \in Thread : s < t => End(s) <= Start(t)
    /\ \A b \in Bin : \E t \in Thread : Start(t) <= b /\ b < End(t)
PROOF
<1>1. /\ Each \in Nat \ {0} /\ Threads \in Nat \ {0} /\ Q \in Nat \ {0}
      /\ Q <= Threads * Each
  BY Parts
<1> DEFINE times(t) == t * Each
<1>2. \A t \in Nat : /\ times(t) \in Nat /\ times(t+1) = times(t) + Each
                     /\ Start(t) = times(t)
                     /\ End(t) = IF times(t+1) <= Q THEN times(t+1) ELSE Q
  BY <1>1 DEF Start, End
<1>3. \A s, t \in Nat : s <= t => times(s) <= times(t)
  BY <1>1, Product
<1> HIDE DEF times
<1>4. \A t \in Thread : t \in Nat /\ t + 1 \in Nat
  BY <1>1 DEF Thread
<1>5. \A t \in Thread : Start(t) \in Nat /\ End(t) \in Nat /\ End(t) <= Q
  BY <1>1, <1>2, <1>4
<1>6. ASSUME NEW s \in Thread, NEW t \in Thread, s < t PROVE End(s) <= Start(t)
  <2>1. s \in Nat /\ t \in Nat /\ s + 1 <= t /\ s + 1 \in Nat
    BY <1>4, <1>6
  <2>2. times(s+1) <= times(t) /\ times(s+1) \in Nat
    BY <1>2, <1>3, <2>1
  <2> QED BY <1>1, <1>2, <2>1, <2>2
<1>7. ASSUME NEW b \in Bin PROVE \E t \in Thread : Start(t) <= b /\ b < End(t)
  <2> DEFINE t == b \div Each
             r == b % Each
  <2>1. b \in Nat /\ b < Q
    BY <1>1 DEF Bin
  <2>2. t \in Nat /\ r \in 0..(Each-1) /\ b = Each * t + r
    BY <1>1, <2>1
  <2> HIDE DEF t, r
  <2>3. times(t) <= b /\ b < times(t) + Each
    <3>1. times(t) = Each * t
      BY <1>1, <2>2 DEF times
    <3> QED BY <1>1, <2>1, <2>2, <3>1
  <2>4. t < Threads
    <3> SUFFICES ASSUME Threads <= t PROVE FALSE
      BY <1>1, <2>2
    <3>1. times(Threads) <= times(t)
      BY <1>1, <1>3, <2>2
    <3>2. times(Threads) = Threads * Each
      BY DEF times
    <3>3. times(Threads) \in Nat /\ times(t) \in Nat
      BY <1>1, <1>2, <2>2
    <3> QED BY <1>1, <2>1, <2>3, <3>1, <3>2, <3>3
  <2>5. t \in Thread
    BY <1>1, <2>2, <2>4 DEF Thread
  <2>6. Start(t) <= b /\ b < End(t)
    BY <1>1, <1>2, <2>1, <2>2, <2>3
  <2> QED BY <2>5, <2>6
<1> QED BY <1>5, <1>6, <1>7
-----------------------------------------------------------------------------
LEMMA StartingPlaces == at' = Starting => PlaceInv'
BY Bounds DEF Starting, PlaceInv

LEMMA AdvancePlaces ==
    ASSUME PlaceInv, NEW t \in Thread, Advance(t)
    PROVE  PlaceInv'
PROOF
<1>1. at[t] < End(t) /\ at' = [at EXCEPT ![t] = @ + 1]
  BY DEF Advance
<1>2. \A s \in Thread : Start(s) \in Nat /\ End(s) \in Nat /\ at[s] \in Int
  BY Bounds DEF PlaceInv
<1>3. at' \in [Thread -> Int]
  BY <1>1, <1>2 DEF PlaceInv
<1>4. ASSUME NEW s \in Thread
      PROVE  Start(s) <= at'[s] /\ (at'[s] <= End(s) \/ at'[s] = Start(s))
  <2>1. CASE s = t
    BY <1>1, <1>2, <2>1 DEF PlaceInv
  <2>2. CASE s # t
    BY <1>1, <1>2, <2>2 DEF PlaceInv
  <2> QED BY <2>1, <2>2
<1> QED BY <1>3, <1>4 DEF PlaceInv

LEMMA PlaceInductive == Spec => []PlaceInv
PROOF
<1>1. Init => PlaceInv
  BY Bounds DEF Init, Starting, PlaceInv
<1>2. PlaceInv /\ [Next]_vars => PlaceInv'
  <2> SUFFICES ASSUME PlaceInv, [Next]_vars PROVE PlaceInv'
    OBVIOUS
  <2>1. ASSUME at' = at PROVE PlaceInv'
    BY <2>1 DEF PlaceInv
  <2>2. CASE UNCHANGED vars
    BY <2>1, <2>2 DEF vars, work
  <2>3. ASSUME NEW input \in Input, SetKeysAndVals(input) PROVE PlaceInv'
    BY <2>1, <2>3 DEF SetKeysAndVals
  <2>4. CASE InitTables \/ Return
    BY <2>1, <2>4 DEF InitTables, Return
  <2>8. CASE TwoFailures
    <3>1. at' = at
      BY <2>8, Zenon DEF TwoFailures
    <3> QED BY <2>1, <3>1
  <2>5. CASE Encode \/ Rekey
    BY <2>5, StartingPlaces DEF Encode, Rekey
  <2>7. CASE GenerateCenter
    <3>1. at' = Starting
      BY <2>7, Zenon DEF GenerateCenter
    <3> QED BY <3>1, StartingPlaces
  <2>6. ASSUME NEW t \in Thread, Peel(t) \/ SetNewVals(t) \/ Unpeel(t) PROVE PlaceInv'
    BY <2>6, AdvancePlaces DEF Peel, SetNewVals, Unpeel
  <2> QED BY <2>2, <2>3, <2>4, <2>5, <2>6, <2>7, <2>8 DEF Next
<1> QED BY <1>1, <1>2, PTL DEF Spec

LEMMA PlacesShare == PlaceInv => NoRace
PROOF
<1> SUFFICES ASSUME PlaceInv PROVE NoRace
  OBVIOUS
<1> DEFINE bins(t) == Start(t)..(IF at[t] < End(t) THEN at[t] ELSE at[t] - 1)
<1>1. \A t \in Thread : /\ Start(t) \in Nat /\ End(t) \in Nat /\ End(t) <= Q /\ at[t] \in Int
                        /\ Start(t) <= at[t] /\ (at[t] <= End(t) \/ at[t] = Start(t))
  BY Bounds DEF PlaceInv
<1>2. \A t \in Thread : \A b \in bins(t) : b \in Nat /\ Start(t) <= b /\ b < End(t)
  BY <1>1
<1>3. ASSUME NEW s \in Thread, NEW t \in Thread, s # t PROVE bins(s) \cap bins(t) = {}
  <2>1. ASSUME NEW p \in Thread, NEW q \in Thread, p < q PROVE bins(p) \cap bins(q) = {}
    <3>1. End(p) <= Start(q)
      BY <2>1, Bounds
    <3>2. End(p) \in Nat /\ Start(q) \in Nat
      BY <1>1
    <3> HIDE DEF bins
    <3> QED BY <1>2, <3>1, <3>2
  <2>2. s < t \/ t < s
    BY <1>3, Parts DEF Thread
  <2> QED BY <2>1, <2>2
<1>4. ASSUME Joined PROVE Bin = UNION {bins(t) : t \in Thread}
  <2>1. \A t \in Thread : at[t] >= End(t)
    BY <1>4 DEF Joined
  <2>2. ASSUME NEW b \in Bin PROVE \E t \in Thread : b \in bins(t)
    <3>1. PICK t \in Thread : Start(t) <= b /\ b < End(t)
      BY Bounds
    <3>2. b \in Nat
      BY Parts DEF Bin
    <3>3. at[t] = End(t)
      BY <1>1, <2>1, <3>1, <3>2
    <3> QED BY <1>1, <3>1, <3>2, <3>3
  <2>3. \A t \in Thread : bins(t) \subseteq Bin
    <3> SUFFICES ASSUME NEW t \in Thread, NEW b \in bins(t) PROVE b \in Bin
      OBVIOUS
    <3>1. b \in Nat /\ b < End(t) /\ End(t) <= Q /\ End(t) \in Nat /\ Q \in Nat
      BY <1>1, <1>2, Parts
    <3> QED BY <3>1 DEF Bin
  <2> HIDE DEF bins
  <2> QED BY <2>2, <2>3
<1> QED BY <1>3, <1>4 DEF NoRace

(* However many bins and threads there are, no two threads of a phase get  *)
(* the same bin, and between them they get every bin (paxos.cpp 1359-1376, *)
(* 1444-1473, 1488-1537).                                                  *)
THEOREM BinsShared == Spec => []NoRace
BY PlaceInductive, PlacesShare, PTL
-----------------------------------------------------------------------------
(* How the threads' results are combined, and in closed form.              *)
Combined == FoldFunction(LAMBDA i, f : Noted(f, i), -1, failures)

IsFold(iter) ==
    iter = [s \in SUBSET DOMAIN failures |->
              IF s = {} THEN -1
              ELSE LET x == CHOOSE x \in s : TRUE
                   IN  Noted(iter[s \ {x}], failures[x])]

Reporting(s) == {t \in s : failures[t] # -1}

Outcome == [s \in SUBSET DOMAIN failures |->
    IF Reporting(s) = {} THEN -1
    ELSE IF \E t \in s : Reporting(s) = {t}
           THEN failures[CHOOSE t \in s : Reporting(s) = {t}] ELSE -2]

LEMMA OutcomeIsFold == IsFold(Outcome)
PROOF
<1> DEFINE D == DOMAIN failures
           step(s) == IF s = {} THEN -1
                      ELSE LET x == CHOOSE x \in s : TRUE
                           IN  Noted(Outcome[s \ {x}], failures[x])
<1>1. ASSUME NEW s \in SUBSET D PROVE Outcome[s] = step(s)
  <2>1. CASE s = {}
    BY <2>1 DEF Outcome, Reporting
  <2>2. CASE s # {}
    <3> DEFINE x == CHOOSE x \in s : TRUE
               r == s \ {x}
    <3>1. x \in s /\ r \in SUBSET D
      BY <2>2
    <3>2. step(s) = Noted(Outcome[r], failures[x])
      BY <2>2
    <3> HIDE DEF x, step
    <3>3. CASE failures[x] = -1
      <4>1. Reporting(s) = Reporting(r)
        BY <3>1, <3>3 DEF Reporting
      <4>2. \A t : Reporting(s) = {t} => t \in s /\ t \in r
        BY <4>1 DEF Reporting
      <4>3. Outcome[s] = Outcome[r]
        <5>1. CASE \E t \in s : Reporting(s) = {t}
          <6>1. PICK t : Reporting(s) = {t}
            BY <5>1
          <6>2. (CHOOSE u \in s : Reporting(s) = {u}) = t /\ (CHOOSE u \in r : Reporting(r) = {u}) = t
            BY <4>1, <4>2, <6>1
          <6> QED BY <3>1, <4>1, <4>2, <6>1, <6>2 DEF Outcome
        <5>2. CASE ~ \E t \in s : Reporting(s) = {t}
          BY <3>1, <4>1, <4>2, <5>2 DEF Outcome
        <5> QED BY <5>1, <5>2
      <4> QED BY <3>2, <3>3, <4>3 DEF Noted
    <3>4. CASE failures[x] # -1
      <4>1. Reporting(s) = Reporting(r) \cup {x} /\ x \notin Reporting(r)
        BY <3>1, <3>4 DEF Reporting
      <4>2. CASE Reporting(r) = {}
        <5>1. Reporting(s) = {x} /\ (CHOOSE u \in s : Reporting(s) = {u}) = x
          BY <3>1, <4>1, <4>2
        <5>2. Outcome[s] = failures[x]
          BY <3>1, <5>1 DEF Outcome
        <5>3. Outcome[r] = -1
          BY <3>1, <4>2 DEF Outcome
        <5> QED BY <3>2, <3>4, <5>2, <5>3 DEF Noted
      <4>3. CASE Reporting(r) # {}
        <5>1. Outcome[s] = -2
          BY <3>1, <4>1, <4>3 DEF Outcome
        <5>2. Outcome[r] # -1
          <6>1. CASE \E t \in r : Reporting(r) = {t}
            <7>1. PICK t \in r : Reporting(r) = {t}
              BY <6>1
            <7>2. (CHOOSE u \in r : Reporting(r) = {u}) = t /\ failures[t] # -1
              BY <7>1 DEF Reporting
            <7> QED BY <3>1, <4>3, <6>1, <7>2 DEF Outcome
          <6>2. CASE ~ \E t \in r : Reporting(r) = {t}
            BY <3>1, <4>3, <6>2 DEF Outcome
          <6> QED BY <6>1, <6>2
        <5> QED BY <3>2, <3>4, <5>1, <5>2 DEF Noted
      <4> QED BY <4>2, <4>3
    <3> QED BY <3>3, <3>4
  <2> QED BY <2>1, <2>2
<1>2. Outcome = [s \in SUBSET D |-> step(s)]
  <2> HIDE DEF step
  <2>1. Outcome = [s \in SUBSET D |-> Outcome[s]]
    BY DEF Outcome
  <2> QED BY <1>1, <2>1
<1> QED BY <1>2 DEF IsFold

LEMMA FoldUnique ==
    ASSUME IsFiniteSet(DOMAIN failures), NEW f, NEW g, IsFold(f), IsFold(g)
    PROVE  f[DOMAIN failures] = g[DOMAIN failures]
PROOF
<1> DEFINE D == DOMAIN failures
           Differ == {s \in SUBSET D : f[s] # g[s]}
<1>1. \A s \in SUBSET D : f[s] = IF s = {} THEN -1
                      ELSE Noted(f[s \ {CHOOSE x \in s : TRUE}], failures[CHOOSE x \in s : TRUE])
  BY Zenon DEF IsFold
<1>2. \A s \in SUBSET D : g[s] = IF s = {} THEN -1
                      ELSE Noted(g[s \ {CHOOSE x \in s : TRUE}], failures[CHOOSE x \in s : TRUE])
  BY Zenon DEF IsFold
<1>3. SUFFICES ASSUME Differ # {} PROVE FALSE
  OBVIOUS
<1>4. IsWellFoundedOn(StrictSubsetOrdering(D), SUBSET D)
  BY FS_StrictSubsetOrderingWellFounded, FS_FiniteSubsetsOfFinite
<1>5. PICK s \in Differ : \A r \in Differ : <<r, s>> \notin StrictSubsetOrdering(D)
  <2>1. Differ \subseteq SUBSET D
    OBVIOUS
  <2> HIDE DEF Differ, D
  <2> QED BY <1>3, <1>4, <2>1, WFMin
<1>6. s \in SUBSET D /\ f[s] # g[s]
  OBVIOUS
<1>7. s # {}
  BY <1>1, <1>2, <1>6
<1> DEFINE x == CHOOSE x \in s : TRUE
<1>8. x \in s
  BY <1>7
<1>9. f[s \ {x}] # g[s \ {x}]
  BY <1>1, <1>2, <1>6, <1>7, Zenon
<1>10. s \ {x} \in Differ /\ <<s \ {x}, s>> \in StrictSubsetOrdering(D)
  <2> HIDE DEF x
  <2>1. s \ {x} \in SUBSET D /\ s \ {x} # s
    BY <1>6, <1>8
  <2> QED BY <1>6, <1>9, <2>1 DEF StrictSubsetOrdering
<1> QED BY <1>5, <1>10

LEMMA CombinedOutcome ==
    ASSUME IsFiniteSet(DOMAIN failures)
    PROVE  Combined = Outcome[DOMAIN failures]
PROOF
<1>1. Combined = (CHOOSE iter : IsFold(iter))[DOMAIN failures]
  BY Zenon DEF Combined, FoldFunction, FoldFunctionOnSet, MapThenFoldSet, IsFold
<1>2. IsFold(CHOOSE iter : IsFold(iter))
  BY OutcomeIsFold, Zenon
<1> QED BY <1>1, <1>2, OutcomeIsFold, FoldUnique

(* v says how many bins F has, and which it is if it is one.               *)
Tells(v, F) ==
    \/ v = -1 /\ F = {}
    \/ v \in Bin /\ F = {v}
    \/ v = -2 /\ \E a, b \in F : a # b

FailedIn(B) == {i \in B : Failed(Cardinality(peeled[i]))}
Done(t) == Start(t)..(at[t] - 1)

(* Each thread's result tells of the bins it has done, and once they have  *)
(* been combined failureIndex tells of all.                                *)
FailInv ==
    /\ DOMAIN peeled = 0..Q
    /\ DOMAIN failures = Thread
    /\ phase = "peel" => \A t \in Thread : Tells(failures[t], FailedIn(Done(t)))
    /\ phase \in {"xor", "unpeel", "returned"} => Tells(failure, FailedIn(Bin))
    /\ phase \in {"xor", "unpeel"} => failure # -2
    /\ phase = "returned" => (returned <=> failure # -2)

LEMMA NotedTells ==
    ASSUME NEW f, NEW F, NEW i \in Bin, Tells(f, F), i \notin F
    PROVE  Tells(Noted(f, i), F \cup {i})
PROOF
<1>1. i \in Nat /\ i # -1 /\ -2 \notin Bin /\ -1 \notin Bin
  BY Parts DEF Bin
<1>2. CASE f = -1 /\ F = {}
  BY <1>1, <1>2 DEF Noted, Tells
<1>3. CASE f \in Bin /\ F = {f}
  <2>1. Noted(f, i) = -2
    BY <1>1, <1>3 DEF Noted
  <2>2. f \in F \cup {i} /\ i \in F \cup {i} /\ f # i
    BY <1>3
  <2> QED BY <2>1, <2>2 DEF Tells
<1>4. CASE f = -2 /\ \E a, b \in F : a # b
  <2>1. Noted(f, i) = -2
    BY <1>1, <1>4 DEF Noted
  <2> QED BY <2>1, <1>4 DEF Tells
<1> QED BY <1>2, <1>3, <1>4 DEF Tells

(* The combination of results that tell of disjoint sets tells of all.     *)
LEMMA OutcomeTells ==
    ASSUME NEW G, DOMAIN failures = Thread,
           \A t \in Thread : Tells(failures[t], G[t]),
           \A s, t \in Thread : s # t => G[s] \cap G[t] = {}
    PROVE  Tells(Outcome[Thread], UNION {G[t] : t \in Thread})
PROOF
<1> DEFINE all == UNION {G[t] : t \in Thread}
           R == Reporting(Thread)
<1>1. -1 \notin Bin /\ -2 \notin Bin /\ -1 # -2
  BY Parts DEF Bin
<1>2. /\ R \subseteq Thread
      /\ \A t \in Thread : t \notin R => G[t] = {}
      /\ \A t \in R : \E a \in G[t] : TRUE
  BY <1>1 DEF Reporting, Tells
<1>3. Thread \in SUBSET DOMAIN failures
  OBVIOUS
<1>4. CASE R = {}
  <2>1. all = {}
    BY <1>2, <1>4
  <2>2. Outcome[Thread] = -1
    BY <1>3, <1>4 DEF Outcome
  <2> QED BY <2>1, <2>2 DEF Tells
<1>5. CASE \E t \in Thread : R = {t}
  <2>1. PICK t \in Thread : R = {t}
    BY <1>5
  <2>2. (CHOOSE u \in Thread : R = {u}) = t
    BY <2>1
  <2>3. Outcome[Thread] = failures[t]
    BY <1>3, <2>1, <2>2 DEF Outcome
  <2>4. all = G[t]
    BY <1>2, <2>1
  <2> QED BY <2>3, <2>4
<1>6. CASE R # {} /\ ~ \E t \in Thread : R = {t}
  <2>1. PICK s \in R, t \in R : s # t
    BY <1>2, <1>6
  <2>2. PICK a \in G[s], b \in G[t] : TRUE
    BY <1>2
  <2>3. a \in all /\ b \in all /\ a # b
    BY <1>2, <2>1, <2>2
  <2>4. Outcome[Thread] = -2
    BY <1>3, <1>6 DEF Outcome
  <2> QED BY <2>3, <2>4 DEF Tells
<1> QED BY <1>4, <1>5, <1>6

LEMMA JoinedDone == PlaceInv /\ Joined => Bin = UNION {Done(t) : t \in Thread}
PROOF
<1> SUFFICES ASSUME PlaceInv, Joined PROVE Bin = UNION {Done(t) : t \in Thread}
  OBVIOUS
<1> DEFINE bins(t) == Start(t)..(IF at[t] < End(t) THEN at[t] ELSE at[t] - 1)
<1>1. \A t \in Thread : at[t] \in Int /\ End(t) \in Int /\ at[t] >= End(t)
  BY Bounds DEF PlaceInv, Joined
<1>2. \A t \in Thread : bins(t) = Done(t)
  BY <1>1 DEF Done
<1>3. Bin = UNION {bins(t) : t \in Thread}
  BY PlacesShare DEF NoRace
<1> HIDE DEF bins
<1> QED BY <1>2, <1>3

LEMMA DoneDisjoint ==
    ASSUME PlaceInv, NEW s \in Thread, NEW t \in Thread, s # t
    PROVE  Done(s) \cap Done(t) = {} /\ (at[t] < End(t) => at[t] \notin Done(s))
PROOF
<1> DEFINE bins(u) == Start(u)..(IF at[u] < End(u) THEN at[u] ELSE at[u] - 1)
<1>1. bins(s) \cap bins(t) = {}
  BY PlacesShare DEF NoRace
<1>2. \A u \in Thread : at[u] \in Int /\ Start(u) \in Int /\ End(u) \in Int /\ Start(u) <= at[u]
  BY Bounds DEF PlaceInv
<1>3. \A u \in Thread : Done(u) \subseteq bins(u)
  BY <1>2 DEF Done
<1>4. at[t] < End(t) => at[t] \in bins(t)
  BY <1>2
<1> HIDE DEF bins
<1> QED BY <1>1, <1>3, <1>4

LEMMA DonePlace == PlaceInv => \A t \in Thread : Done(t) \subseteq Bin
PROOF
<1> SUFFICES ASSUME PlaceInv, NEW t \in Thread, NEW b \in Done(t) PROVE b \in Bin
  OBVIOUS
<1>1. /\ at[t] \in Int /\ Start(t) \in Nat /\ End(t) \in Nat /\ End(t) <= Q /\ Q \in Nat
      /\ at[t] <= End(t) \/ at[t] = Start(t)
  BY Bounds, Parts DEF PlaceInv
<1> QED BY <1>1 DEF Done, Bin

LEMMA PeelFailInv ==
    ASSUME PlaceInv, FailInv, NEW t \in Thread, Peel(t)
    PROVE  FailInv'
PROOF
<1> DEFINE i == at[t]
           failed == Failed(Cardinality(peeled'[i]))
<1>1. /\ phase = "peel" /\ phase' = "peel" /\ i < End(t) /\ at' = [at EXCEPT ![t] = i + 1]
  BY DEF Peel, Advance
<1>2. /\ at \in [Thread -> Int] /\ Start(t) \in Nat /\ Start(t) <= i
      /\ End(t) \in Nat /\ End(t) <= Q /\ Q \in Nat
  BY Bounds, Parts DEF PlaceInv
<1>3. i \in Bin /\ i \in 0..Q /\ i \in Int
  BY <1>1, <1>2 DEF Bin
<1>4. peeled' = [peeled EXCEPT ![i] = peeled'[i]] /\ DOMAIN peeled' = 0..Q
  BY <1>3 DEF Peel, FailInv
<1>5. failures' = IF failed THEN [failures EXCEPT ![t] = Noted(failures[t], i)] ELSE failures
  BY <1>3 DEF Peel, FailInv
<1>6. DOMAIN failures' = Thread
  BY <1>5 DEF FailInv
<1> HIDE DEF failed
<1>7. ASSUME NEW s \in Thread PROVE Tells(failures'[s], FailedIn(Done(s))')
  <2>1. Tells(failures[s], FailedIn(Done(s)))
    BY <1>1 DEF FailInv
  <2>2. CASE s # t
    <3>1. failures'[s] = failures[s]
      BY <1>5, <2>2 DEF FailInv
    <3>2. Done(s)' = Done(s) /\ i \notin Done(s)
      BY <1>1, <1>2, <2>2, DoneDisjoint DEF Done
    <3>3. \A b \in Done(s) : b \in 0..Q
      BY <1>2, DonePlace DEF Bin
    <3>4. FailedIn(Done(s))' = FailedIn(Done(s))
      BY <1>4, <3>2, <3>3 DEF FailedIn, FailInv
    <3> QED BY <2>1, <3>1, <3>4
  <2>3. CASE s = t
    <3>1. Done(t)' = Done(t) \cup {i} /\ i \notin Done(t)
      BY <1>1, <1>2 DEF Done
    <3>2. \A b \in Done(t) : b \in 0..Q
      BY <1>2, DonePlace DEF Bin
    <3>3. FailedIn(Done(t))' = FailedIn(Done(t)) \cup (IF failed THEN {i} ELSE {})
      BY <1>4, <3>1, <3>2 DEF FailedIn, FailInv, failed
    <3>4. i \notin FailedIn(Done(t))
      BY <3>1 DEF FailedIn
    <3>5. CASE failed
      BY <1>3, <1>5, <2>1, <2>3, <3>3, <3>4, <3>5, NotedTells DEF FailInv
    <3>6. CASE ~failed
      BY <1>5, <2>1, <2>3, <3>3, <3>6
    <3> QED BY <3>5, <3>6
  <2> QED BY <2>2, <2>3
<1> QED BY <1>1, <1>4, <1>6, <1>7 DEF FailInv

(* The main thread combines the results of the threads it has joined.      *)
LEMMA CombinedTells ==
    ASSUME PlaceInv, FailInv, phase = "peel", Joined
    PROVE  Tells(Combined, FailedIn(Bin))
PROOF
<1> DEFINE G == [t \in Thread |-> FailedIn(Done(t))]
<1>1. DOMAIN failures = Thread /\ \A t \in Thread : Tells(failures[t], G[t])
  BY DEF FailInv
<1>2. \A s, t \in Thread : s # t => G[s] \cap G[t] = {}
  BY DoneDisjoint DEF FailedIn
<1>3. Tells(Outcome[Thread], UNION {G[t] : t \in Thread})
  <2> HIDE DEF G
  <2> QED BY <1>1, <1>2, OutcomeTells
<1>4. UNION {G[t] : t \in Thread} = FailedIn(Bin)
  BY JoinedDone DEF FailedIn
<1>5. IsFiniteSet(Thread)
  BY Parts, FS_Interval DEF Thread
<1> QED BY <1>1, <1>3, <1>4, <1>5, CombinedOutcome

LEMMA GenerateFailInv ==
    ASSUME PlaceInv, FailInv, GenerateCenter \/ TwoFailures
    PROVE  FailInv'
PROOF
<1>1. phase = "peel" /\ Joined
  BY Zenon DEF GenerateCenter, TwoFailures
<1>2. Tells(Combined, FailedIn(Bin))
  BY <1>1, CombinedTells
<1>3. failure' = Combined /\ UNCHANGED <<failures>>
  BY Zenon DEF GenerateCenter, TwoFailures, Combined
<1>4. DOMAIN peeled = 0..Q /\ DOMAIN failures = Thread
  BY DEF FailInv
<1>5. Center \in 0..Q /\ Center \notin Bin /\ Bin \subseteq 0..Q
  BY Parts DEF Center, Bin
<1>6. ASSUME DOMAIN peeled' = 0..Q, \A b \in Bin : peeled'[b] = peeled[b]
      PROVE  Tells(failure', FailedIn(Bin)')
  <2>1. FailedIn(Bin)' = FailedIn(Bin)
    BY <1>6 DEF FailedIn
  <2> QED BY <1>2, <1>3, <2>1
<1>7. CASE TwoFailures
  <2>1. failure' = -2 /\ phase' = "returned" /\ returned' = FALSE /\ peeled' = peeled
    BY <1>7, Zenon DEF TwoFailures, tables
  <2> QED BY <1>3, <1>4, <1>6, <2>1 DEF FailInv
<1>8. CASE GenerateCenter
  <2>1. /\ phase' = "xor"
        /\ \/ failure' = -1 /\ CenterFree
           \/ failure' > -1 /\ CenterSaves(failure')
    BY <1>8, Zenon DEF GenerateCenter
  <2>2. peeled' = peeled \/ \E S : peeled' = [peeled EXCEPT ![Center] = S]
    BY <2>1 DEF CenterFree, CenterSaves
  <2>3. DOMAIN peeled' = 0..Q /\ \A b \in Bin : peeled'[b] = peeled[b]
    BY <1>4, <1>5, <2>2
  <2>4. failure' # -2
    <3>1. -2 \notin Bin
      BY Parts DEF Bin
    <3> QED BY <1>2, <1>3, <2>1, <3>1 DEF Tells
  <2> QED BY <1>3, <1>4, <1>6, <2>1, <2>3, <2>4 DEF FailInv
<1> QED BY <1>7, <1>8

LEMMA FailInductive == Spec => []FailInv
PROOF
<1>1. Init => FailInv
  BY DEF Init, FailInv
<1>2. PlaceInv /\ FailInv /\ [Next]_vars => FailInv'
  <2> SUFFICES ASSUME PlaceInv, FailInv, [Next]_vars PROVE FailInv'
    OBVIOUS
  <2>1. ASSUME UNCHANGED <<peeled, failures, failure, returned>>, UNCHANGED <<phase, at>>
        PROVE FailInv'
    BY <2>1 DEF FailInv, FailedIn, Done
  <2>2. ASSUME UNCHANGED <<peeled, failures, failure, returned>>, phase # "peel", phase' # "peel",
               phase' \in {"xor", "unpeel"} => phase \in {"xor", "unpeel"},
               phase' # "returned"
        PROVE FailInv'
    BY <2>2 DEF FailInv, FailedIn
  <2>3. CASE UNCHANGED vars
    BY <2>1, <2>3 DEF vars, tables, work
  <2>4. ASSUME NEW input \in Input, SetKeysAndVals(input) PROVE FailInv'
    BY <2>2, <2>4 DEF SetKeysAndVals
  <2>5. CASE InitTables
    <3>1. DOMAIN peeled' = 0..Q /\ phase' = "idle" /\ failures' = failures
      BY <2>5 DEF InitTables
    <3> QED BY <3>1 DEF FailInv
  <2>6. CASE Encode
    <3>1. /\ phase' = "peel" /\ peeled' = peeled
          /\ failures' = [t \in Thread |-> -1] /\ at' = Starting
      BY <2>6 DEF Encode, tables
    <3>2. ASSUME NEW t \in Thread PROVE FailedIn(Done(t))' = {}
      <4>1. at'[t] = Start(t) /\ Start(t) \in Nat
        BY <3>1, Bounds DEF Starting
      <4> QED BY <4>1 DEF FailedIn, Done
    <3>3. \A t \in Thread : Tells(failures'[t], FailedIn(Done(t))')
      BY <3>1, <3>2 DEF Tells
    <3> QED BY <3>1, <3>3 DEF FailInv
  <2>7. ASSUME NEW t \in Thread, Peel(t) PROVE FailInv'
    BY <2>7, PeelFailInv
  <2>8. ASSUME NEW t \in Thread, SetNewVals(t) \/ Unpeel(t) PROVE FailInv'
    BY <2>2, <2>8 DEF SetNewVals, Unpeel, tables
  <2>9. CASE GenerateCenter \/ TwoFailures
    BY <2>9, GenerateFailInv
  <2>10. CASE Rekey
    BY <2>2, <2>10 DEF Rekey
  <2>11. CASE Return
    <3>1. /\ phase = "unpeel" /\ phase' = "returned" /\ returned' = TRUE
          /\ UNCHANGED <<peeled, failures, failure>>
      BY <2>11 DEF Return, tables
    <3> QED BY <3>1 DEF FailInv, FailedIn
  <2> QED BY <2>3, <2>4, <2>5, <2>6, <2>7, <2>8, <2>9, <2>10, <2>11 DEF Next
<1> QED BY <1>1, <1>2, PlaceInductive, PTL DEF Spec

(* However many bins and threads there are, and whichever bins fail, the   *)
(* threads' results combine to the number of failed bins, none, one or     *)
(* more, and to the index of the bin if it is one; encode returns false    *)
(* just if there are more (paxos.cpp 1386-1400, 1466-1471).                *)
THEOREM FailuresFound == Spec => []FailureFound
PROOF
<1>1. FailInv => FailureFound
  <2> SUFFICES ASSUME FailInv, phase \in {"xor", "unpeel", "returned"} PROVE FailureFound
    BY DEF FailureFound
  <2> DEFINE F == {i \in Bin : Failed(Cardinality(peeled[i]))}
  <2>1. Tells(failure, F)
    BY DEF FailInv, FailedIn
  <2>2. F \subseteq Bin /\ Bin \subseteq Nat /\ IsFiniteSet(F)
    <3>1. Bin \subseteq Nat /\ IsFiniteSet(Bin)
      BY Parts, FS_Interval DEF Bin
    <3> QED BY <3>1, FS_Subset
  <2>3. phase = "returned" => (returned <=> failure # -2)
    BY DEF FailInv
  <2> HIDE DEF F
  <2>4. (failure = -1 <=> F = {}) /\ (failure > -1 <=> F = {failure})
    <3>1. CASE failure = -1 /\ F = {}
      BY <3>1
    <3>2. CASE failure \in Bin /\ F = {failure}
      BY <2>2, <3>2
    <3>3. CASE failure = -2 /\ \E a, b \in F : a # b
      BY <3>3
    <3> QED BY <2>1, <3>1, <3>2, <3>3 DEF Tells
  <2>5. Cardinality(F) <= 1 <=> failure # -2
    <3>1. CASE F = {}
      BY <2>4, <3>1, FS_EmptySet
    <3>2. CASE failure \in Bin /\ F = {failure}
      BY <2>2, <3>2, FS_Singleton
    <3>3. CASE failure = -2 /\ \E a, b \in F : a # b
      <4>1. F # {} /\ ~ \E x : F = {x}
        BY <3>3
      <4>2. Cardinality(F) # 0 /\ Cardinality(F) # 1 /\ Cardinality(F) \in Nat
        BY <2>2, <4>1, FS_EmptySet, FS_Singleton, FS_CardinalityType
      <4> QED BY <3>3, <4>2
    <3> QED BY <2>1, <3>1, <3>2, <3>3 DEF Tells
  <2> QED BY <2>3, <2>4, <2>5 DEF FailureFound, F
<1> QED BY <1>1, FailInductive, PTL
-----------------------------------------------------------------------------
(* A set of numbers has a least one.                                       *)
LEMMA Least ==
    ASSUME NEW S \in SUBSET Nat, S # {}
    PROVE  \E m \in S : \A k \in S : m <= k
PROOF
<1> DEFINE R == {ss \in Nat \X Nat : ss[1] < ss[2]}
<1>1. IsWellFoundedOn(R, Nat)
  BY NatLessThanWellFounded, Zenon DEF OpToRel
<1>2. PICK m \in S : \A k \in S : <<k, m>> \notin R
  <2> HIDE DEF R
  <2> QED BY <1>1, WFMin
<1>3. \A k \in S : m <= k
  <2> SUFFICES ASSUME NEW k \in S PROVE ~(k < m)
    OBVIOUS
  <2>1. k \in Nat /\ m \in Nat
    OBVIOUS
  <2>2. k < m => <<k, m>> \in R
    BY <2>1
  <2> QED BY <1>2, <2>2
<1> QED BY <1>3

(* How many of the first n items go to bin b.                              *)
Count(input, b, n) == Cardinality({m \in 1..n : BinOf(input[m]) = b})

(* It grows by one at each of them.                                        *)
Counts(input, b) ==
    /\ Count(input, b, 0) = 0
    /\ \A n \in Nat : Count(input, b, n) \in Nat
    /\ \A n \in Nat : Count(input, b, n+1)
         = Count(input, b, n) + (IF BinOf(input[n+1]) = b THEN 1 ELSE 0)
    /\ \A n \in Nat : \A m \in 0..n : Count(input, b, m) <= Count(input, b, n)

LEMMA Counting == ASSUME NEW input, NEW b PROVE Counts(input, b)
PROOF
<1> DEFINE items(n) == {m \in 1..n : BinOf(input[m]) = b}
<1>1. ASSUME NEW n \in Nat PROVE IsFiniteSet(items(n)) /\ Count(input, b, n) \in Nat
  <2>1. IsFiniteSet(1..n) /\ items(n) \in SUBSET (1..n)
    BY FS_Interval
  <2>2. IsFiniteSet(items(n))
    BY <2>1, FS_Subset
  <2> QED BY <2>2, FS_CardinalityType DEF Count
<1>2. Count(input, b, 0) = 0
  <2>1. items(0) = {}
    OBVIOUS
  <2> QED BY <2>1, FS_EmptySet DEF Count
<1>3. ASSUME NEW n \in Nat
      PROVE  Count(input, b, n+1) = Count(input, b, n) + (IF BinOf(input[n+1]) = b THEN 1 ELSE 0)
  <2>1. CASE BinOf(input[n+1]) = b
    <3>1. items(n+1) = items(n) \cup {n+1} /\ n+1 \notin items(n)
      BY <2>1
    <3> HIDE DEF items
    <3>2. Cardinality(items(n+1)) = Cardinality(items(n)) + 1
      BY <1>1, <3>1, FS_AddElement
    <3> QED BY <2>1, <3>2 DEF Count, items
  <2>2. CASE BinOf(input[n+1]) # b
    <3>1. items(n+1) = items(n)
      BY <2>2
    <3> QED BY <1>1, <2>2, <3>1 DEF Count
  <2> QED BY <2>1, <2>2
<1>4. ASSUME NEW n \in Nat, NEW m \in 0..n PROVE Count(input, b, m) <= Count(input, b, n)
  <2>1. items(m) \in SUBSET items(n)
    OBVIOUS
  <2> QED BY <1>1, <2>1, FS_Subset DEF Count
<1> QED BY <1>1, <1>2, <1>3, <1>4 DEF Counts

(* The items of a bin get its places one after the other.                  *)
LEMMA Places ==
    ASSUME NEW input \in Input, NEW n \in DOMAIN input
    PROVE  /\ PlaceOf(input, n) \in Place
           /\ \A m \in 1..(n-1) : BinOf(input[m]) = BinOf(input[n]) => PlaceOf(input, m) # PlaceOf(input, n)
           /\ \A r \in 1..(PlaceOf(input, n)-1) : \E m \in 1..(n-1) :
                BinOf(input[m]) = BinOf(input[n]) /\ PlaceOf(input, m) = r
PROOF
<1> DEFINE b == BinOf(input[n])
           c(m) == Count(input, b, m)
           p == PlaceOf(input, n)
<1>1. n \in Nat \ {0} /\ n - 1 \in Nat
  BY StarAssumption
<1>2. \A m \in Nat : BinOf(input[m]) = b => PlaceOf(input, m) = c(m)
  BY DEF PlaceOf, Count
<1>3. p = c(n)
  BY <1>1, <1>2
<1>4. /\ c(0) = 0 /\ \A m \in Nat : c(m) \in Nat
      /\ \A m \in Nat : c(m+1) = c(m) + (IF BinOf(input[m+1]) = b THEN 1 ELSE 0)
      /\ \A l \in Nat : \A m \in 0..l : c(m) <= c(l)
  <2> HIDE DEF b
  <2>1. Counts(input, b)
    BY Counting
  <2> QED BY <2>1 DEF Counts
<1>5. p = c(n-1) + 1
  <2>1. (n - 1) + 1 = n
    BY <1>1
  <2> QED BY <1>1, <1>3, <1>4, <2>1
<1>6. p <= Size /\ Size \in Nat
  BY StarAssumption
<1> HIDE DEF c, p
<1>7. p \in Place
  BY <1>1, <1>4, <1>5, <1>6 DEF Place
<1>8. ASSUME NEW m \in 1..(n-1), BinOf(input[m]) = b PROVE PlaceOf(input, m) # p
  <2>1. m \in Nat /\ m \in 0..(n-1)
    BY <1>1
  <2>2. c(m) <= c(n-1) /\ c(m) \in Nat /\ c(n-1) \in Nat
    BY <1>1, <1>4, <2>1
  <2> QED BY <1>2, <1>5, <1>8, <2>1, <2>2
<1>9. ASSUME NEW r \in 1..(p-1)
      PROVE  \E m \in 1..(n-1) : BinOf(input[m]) = b /\ PlaceOf(input, m) = r
  <2> DEFINE S == {m \in Nat : r <= c(m)}
  <2>1. r \in Nat \ {0} /\ r <= c(n-1)
    BY <1>1, <1>4, <1>5
  <2>2. n - 1 \in S
    BY <1>1, <2>1
  <2>3. PICK m \in S : \A k \in S : m <= k
    BY <2>2, Least
  <2>4. m \in Nat /\ r <= c(m) /\ m <= n - 1
    BY <2>2, <2>3
  <2>5. m # 0
    BY <1>4, <2>1, <2>4
  <2>6. m - 1 \in Nat /\ c(m-1) < r
    <3>1. m - 1 \in Nat /\ ~(m <= m - 1)
      BY <2>4, <2>5
    <3>2. m - 1 \notin S
      BY <2>3, <3>1
    <3> QED BY <1>4, <2>1, <3>1, <3>2
  <2>7. c(m) = c(m-1) + (IF BinOf(input[m]) = b THEN 1 ELSE 0)
    <3>1. (m - 1) + 1 = m
      BY <2>4
    <3> QED BY <1>4, <2>6, <3>1
  <2>8. BinOf(input[m]) = b /\ c(m) = r
    <3>1. c(m) \in Nat /\ c(m-1) \in Nat
      BY <1>4, <2>4, <2>6
    <3> HIDE DEF b
    <3> QED BY <2>1, <2>4, <2>6, <2>7, <3>1
  <2> QED BY <1>1, <1>2, <2>4, <2>5, <2>8
<1> QED BY <1>7, <1>8, <1>9 DEF p

(* The map vals: the value at the first place of a key.                    *)
FirstPlace(ks, k, p) == p \in Place /\ ks[p] = k /\ \A r \in 1..(p-1) : ks[r] # k

LEMMA HeldFirst ==
    ASSUME NEW ks, DOMAIN ks = Place, NEW k, NEW p, FirstPlace(ks, k, p)
    PROVE  k \in Range(ks) /\ \A vs : Held(ks, vs)[k] = vs[p]
PROOF
<1>1. Place \subseteq Nat /\ \A r \in Place, q \in Place : r < q => r \in 1..(q-1)
  BY StarAssumption DEF Place
<1>2. k \in Range(ks)
  BY DEF Range, FirstPlace
<1>3. \A q : FirstPlace(ks, k, q) => q = p
  BY <1>1 DEF FirstPlace
<1>4. (CHOOSE q \in Place : ks[q] = k /\ \A r \in 1..(q-1) : ks[r] # k) = p
  BY <1>3 DEF FirstPlace
<1> QED BY <1>2, <1>4 DEF Held

LEMMA HasFirst ==
    ASSUME NEW ks, DOMAIN ks = Place, NEW k \in Range(ks)
    PROVE  \E p : FirstPlace(ks, k, p)
PROOF
<1> DEFINE S == {q \in Place : ks[q] = k}
<1>1. Place \subseteq Nat /\ \A p \in Place : \A r \in 1..(p-1) : r \in Place /\ ~(p <= r)
  BY StarAssumption DEF Place
<1>2. S \subseteq Nat /\ S # {}
  BY <1>1 DEF Range
<1>3. PICK p \in S : \A q \in S : p <= q
  BY <1>2, Least
<1> QED BY <1>1, <1>3 DEF FirstPlace

LEMMA HeldAdd ==
    ASSUME NEW ks, DOMAIN ks = Place, NEW vs, NEW g, NEW k \in Range(ks)
    PROVE  Held(ks, [p \in Place |-> Add(g[ks[p]], vs[p])])[k] = Add(g[k], Held(ks, vs)[k])
PROOF
<1>1. PICK p : FirstPlace(ks, k, p)
  BY HasFirst
<1>2. p \in Place /\ ks[p] = k
  BY <1>1 DEF FirstPlace
<1> DEFINE ws == [q \in Place |-> Add(g[ks[q]], vs[q])]
<1>3. ws[p] = Add(g[k], vs[p])
  BY <1>2
<1> HIDE DEF ws
<1>4. Held(ks, ws)[k] = ws[p] /\ Held(ks, vs)[k] = vs[p]
  BY <1>1, HeldFirst
<1> QED BY <1>3, <1>4 DEF ws

LEMMA AddTwice == \A a, b : Add(a, Add(a, b)) = b /\ Add(Add(a, b), a) = b
BY DEF Add
-----------------------------------------------------------------------------
(* The keys of bin i the caller has set, and what is true of them: the     *)
(* values are those that were set, or these and the center's; the bin and  *)
(* the center decode to them.                                              *)
KeysOf(i) == {k \in DOMAIN want : Hash[k] = i}
Clean(i) == \A k \in KeysOf(i) : Held(keysFor[i], valsFor[i])[k] = want[k]
Shifted(i) == \A k \in KeysOf(i) : Held(keysFor[i], valsFor[i])[k] = Add(dec[Center][k], want[k])
Rekeyed(i) == \A k \in KeysOf(i) : held[i][k] = Add(dec[Center][k], want[k])
Solved(i) == Good(i) => \A k \in KeysOf(i) : dec[i][k] = held[i][k]
Saved(i) == Good(Center) => \A k \in KeysOf(i) : Add(dec[i][k], dec[Center][k]) = want[k]
Passed(i) == \E t \in Thread : i \in Done(t)

ListTypes ==
    /\ keysFor \in [Bin -> [Place -> Block]]
    /\ DOMAIN valsFor = Bin
    /\ DOMAIN dec = 0..Q /\ DOMAIN held = 0..Q /\ DOMAIN inside = 0..Q /\ DOMAIN signed = 0..Q
    /\ DOMAIN zeroed = 0..Q
    /\ DOMAIN want \subseteq Key
    /\ \A i \in Bin : KeysOf(i) \subseteq Range(keysFor[i])
    /\ phase # "new" => \A i \in Bin : DOMAIN held[i] = Range(keysFor[i])

(* Which bins are in which state in which phase of the first encoding.     *)
DecInv ==
    /\ ListTypes
    /\ xors = 0 /\ phase \notin {"xor", "unpeel"} => \A i \in Bin : Clean(i)
    /\ xors = 0 /\ phase = "xor" =>
         \A i \in Bin : IF i # failure /\ Passed(i) THEN Shifted(i) ELSE Clean(i)
    /\ \A b \in Bin :
         /\ b = failure
         /\ \/ xors = 0 /\ phase = "xor"
            \/ xors = 1 /\ phase = "unpeel"
            \/ xors = 1 /\ phase = "returned" /\ returned
         => Saved(b)
    /\ xors = 1 /\ phase = "unpeel" =>
         \A i \in Bin \ {failure} : Rekeyed(i) /\ (Passed(i) => Solved(i))
    /\ xors = 1 /\ phase = "returned" /\ returned =>
         \A i \in Bin \ {failure} : Rekeyed(i) /\ Solved(i)
    /\ phase = "unpeel" => xors > 0
    /\ xors \in Nat

LEMMA SetClean ==
    ASSUME DecInv, NEW input \in Input, SetKeysAndVals(input)
    PROVE  /\ keysFor' \in [Bin -> [Place -> Block]] /\ DOMAIN valsFor' = Bin
           /\ DOMAIN want' \subseteq Key
           /\ \A i \in Bin : KeysOf(i)' \subseteq Range(keysFor'[i]) /\ Clean(i)'
PROOF
<1> DEFINE goes(i, p, n) == BinOf(input[n]) = i /\ PlaceOf(input, n) = p
           used(i, p) == \E n \in DOMAIN input : goes(i, p, n)
           item(i, p) == input[CHOOSE n \in DOMAIN input : goes(i, p, n)]
<1>1. /\ keysFor' = [i \in Bin |-> [p \in Place |->
                         IF used(i, p) THEN item(i, p).key ELSE keysFor[i][p]]]
      /\ valsFor' = [i \in Bin |-> [p \in Place |->
                         IF used(i, p) THEN item(i, p).val ELSE valsFor[i][p]]]
      /\ want' = [k \in {input[n].key : n \in DOMAIN input} |->
                    input[CHOOSE n \in DOMAIN input :
                          input[n].key = k /\ \A m \in 1..(n-1) : input[m].key # k].val]
  BY Zenon DEF SetKeysAndVals
<1>2. input \in Seq([key : Key, val : Value]) /\ keysFor \in [Bin -> [Place -> Block]]
  BY StarAssumption DEF DecInv, ListTypes
<1>3. \A n \in DOMAIN input : /\ input[n].key \in Key /\ n \in Nat \ {0}
                              /\ \A m \in 1..(n-1) : m \in DOMAIN input
  <2>1. DOMAIN input = 1..Len(input) /\ Len(input) \in Nat
    BY <1>2
  <2>2. \A n \in DOMAIN input : input[n] \in [key : Key, val : Value]
    <3>1. input \in [1..Len(input) -> [key : Key, val : Value]]
      BY <1>2, LenProperties
    <3> QED BY <2>1, <3>1
  <2>3. \A n \in DOMAIN input : n \in Nat \ {0} /\ \A m \in 1..(n-1) : m \in DOMAIN input
    BY <2>1
  <2> QED BY <2>2, <2>3
<1>4. ASSUME NEW n \in DOMAIN input, NEW m \in DOMAIN input,
             goes(BinOf(input[n]), PlaceOf(input, n), m)
      PROVE  m = n
  <2>1. m \in 1..(n-1) \/ n \in 1..(m-1) \/ m = n
    BY <1>3
  <2> QED BY <1>4, <2>1, Places
<1>5. \A n \in DOMAIN input : LET i == BinOf(input[n])
                                 p == PlaceOf(input, n)
                             IN  i \in Bin /\ p \in Place /\ used(i, p) /\ item(i, p) = input[n]
  <2> SUFFICES ASSUME NEW n \in DOMAIN input
               PROVE  LET i == BinOf(input[n])
                          p == PlaceOf(input, n)
                      IN  i \in Bin /\ p \in Place /\ used(i, p) /\ item(i, p) = input[n]
    OBVIOUS
  <2> DEFINE i == BinOf(input[n])
             p == PlaceOf(input, n)
  <2>1. i \in Bin
    BY <1>3, StarAssumption DEF BinOf
  <2>2. p \in Place
    BY Places
  <2>3. goes(i, p, n)
    OBVIOUS
  <2>4. (CHOOSE m \in DOMAIN input : goes(i, p, m)) = n
    BY <1>4, <2>3
  <2> QED BY <2>1, <2>2, <2>3, <2>4
<1>6. ASSUME NEW i \in Bin, NEW p \in Place, used(i, p) PROVE item(i, p).key \in Block
  BY <1>3, <1>6 DEF Block
<1>7. keysFor' \in [Bin -> [Place -> Block]] /\ DOMAIN valsFor' = Bin
  BY <1>1, <1>2, <1>6
<1>8. DOMAIN want' \subseteq Key
  BY <1>1, <1>3
<1>9. ASSUME NEW i \in Bin, NEW k \in KeysOf(i)'
      PROVE  k \in Range(keysFor'[i]) /\ Held(keysFor'[i], valsFor'[i])[k] = want'[k]
  <2> DEFINE same == {n \in DOMAIN input : input[n].key = k}
  <2>1. k \in DOMAIN want' /\ Hash[k] = i
    BY <1>9 DEF KeysOf
  <2>2. same # {} /\ same \subseteq Nat
    BY <1>1, <1>3, <2>1
  <2>3. PICK n \in same : \A m \in same : n <= m
    BY <2>2, Least
  <2>4. n \in DOMAIN input /\ input[n].key = k /\ \A m \in 1..(n-1) : input[m].key # k
    <3>1. \A m \in 1..(n-1) : ~(n <= m)
      BY <1>3, <2>3
    <3> QED BY <1>3, <2>3, <3>1
  <2>5. \A l \in DOMAIN input :
          input[l].key = k /\ (\A m \in 1..(l-1) : input[m].key # k) => l = n
    BY <1>3, <2>4
  <2>6. want'[k] = input[n].val
    <3>1. (CHOOSE l \in DOMAIN input :
             input[l].key = k /\ \A m \in 1..(l-1) : input[m].key # k) = n
      BY <2>4, <2>5
    <3> QED BY <1>1, <2>1, <3>1
  <2> DEFINE p == PlaceOf(input, n)
  <2>7. BinOf(input[n]) = i
    BY <2>1, <2>4 DEF BinOf
  <2>8. p \in Place /\ keysFor'[i][p] = k /\ valsFor'[i][p] = input[n].val
    BY <1>1, <1>5, <2>4, <2>7
  <2>9. ASSUME NEW r \in 1..(p-1) PROVE keysFor'[i][r] # k
    <3>1. PICK m \in 1..(n-1) : BinOf(input[m]) = i /\ PlaceOf(input, m) = r
      BY <2>4, <2>7, Places
    <3>2. m \in DOMAIN input
      BY <1>3, <2>4
    <3>3. keysFor'[i][r] = input[m].key
      BY <1>1, <1>5, <3>1, <3>2
    <3> QED BY <2>4, <3>3
  <2>10. FirstPlace(keysFor'[i], k, p)
    BY <2>8, <2>9 DEF FirstPlace
  <2>11. DOMAIN keysFor'[i] = Place
    BY <1>7
  <2> HIDE DEF p
  <2> QED BY <2>6, <2>8, <2>10, <2>11, HeldFirst
<1> QED BY <1>7, <1>8, <1>9 DEF Clean

LEMMA SetDecInv ==
    ASSUME DecInv, NEW input \in Input, SetKeysAndVals(input)
    PROVE  DecInv'
PROOF
<1>1. /\ keysFor' \in [Bin -> [Place -> Block]] /\ DOMAIN valsFor' = Bin
      /\ DOMAIN want' \subseteq Key
      /\ \A i \in Bin : KeysOf(i)' \subseteq Range(keysFor'[i]) /\ Clean(i)'
  BY SetClean
<1>2. /\ held' = [i \in 0..Q |-> IF i \in Bin THEN Held(keysFor'[i], valsFor'[i]) ELSE held[i]]
      /\ phase' = "idle" /\ xors' = 0
      /\ UNCHANGED <<inside, signed, dec, zeroed>>
  BY Zenon DEF SetKeysAndVals
<1>3. \A i \in Bin : DOMAIN held'[i] = Range(keysFor'[i])
  <2>1. Bin \subseteq 0..Q
    BY Parts DEF Bin
  <2> QED BY <1>2, <2>1 DEF Held
<1>4. DOMAIN held' = 0..Q
  BY <1>2
<1>5. ListTypes'
  BY <1>1, <1>2, <1>3, <1>4 DEF DecInv, ListTypes
<1> QED BY <1>1, <1>2, <1>5 DEF DecInv

(* A step outside the phases that change values or unpeel.                 *)
LEMMA QuietDecInv ==
    ASSUME DecInv,
           UNCHANGED <<lists, held, dec, signed, zeroed, want, xors>>,
           DOMAIN inside' = 0..Q,
           phase \notin {"new", "xor", "unpeel"}, phase' \notin {"new", "xor", "unpeel"},
           phase' = "returned" => ~returned'
    PROVE  DecInv'
PROOF
<1>1. ListTypes'
  BY DEF DecInv, ListTypes, KeysOf, lists
<1>2. xors = 0 => \A i \in Bin : Clean(i)'
  BY DEF DecInv, Clean, KeysOf, lists
<1> QED BY <1>1, <1>2 DEF DecInv

LEMMA StillDecInv == DecInv /\ UNCHANGED vars => DecInv'
BY DEF DecInv, ListTypes, KeysOf, Clean, Shifted, Rekeyed, Solved, Saved, Good, Solvable,
       Passed, Done, vars, graph, lists, tables, work, history

LEMMA NonePassed == at' = Starting => \A i : ~Passed(i)'
PROOF
<1>1. ASSUME at' = Starting, NEW t \in Thread PROVE Done(t)' = {}
  <2>1. at'[t] = Start(t) /\ Start(t) \in Nat
    BY <1>1, Bounds DEF Starting
  <2> QED BY <2>1 DEF Done
<1> QED BY <1>1 DEF Passed

LEMMA AllPassed == PlaceInv /\ Joined => \A i \in Bin : Passed(i)
BY JoinedDone DEF Passed

LEMMA OnePasses ==
    ASSUME PlaceInv, NEW t \in Thread, Advance(t)
    PROVE  at[t] \in Bin /\ ~Passed(at[t]) /\ \A i \in Bin : Passed(i)' <=> Passed(i) \/ i = at[t]
PROOF
<1>1. at[t] < End(t) /\ at' = [at EXCEPT ![t] = at[t] + 1]
  BY DEF Advance
<1>2. /\ at \in [Thread -> Int] /\ Start(t) \in Nat /\ Start(t) <= at[t]
      /\ End(t) \in Nat /\ End(t) <= Q /\ Q \in Nat
  BY Bounds, Parts DEF PlaceInv
<1>3. at[t] \in Bin
  BY <1>1, <1>2 DEF Bin
<1>4. Done(t)' = Done(t) \cup {at[t]} /\ at[t] \notin Done(t)
  BY <1>1, <1>2 DEF Done
<1>5. \A s \in Thread : s # t => Done(s)' = Done(s) /\ at[t] \notin Done(s)
  BY <1>1, <1>2, DoneDisjoint DEF Done
<1> QED BY <1>3, <1>4, <1>5 DEF Passed

(* The center saves the bin that failed.                                   *)
LEMMA CenterDecInv ==
    ASSUME DecInv, FailInv', GenerateCenter
    PROVE  DecInv'
PROOF
<1>1. /\ phase = "peel" /\ phase' = "xor" /\ at' = Starting
      /\ \/ failure' = -1 /\ CenterFree
         \/ failure' > -1 /\ CenterSaves(failure')
      /\ UNCHANGED <<lists, xors, want, graph>>
  BY Zenon DEF GenerateCenter, history
<1>2. failure' = -1 \/ failure' \in Bin
  BY <1>1 DEF FailInv, Tells
<1>3. Center \in 0..Q /\ Center \notin Bin /\ Bin \subseteq 0..Q
  BY Parts DEF Center, Bin
<1>4. /\ DOMAIN dec' = 0..Q /\ DOMAIN held' = 0..Q /\ DOMAIN inside' = 0..Q /\ DOMAIN signed' = 0..Q
      /\ DOMAIN zeroed' = 0..Q
      /\ \A i \in Bin : held'[i] = held[i]
  <2>1. ListTypes
    BY DEF DecInv
  <2>2. CASE CenterFree
    BY <2>1, <2>2 DEF ListTypes, CenterFree
  <2>3. CASE CenterSaves(failure')
    <3> DEFINE S == Range(keysFor[failure'])
               C == Core(S)
    <3>1. PICK f \in Filling, g \in Generated, z \in BOOLEAN : \E L \in Broken(S \ C, z) :
            LET missing == [p \in Place |->
                              Add(g[keysFor[failure'][p]], valsFor[failure'][p])]
                h == Held(keysFor[failure'], missing)
            IN  /\ held' = [held EXCEPT ![Center] = h]
                /\ inside' = [inside EXCEPT ![Center] = C]
                /\ signed' = [signed EXCEPT ![Center] = @ \cup C]
                /\ dec' = [dec EXCEPT ![failure'] = g,
                             ![Center] = Unpeeled(h, S \ C, C, signed[Center], L, f)]
                /\ zeroed' = [zeroed EXCEPT ![Center] = z]
      BY Zenon, <2>3 DEF CenterSaves
    <3> HIDE DEF S, C
    <3> QED BY <1>3, <2>1, <3>1 DEF ListTypes
  <2> QED BY <1>1, <2>2, <2>3
<1>5. ListTypes'
  BY <1>1, <1>4 DEF DecInv, ListTypes, KeysOf, lists
<1>6. xors = 0 => \A i \in Bin : Clean(i) /\ Clean(i)'
  BY <1>1 DEF DecInv, Clean, KeysOf, lists
<1>7. ASSUME xors = 0, NEW b \in Bin, b = failure' PROVE Saved(b)'
  <2> DEFINE S == Range(keysFor[b])
             C == Core(S)
  <2>1. CenterSaves(b)
    <3>1. -1 \notin Bin
      BY Parts DEF Bin
    <3> QED BY <1>1, <1>7, <3>1
  <2>2. PICK f \in Filling, g \in Generated, z \in BOOLEAN : \E L \in Broken(S \ C, z) :
          LET missing == [p \in Place |-> Add(g[keysFor[b][p]], valsFor[b][p])]
              h == Held(keysFor[b], missing)
          IN  /\ inside' = [inside EXCEPT ![Center] = C]
              /\ signed' = [signed EXCEPT ![Center] = @ \cup C]
              /\ dec' = [dec EXCEPT ![b] = g,
                           ![Center] = Unpeeled(h, S \ C, C, signed[Center], L, f)]
              /\ zeroed' = [zeroed EXCEPT ![Center] = z]
    BY <2>1 DEF CenterSaves
  <2>3. PICK L \in Broken(S \ C, z) :
          LET missing == [p \in Place |-> Add(g[keysFor[b][p]], valsFor[b][p])]
              h == Held(keysFor[b], missing)
          IN  /\ inside' = [inside EXCEPT ![Center] = C]
              /\ signed' = [signed EXCEPT ![Center] = @ \cup C]
              /\ dec' = [dec EXCEPT ![b] = g,
                           ![Center] = Unpeeled(h, S \ C, C, signed[Center], L, f)]
              /\ zeroed' = [zeroed EXCEPT ![Center] = z]
    BY <2>2
  <2>4. ~z => L = {}
    BY DEF Broken
  <2> DEFINE missing == [p \in Place |-> Add(g[keysFor[b][p]], valsFor[b][p])]
             h == Held(keysFor[b], missing)
  <2>5. /\ inside'[Center] = C /\ signed'[Center] = signed[Center] \cup C
        /\ dec'[b] = g /\ zeroed'[Center] = z
        /\ dec'[Center] = Unpeeled(h, S \ C, C, signed[Center], L, f)
    BY <1>3, <1>7, <2>3 DEF DecInv, ListTypes
  <2>6. KeysOf(b)' = KeysOf(b) /\ KeysOf(b) \subseteq S /\ KeysOf(b) \subseteq Block
    BY <1>1, <1>7 DEF KeysOf, DecInv, ListTypes, Block
  <2>7. DOMAIN keysFor[b] = Place
    BY <1>7 DEF DecInv, ListTypes
  <2>8. ASSUME Good(Center)', NEW k \in KeysOf(b) PROVE Add(dec'[b][k], dec'[Center][k]) = want'[k]
    <3>1. Solvable(C) /\ signed[Center] \subseteq C /\ L = {}
      BY <1>1, <2>4, <2>5, <2>8 DEF Good, Solvable, graph
    <3>2. C \subseteq S
      BY DEF Core
    <3>3. k \in S /\ k \in Block
      BY <2>6, <2>8
    <3>4. DOMAIN h = S
      BY DEF Held
    <3>5. dec'[Center][k] = h[k]
      <4> HIDE DEF h, C, S
      <4> QED BY <2>5, <3>1, <3>2, <3>3, <3>4 DEF Unpeeled
    <3>6. h[k] = Add(g[k], Held(keysFor[b], valsFor[b])[k])
      BY <2>7, <3>3, HeldAdd
    <3>7. Held(keysFor[b], valsFor[b])[k] = want[k]
      BY <1>6, <1>7, <2>8 DEF Clean
    <3> QED BY <1>1, <2>5, <3>5, <3>6, <3>7, AddTwice
  <2> QED BY <2>6, <2>8 DEF Saved
<1>8. \A i : ~Passed(i)'
  BY <1>1, NonePassed
<1> QED BY <1>1, <1>5, <1>6, <1>7, <1>8 DEF DecInv

(* A thread adds the center's values to those of its bin.                  *)
LEMMA ShiftDecInv ==
    ASSUME PlaceInv, DecInv, NEW t \in Thread, SetNewVals(t)
    PROVE  DecInv'
PROOF
<1> DEFINE i == at[t]
<1>1. /\ phase = "xor" /\ phase' = "xor" /\ Advance(t)
      /\ valsFor' = IF i = failure THEN valsFor
                    ELSE [valsFor EXCEPT ![i] =
                           [p \in Place |-> Add(dec[Center][keysFor[i][p]], valsFor[i][p])]]
      /\ UNCHANGED <<keysFor, graph, tables, failure, returned, want, xors>>
  <2>1. i \in Bin /\ DOMAIN valsFor = Bin
    BY OnePasses DEF SetNewVals, DecInv, ListTypes
  <2> QED BY <2>1 DEF SetNewVals, history
<1>2. i \in Bin /\ ~Passed(i) /\ \A j \in Bin : Passed(j)' <=> Passed(j) \/ j = i
  BY <1>1, OnePasses
<1>3. DOMAIN valsFor = Bin /\ DOMAIN valsFor' = Bin
  BY <1>1 DEF DecInv, ListTypes
<1> HIDE DEF i
<1>4. ListTypes'
  BY <1>1, <1>3 DEF DecInv, ListTypes, KeysOf, tables
<1>5. ASSUME NEW b \in Bin, Saved(b) PROVE Saved(b)'
  BY <1>1, <1>5 DEF Saved, Good, Solvable, KeysOf, graph, tables
<1>6. ASSUME xors = 0, NEW j \in Bin
      PROVE  IF j # failure /\ Passed(j)' THEN Shifted(j)' ELSE Clean(j)'
  <2>1. IF j # failure /\ Passed(j) THEN Shifted(j) ELSE Clean(j)
    BY <1>1, <1>6 DEF DecInv
  <2>2. CASE j # i \/ j = failure
    <3>1. valsFor'[j] = valsFor[j]
      BY <1>1, <1>2, <1>3, <2>2
    <3>2. (Shifted(j)' <=> Shifted(j)) /\ (Clean(j)' <=> Clean(j))
      BY <1>1, <3>1 DEF Shifted, Clean, KeysOf, tables
    <3> QED BY <1>2, <2>1, <2>2, <3>2
  <2>3. CASE j = i /\ j # failure
    <3>1. valsFor'[j] = [p \in Place |-> Add(dec[Center][keysFor[j][p]], valsFor[j][p])]
      BY <1>1, <1>2, <1>3, <2>3
    <3>2. DOMAIN keysFor[j] = Place /\ KeysOf(j) \subseteq Range(keysFor[j])
      BY DEF DecInv, ListTypes
    <3>3. Clean(j)
      BY <1>2, <2>1, <2>3
    <3>4. ASSUME NEW k \in KeysOf(j)
          PROVE  Held(keysFor[j], valsFor'[j])[k] = Add(dec[Center][k], want[k])
      <4>1. k \in Range(keysFor[j])
        BY <3>2
      <4>2. Held(keysFor[j], valsFor'[j])[k] = Add(dec[Center][k], Held(keysFor[j], valsFor[j])[k])
        BY <3>1, <3>2, <4>1, HeldAdd
      <4> QED BY <3>3, <4>2 DEF Clean
    <3>5. Shifted(j)'
      BY <1>1, <3>4 DEF Shifted, KeysOf, tables
    <3> QED BY <1>2, <2>3, <3>5
  <2> QED BY <2>2, <2>3
<1> QED BY <1>1, <1>4, <1>5, <1>6 DEF DecInv

LEMMA RekeyDecInv ==
    ASSUME PlaceInv, DecInv, Rekey
    PROVE  DecInv'
PROOF
<1>1. /\ phase = "xor" /\ phase' = "unpeel" /\ Joined /\ at' = Starting /\ xors' = xors + 1
      /\ held' = [i \in 0..Q |-> IF i \in Bin \ {failure}
                                   THEN Held(keysFor[i], valsFor[i]) ELSE held[i]]
      /\ UNCHANGED <<graph, lists, inside, peeled, signed, dec, zeroed, failure, want>>
  BY DEF Rekey
<1>2. \A i \in Bin : Passed(i) /\ ~Passed(i)'
  BY <1>1, AllPassed, NonePassed
<1>3. Bin \subseteq 0..Q
  BY Parts DEF Bin
<1>4. ListTypes'
  <2>1. \A i \in Bin : DOMAIN held'[i] = Range(keysFor[i])
    BY <1>1, <1>3 DEF Held, DecInv, ListTypes
  <2> QED BY <1>1, <2>1 DEF DecInv, ListTypes, KeysOf, lists
<1>5. xors \in Nat /\ xors' > 0 /\ xors' \in Nat /\ (xors' = 1 => xors = 0)
  BY <1>1 DEF DecInv
<1>6. ASSUME xors = 0, NEW b \in Bin, b = failure PROVE Saved(b)'
  <2>1. Saved(b)
    BY <1>1, <1>6 DEF DecInv
  <2> QED BY <1>1, <2>1 DEF Saved, Good, Solvable, KeysOf, graph, lists, Center
<1>7. ASSUME xors = 0, NEW i \in Bin \ {failure} PROVE Rekeyed(i)'
  <2>1. Shifted(i)
    BY <1>1, <1>2, <1>7 DEF DecInv
  <2>2. held'[i] = Held(keysFor[i], valsFor[i])
    BY <1>1, <1>3
  <2> QED BY <1>1, <2>1, <2>2 DEF Shifted, Rekeyed, KeysOf
<1> QED BY <1>1, <1>2, <1>4, <1>5, <1>6, <1>7 DEF DecInv

(* A thread unpeels its bin.                                               *)
LEMMA UnpeelDecInv ==
    ASSUME PlaceInv, DecInv, NEW t \in Thread, Unpeel(t)
    PROVE  DecInv'
PROOF
<1> DEFINE i == at[t]
<1>1. /\ phase = "unpeel" /\ phase' = "unpeel" /\ Advance(t)
      /\ UNCHANGED <<graph, lists, held, inside, peeled, failure, want, xors>>
      /\ i = failure => UNCHANGED <<signed, dec, zeroed>>
      /\ i # failure => /\ signed' = [signed EXCEPT ![i] = @ \cup inside[i]]
                        /\ \E f \in Filling, z \in BOOLEAN : \E L \in Broken(peeled[i], z) :
                             /\ dec' = [dec EXCEPT ![i] =
                                   Unpeeled(held[i], peeled[i], inside[i], signed[i], L, f)]
                             /\ zeroed' = [zeroed EXCEPT ![i] = z]
  BY DEF Unpeel, UnpeelBin, history
<1>2. i \in Bin /\ ~Passed(i) /\ \A j \in Bin : Passed(j)' <=> Passed(j) \/ j = i
  BY <1>1, OnePasses
<1>3. Center \notin Bin /\ Bin \subseteq 0..Q /\ Center \in 0..Q
  BY Parts DEF Center, Bin
<1>4. /\ DOMAIN dec = 0..Q /\ DOMAIN signed = 0..Q /\ DOMAIN zeroed = 0..Q
      /\ DOMAIN dec' = 0..Q /\ DOMAIN signed' = 0..Q /\ DOMAIN zeroed' = 0..Q
  BY <1>1 DEF DecInv, ListTypes
<1> HIDE DEF i
<1>5. \A j \in 0..Q : j # i \/ j = failure =>
        dec'[j] = dec[j] /\ signed'[j] = signed[j] /\ zeroed'[j] = zeroed[j]
  BY <1>1, <1>4
<1>6. /\ dec'[Center] = dec[Center] /\ signed'[Center] = signed[Center]
      /\ zeroed'[Center] = zeroed[Center]
  BY <1>2, <1>3, <1>5
<1>7. ListTypes'
  BY <1>1, <1>4 DEF DecInv, ListTypes, KeysOf, lists
<1>8. ASSUME NEW b \in Bin, b = failure, Saved(b) PROVE Saved(b)'
  <2>1. dec'[b] = dec[b]
    BY <1>3, <1>5, <1>8
  <2> QED BY <1>1, <1>6, <1>8, <2>1 DEF Saved, Good, Solvable, KeysOf, graph, lists, Center
<1>9. ASSUME xors = 1, NEW j \in Bin \ {failure} PROVE Rekeyed(j)' /\ (Passed(j)' => Solved(j)')
  <2>1. Rekeyed(j) /\ (Passed(j) => Solved(j))
    BY <1>1, <1>9 DEF DecInv
  <2>2. Rekeyed(j)'
    BY <1>1, <1>6, <2>1 DEF Rekeyed, KeysOf
  <2>3. CASE j # i
    <3>1. dec'[j] = dec[j] /\ signed'[j] = signed[j] /\ zeroed'[j] = zeroed[j]
      BY <1>3, <1>5, <2>3
    <3>2. Solved(j) => Solved(j)'
      BY <1>1, <3>1 DEF Solved, Good, Solvable, KeysOf, graph, lists, Center
    <3> QED BY <1>2, <2>1, <2>2, <2>3, <3>2
  <2>4. CASE j = i
    <3>1. PICK f \in Filling, z \in BOOLEAN : \E L \in Broken(peeled[i], z) :
             /\ dec' = [dec EXCEPT ![i] =
                   Unpeeled(held[i], peeled[i], inside[i], signed[i], L, f)]
             /\ zeroed' = [zeroed EXCEPT ![i] = z]
      BY <1>1, <1>9, <2>4
    <3>2. PICK L \in Broken(peeled[i], z) :
             /\ dec' = [dec EXCEPT ![i] =
                   Unpeeled(held[i], peeled[i], inside[i], signed[i], L, f)]
             /\ zeroed' = [zeroed EXCEPT ![i] = z]
      BY <3>1
    <3>3. ~z => L = {}
      BY DEF Broken
    <3>4. /\ dec'[j] = Unpeeled(held[j], peeled[j], inside[j], signed[j], L, f)
          /\ signed'[j] = signed[j] \cup inside[j]
          /\ zeroed'[j] = z
      BY <1>1, <1>3, <1>4, <2>4, <3>2
    <3>5. /\ KeysOf(j) \subseteq Range(keysFor[j]) /\ KeysOf(j) \subseteq Block
          /\ DOMAIN held[j] = Range(keysFor[j])
      BY <1>1 DEF DecInv, ListTypes, KeysOf, Block
    <3>6. ASSUME Good(j)', NEW k \in KeysOf(j) PROVE dec'[j][k] = held[j][k]
      <4>1. /\ Solvable(inside[j]) /\ signed[j] \subseteq inside[j] /\ L = {}
            /\ peeled[j] \cup inside[j] = Range(keysFor[j])
        BY <1>1, <1>3, <3>3, <3>4, <3>6 DEF Good, Solvable, graph, lists, Center
      <4>2. k \in DOMAIN held[j] /\ k \in Block /\ k \in peeled[j] \cup inside[j]
        BY <3>5, <4>1
      <4> QED BY <3>4, <4>1, <4>2 DEF Unpeeled
    <3>7. Solved(j)'
      BY <1>1, <3>6 DEF Solved, KeysOf
    <3> QED BY <2>2, <3>7
  <2> QED BY <2>3, <2>4
<1> QED BY <1>1, <1>7, <1>8, <1>9 DEF DecInv

LEMMA ReturnDecInv ==
    ASSUME PlaceInv, DecInv, Return
    PROVE  DecInv'
PROOF
<1>1. /\ phase = "unpeel" /\ phase' = "returned" /\ Joined
      /\ UNCHANGED <<graph, lists, tables, failure, want, xors>>
  BY DEF Return, history
<1>2. \A i \in Bin : Passed(i)
  BY <1>1, AllPassed
<1>3. ListTypes'
  BY <1>1 DEF DecInv, ListTypes, KeysOf, lists, tables
<1>4. \A i \in Bin : /\ Saved(i) => Saved(i)'
                     /\ Rekeyed(i) => Rekeyed(i)'
                     /\ Solved(i) => Solved(i)'
  BY <1>1 DEF Saved, Rekeyed, Solved, Good, Solvable, KeysOf, graph, lists, tables
<1>5. xors > 0 /\ xors \in Nat
  BY <1>1 DEF DecInv
<1> QED BY <1>1, <1>2, <1>3, <1>4, <1>5 DEF DecInv

LEMMA DecInductive == Spec => []DecInv
PROOF
<1>1. Init => DecInv
  BY DEF Init, DecInv, ListTypes, KeysOf, Clean, Block
<1>2. PlaceInv /\ FailInv' /\ DecInv /\ [Next]_vars => DecInv'
  <2> SUFFICES ASSUME PlaceInv, FailInv', DecInv, [Next]_vars PROVE DecInv'
    OBVIOUS
  <2>1. CASE UNCHANGED vars
    BY <2>1, StillDecInv
  <2>2. ASSUME NEW input \in Input, SetKeysAndVals(input) PROVE DecInv'
    BY <2>2, SetDecInv
  <2>3. CASE InitTables
    BY <2>3, QuietDecInv DEF InitTables, history
  <2>4. CASE Encode
    BY <2>4, QuietDecInv DEF Encode, tables, history, DecInv, ListTypes
  <2>5. ASSUME NEW t \in Thread, Peel(t) PROVE DecInv'
    BY <2>5, QuietDecInv DEF Peel, history, DecInv, ListTypes
  <2>6. CASE TwoFailures
    <3>1. phase = "peel" /\ phase' = "returned" /\ returned' = FALSE /\ UNCHANGED <<lists, tables, history>>
      BY <2>6, Zenon DEF TwoFailures
    <3> QED BY <3>1, QuietDecInv DEF tables, history, DecInv, ListTypes
  <2>7. CASE GenerateCenter
    BY <2>7, CenterDecInv
  <2>8. ASSUME NEW t \in Thread, SetNewVals(t) PROVE DecInv'
    BY <2>8, ShiftDecInv
  <2>9. CASE Rekey
    BY <2>9, RekeyDecInv
  <2>10. ASSUME NEW t \in Thread, Unpeel(t) PROVE DecInv'
    BY <2>10, UnpeelDecInv
  <2>11. CASE Return
    BY <2>11, ReturnDecInv
  <2> QED BY <2>1, <2>2, <2>3, <2>4, <2>5, <2>6, <2>7, <2>8, <2>9, <2>10, <2>11 DEF Next
<1>3. Spec => []PlaceInv /\ []FailInv
  BY PlaceInductive, FailInductive
<1> QED BY <1>1, <1>2, <1>3, PTL DEF Spec

(* After an encode that returned true, the first since setKeysAndVals,     *)
(* every key decodes to the value it was given (first), in the bin that    *)
(* failed by the center (paxos.cpp 1341-1486): whatever the bins, the      *)
(* threads and their order, and the lists of keys.  This presupposes of    *)
(* each table that was unpeeled that its 2-core can be solved, that it has *)
(* no sign of an earlier core, that unpeeling solved no slot to zero and   *)
(* that init filled it with the keys set last (Good).                      *)
THEOREM EncodingDecodes == Spec => []Decodes
PROOF
<1>1. FailInv /\ DecInv => Decodes
  <2> SUFFICES ASSUME FailInv, DecInv, phase = "returned", returned, xors = 1,
                      \A i \in Unpeeling : Good(i), NEW k \in DOMAIN want
               PROVE  Decode(k) = want[k]
    BY DEF Decodes
  <2> DEFINE b == Hash[k]
  <2>1. b \in Bin /\ k \in KeysOf(b)
    BY StarAssumption DEF DecInv, ListTypes, KeysOf
  <2>2. failure = -1 \/ failure \in Bin
    BY DEF FailInv, Tells
  <2>3. -1 \notin Bin
    BY Parts DEF Bin
  <2>4. CASE b = failure
    <3>1. Good(Center)
      BY <2>1, <2>3, <2>4 DEF Unpeeling
    <3>2. Saved(b)
      BY <2>1, <2>4 DEF DecInv
    <3> QED BY <2>1, <3>1, <3>2 DEF Saved, Decode
  <2>5. CASE b # failure
    <3>1. Good(b)
      BY <2>1, <2>5 DEF Unpeeling
    <3>2. Rekeyed(b) /\ Solved(b)
      BY <2>1, <2>5 DEF DecInv
    <3>3. dec[b][k] = Add(dec[Center][k], want[k])
      BY <2>1, <3>1, <3>2 DEF Rekeyed, Solved
    <3> QED BY <3>3, AddTwice DEF Decode
  <2> QED BY <2>4, <2>5
<1> QED BY <1>1, FailInductive, DecInductive, PTL
=============================================================================
