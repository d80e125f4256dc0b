---------------------------- MODULE RoundsProofs ----------------------------
(***************************************************************************)
(* Proofs about Rounds, for any number of parties, any threshold, both     *)
(* topologies and any input sets.                                          *)
(***************************************************************************)
EXTENDS Rounds, TLAPS

-----------------------------------------------------------------------------
(* The pads that Shares gives to p are the pads in play that name p: the   *)
(* loops of both ends of a session agree that the session takes place.     *)
LEMMA ShareIsCut ==
    ASSUME NEW p \in Party
    PROVE  ShareOf(p) = Cut({p})
PROOF
<1> USE NAssumption, TAssumption, MaskPeersAssumption
<1>1. ASSUME NEW e \in ShareOf(p) PROVE e \in Cut({p})
  BY <1>1 DEF ShareOf, Cut, PadsInPlay, MaskTerms, ReceiverTerms, SenderTerms,
              Mask, Oprf, Party, Middle, LastT
<1>2. ASSUME NEW e \in Cut({p}) PROVE e \in ShareOf(p)
  BY <1>2 DEF ShareOf, Cut, PadsInPlay, MaskTerms, ReceiverTerms, SenderTerms,
              Mask, Oprf, Party, Middle, LastT
<1> QED BY <1>1, <1>2

(* XORing the shares of disjoint groups cancels the pads between them.     *)
LEMMA CutUnion ==
    ASSUME NEW S, NEW S2, S \cap S2 = {}
    PROVE  Xor(Cut(S), Cut(S2)) = Cut(S \cup S2)
BY DEF Xor, Cut

(* The uncancelled pads of the parties other than 0 are the pads of 0.     *)
LEMMA CutComplement == Cut(1..(N-1)) = Cut({0})
PROOF
<1>1. ASSUME NEW e \in PadsInPlay
      PROVE  e[2] \in Party /\ e[3] \in Party
  BY NAssumption, TAssumption, MaskPeersAssumption
     DEF PadsInPlay, Mask, Party, Middle, LastT
<1>2. \A i \in Party : i \in 1..(N-1) <=> i # 0
  BY NAssumption DEF Party
<1> QED BY <1>1, <1>2 DEF Cut

(* Table garbage is not a pad.                                             *)
LEMMA NoJunkInCut ==
    ASSUME NEW S, NEW j
    PROVE  Junk(j) \notin Cut(S)
BY DEF Junk, Cut, PadsInPlay, Mask

(* What is left of the shares of a group is made of pads.                  *)
LEMMA CutType ==
    ASSUME NEW S
    PROVE  Cut(S) \in SUBSET Token
BY NAssumption, TAssumption, MaskPeersAssumption
   DEF Cut, PadsInPlay, Mask, Token, Pad, Party, Middle, LastT

(* Two accounts of disjoint groups XOR to an account of both: the garbage  *)
(* of one cannot be cancelled by the other.                                *)
LEMMA XorRepresents ==
    ASSUME NEW S \in SUBSET Party, NEW S2 \in SUBSET Party, S \cap S2 = {},
           NEW v, NEW w, NEW x, Represents(v, S, x), Represents(w, S2, x)
    PROVE  Represents(Xor(v, w), S \cup S2, x)
PROOF
<1>1. \A j \in Party : Junk(j) \in Xor(v, w) => j \in S \cup S2
  BY DEF Represents, Xor
<1>2. ASSUME \A j \in S \cup S2 : x \in PartySet[j]
      PROVE  Xor(v, w) = Cut(S \cup S2)
  <2>1. v = Cut(S) /\ w = Cut(S2)
    BY <1>2 DEF Represents
  <2> QED BY <2>1, CutUnion
<1>3. ASSUME \E j \in S \cup S2 : x \notin PartySet[j]
      PROVE  \E j \in S \cup S2 : Junk(j) \in Xor(v, w)
  <2>1. CASE \E j \in S : x \notin PartySet[j]
    <3>1. PICK j \in S : Junk(j) \in v
      BY <2>1 DEF Represents
    <3>2. Junk(j) \notin w
      BY <3>1 DEF Represents
    <3> QED BY <3>1, <3>2 DEF Xor
  <2>2. CASE \E j \in S2 : x \notin PartySet[j]
    <3>1. PICK j \in S2 : Junk(j) \in w
      BY <2>2 DEF Represents
    <3>2. Junk(j) \notin v
      BY <3>1 DEF Represents
    <3> QED BY <3>1, <3>2 DEF Xor
  <2> QED BY <1>3, <2>1, <2>2
<1> QED BY <1>1, <1>2, <1>3 DEF Represents

(* A share is an account of its owner.                                     *)
LEMMA ShareRepresents ==
    ASSUME NEW p \in Party, NEW x \in PartySet[p]
    PROVE  Represents(ShareOf(p), {p}, x)
BY ShareIsCut, NoJunkInCut DEF Represents

(* A table is an account of whatever the encoded values account for.       *)
LEMMA EncodeRepresents ==
    ASSUME NEW p \in Party, NEW S \in SUBSET Party, p \in S, NEW vals,
           \A x \in PartySet[p] : Represents(vals[x], S, x)
    PROVE  \A x \in Element : Represents(Encode(p, vals)[x], S, x)
PROOF
<1> TAKE x \in Element
<1>1. CASE x \in PartySet[p]
  BY <1>1 DEF Encode
<1>2. CASE x \notin PartySet[p]
  <2>1. Encode(p, vals)[x] = {Junk(p)}
    BY <1>2 DEF Encode
  <2> QED BY <1>2, <2>1 DEF Represents, Junk
<1> QED BY <1>1, <1>2

(* Equality of an account of party 0 and one of all the others decides     *)
(* membership in the intersection.                                         *)
LEMMA ComparisonDecides ==
    ASSUME NEW x \in PartySet[0], NEW v, NEW w,
           Represents(v, {0}, x), Represents(w, 1..(N-1), x)
    PROVE  v = w <=> \A p \in Party : x \in PartySet[p]
PROOF
<1>0. 0 \in Party /\ Party = {0} \cup 1..(N-1)
  BY NAssumption DEF Party
<1>1. v = Cut({0})
  BY DEF Represents
<1>2. CASE \A p \in 1..(N-1) : x \in PartySet[p]
  BY <1>0, <1>1, <1>2, CutComplement DEF Represents
<1>3. CASE \E p \in 1..(N-1) : x \notin PartySet[p]
  <2>1. PICK j \in 1..(N-1) : Junk(j) \in w
    BY <1>3 DEF Represents
  <2> QED BY <1>0, <1>1, <1>3, <2>1, NoJunkInCut
<1> QED BY <1>2, <1>3
-----------------------------------------------------------------------------
(* Where the tables go: predecessors are parties, and the groups behind    *)
(* two tables that meet at a party are disjoint and cover what is behind   *)
(* the party.                                                              *)
LEMMA PredsUpstream ==
    ASSUME NEW p \in Party
    PROVE  /\ Preds(p) \subseteq Party \ {0}
           /\ Upstream(p) \subseteq Party
           /\ \A q \in Preds(p) : Preds(p) # {} /\ p # 0 /\ q # p
           /\ \A q \in Preds(p) : p \notin Upstream(q)
           /\ \A q, r \in Preds(p) : q # r => Upstream(q) \cap Upstream(r) = {}
           /\ p # 0 => {p} \cup UNION {Upstream(q) : q \in Preds(p)} = Upstream(p)
PROOF
<1> USE NAssumption, TopologyAssumption DEF Party
<1>1. CASE Topology = "ring"
  <2>1. CASE p \in {0, 1}
    BY <1>1, <2>1 DEF Preds, Upstream
  <2>2. CASE p \notin {0, 1}
    <3>1. Preds(p) = {p - 1} /\ p - 1 \in Party /\ p - 1 # 0 /\ p \in Nat
      BY <1>1, <2>2 DEF Preds
    <3>2. Upstream(p) = 1..p /\ Upstream(p - 1) = 1..(p - 1)
      BY <1>1 DEF Upstream
    <3>3. {p} \cup 1..(p - 1) = 1..p /\ p \notin 1..(p - 1)
      BY <2>2
    <3> QED BY <3>1, <3>2, <3>3
  <2> QED BY <2>1, <2>2
<1>2. CASE Topology = "star"
  <2>1. \A q \in 1..(N-2) : Preds(q) = {} /\ Upstream(q) = {q}
    BY <1>2 DEF Preds, Upstream
  <2>2. CASE p = N - 1
    <3>1. Preds(p) = 1..(N-2)
      BY <1>2, <2>2 DEF Preds
    <3>2. Upstream(p) = {p} \cup 1..(N-2)
      BY <1>2, <3>1 DEF Upstream
    <3> QED BY <2>1, <2>2, <3>1, <3>2
  <2>3. CASE p # N - 1
    BY <1>2, <2>3 DEF Preds, Upstream
  <2> QED BY <2>2, <2>3
<1> QED BY <1>1, <1>2, TopologyAssumption
-----------------------------------------------------------------------------
(* Shares and garbage are made of tokens.                                  *)
LEMMA TokenType ==
    ASSUME NEW p \in Party
    PROVE  ShareOf(p) \in SUBSET Token /\ {Junk(p)} \in SUBSET Token
PROOF
<1>1. ShareOf(p) \in SUBSET Token
  BY ShareIsCut, CutType
<1>2. Junk(p) \in Token
  BY DEF Junk, Token
<1> QED BY <1>1, <1>2

(* A published table decodes to a XOR of tokens everywhere.                *)
LEMMA EncodeType ==
    ASSUME NEW p \in Party, NEW vals \in [PartySet[p] -> SUBSET Token]
    PROVE  Encode(p, vals) \in [Element -> SUBSET Token]
BY TokenType DEF Encode

(* The initial state has its types, and steps of Rounds preserve them.     *)
LEMMA InitTypeOK == Init => TypeOK
BY DEF Init, TypeOK, NoValues, NoTable

(* One case per action.                                                    *)
LEMMA NextTypeOK == TypeOK /\ [Next]_vars => TypeOK'
PROOF
<1> SUFFICES ASSUME TypeOK, [Next]_vars PROVE TypeOK'
  OBVIOUS
<1>0. 0 \in Party /\ N - 1 \in Party /\ PartySet[0] \subseteq Element
  BY NAssumption, PartySetAssumption DEF Party
<1>1. ASSUME NEW p \in Party, Combine(p) PROVE TypeOK'
  BY <1>1, TokenType DEF Combine, TypeOK
<1>2. ASSUME NEW p \in Party, NEW q \in Party, Absorb(p, q) PROVE TypeOK'
  <2>1. ASSUME NEW x \in PartySet[p]
        PROVE  Xor(values[p][x], table[q][x]) \in SUBSET Token
    <3>1. values[p][x] \in SUBSET Token /\ table[q][x] \in SUBSET Token
      BY PartySetAssumption DEF TypeOK
    <3> QED BY <3>1 DEF Xor
  <2>2. values'[p] \in [PartySet[p] -> SUBSET Token]
    BY <1>2, <2>1 DEF Absorb, TypeOK
  <2>3. /\ values' = [r \in Party |-> values'[r]]
        /\ \A r \in Party \ {p} : values'[r] = values[r]
    BY <1>2 DEF Absorb, TypeOK
  <2>4. heard' \in [Party -> SUBSET Party]
    BY <1>2 DEF Absorb, TypeOK
  <2> QED BY <1>2, <2>2, <2>3, <2>4 DEF Absorb, TypeOK
<1>3. ASSUME NEW p \in Party, Publish(p) PROVE TypeOK'
  BY <1>3, EncodeType DEF Publish, TypeOK
<1>4. CASE Output
  BY <1>0, <1>4 DEF Output, TypeOK
<1>5. CASE UNCHANGED vars
  BY <1>5 DEF vars, TypeOK
<1> QED BY <1>1, <1>2, <1>3, <1>4, <1>5 DEF Next, Terminated

(* Every reachable state has the types of TypeOK: in particular all values *)
(* and tables are XORs of the pads of the run (and of table garbage).      *)
THEOREM TypeCorrect == Spec => []TypeOK
BY InitTypeOK, NextTypeOK, PTL DEF Spec
-----------------------------------------------------------------------------
(* What the guards of the actions leave behind: it tells which group the   *)
(* values and tables of Accounting stand for.                              *)
Progress ==
    /\ \A p \in Party : heard[p] \subseteq Preds(p)
    /\ \A p \in Party : phase[p] = "start" => heard[p] = {}
    /\ \A p \in Party \ {0} : phase[p] = "done" => heard[p] = Preds(p)
    /\ phase[0] # "done" => result = {}

IInv == TypeOK /\ Progress /\ Accounting /\ Correctness

(* The invariant holds before any party has combined its pads.             *)
LEMMA InitIInv == Init => IInv
BY InitTypeOK, NAssumption DEF Init, IInv, Progress, Accounting, Correctness, Party

(* A party that combines its pads accounts for itself alone.               *)
LEMMA CombineIInv ==
    ASSUME IInv, TypeOK', NEW p \in Party, Combine(p)
    PROVE  IInv'
PROOF
<1> USE DEF Combine, TypeOK, IInv
<1>1. Progress'
  BY DEF Progress
<1>2. ASSUME NEW q \in Party, phase'[q] # "start", NEW x \in PartySet[q]
      PROVE  Represents(values'[q][x], Covered(q)', x)
  <2>1. CASE q = p
    <3>1. heard[p] = {} /\ Covered(p)' = {p}
      BY DEF Progress, Covered
    <3>2. values'[p][x] = ShareOf(p)
      BY <1>2, <2>1
    <3> QED BY <1>2, <2>1, <3>1, <3>2, ShareRepresents
  <2>2. CASE q # p
    <3>1. Covered(q)' = Covered(q) /\ values'[q] = values[q] /\ phase'[q] = phase[q]
      BY <2>2 DEF Covered
    <3> QED BY <1>2, <3>1 DEF Accounting
  <2> QED BY <2>1, <2>2
<1>3. ASSUME NEW q \in Party \ {0}, phase'[q] = "done", NEW x \in Element
      PROVE  Represents(table'[q][x], Upstream(q), x)
  BY <1>3 DEF Accounting
<1>4. Correctness'
  BY DEF Correctness
<1> QED BY <1>1, <1>2, <1>3, <1>4 DEF Accounting

(* A party only ever covers parties.                                       *)
LEMMA CoveredType ==
    ASSUME Progress, NEW p \in Party
    PROVE  Covered(p) \subseteq Party
BY PredsUpstream DEF Progress, Covered

(* An absorbed table adds exactly the parties upstream of its sender.      *)
LEMMA AbsorbIInv ==
    ASSUME IInv, TypeOK', NEW p \in Party, NEW q \in Party, Absorb(p, q)
    PROVE  IInv'
PROOF
<1> USE DEF Absorb, TypeOK, IInv
<1>0. q \in Preds(p) /\ q \notin heard[p] /\ heard[p] \subseteq Preds(p)
  BY DEF Progress
<1>1. Progress'
  <2>1. heard' = [heard EXCEPT ![p] = heard[p] \cup {q}]
    OBVIOUS
  <2> QED BY <1>0, <2>1 DEF Progress
<1>2. /\ Covered(p)' = Covered(p) \cup Upstream(q)
      /\ Covered(p) \cap Upstream(q) = {}
      /\ Covered(p) \subseteq Party /\ Upstream(q) \subseteq Party
  <2>1. Covered(p)' = Covered(p) \cup Upstream(q)
    <3>1. heard'[p] = heard[p] \cup {q}
      OBVIOUS
    <3> QED BY <3>1 DEF Covered
  <2>2. p \notin Upstream(q)
    BY <1>0, PredsUpstream
  <2>3. \A r \in heard[p] : Upstream(r) \cap Upstream(q) = {}
    BY <1>0, PredsUpstream
  <2>4. Covered(p) \cap Upstream(q) = {}
    BY <2>2, <2>3 DEF Covered
  <2> QED BY <2>1, <2>4, PredsUpstream, CoveredType
<1>3. ASSUME NEW x \in PartySet[p]
      PROVE  Represents(values'[p][x], Covered(p)', x)
  <2>1. Represents(values[p][x], Covered(p), x)
    BY DEF Accounting
  <2>2. q # 0 /\ x \in Element
    BY <1>0, PredsUpstream, PartySetAssumption
  <2>3. Represents(table[q][x], Upstream(q), x)
    BY <2>2 DEF Accounting
  <2>4. values'[p][x] = Xor(values[p][x], table[q][x])
    OBVIOUS
  <2>5. Represents(Xor(values[p][x], table[q][x]), Covered(p) \cup Upstream(q), x)
    <3> HIDE DEF Absorb, TypeOK, IInv
    <3> QED BY <1>2, <2>1, <2>3, XorRepresents
  <2> QED BY <1>2, <2>4, <2>5
<1>4. ASSUME NEW r \in Party \ {p}
      PROVE  Covered(r)' = Covered(r) /\ values'[r] = values[r]
  BY DEF Covered
<1>5. ASSUME NEW r \in Party, phase'[r] # "start", NEW x \in PartySet[r]
      PROVE  Represents(values'[r][x], Covered(r)', x)
  <2>1. CASE r = p
    BY <1>3, <2>1
  <2>2. CASE r # p
    <3>1. Represents(values[r][x], Covered(r), x)
      BY <1>5 DEF Accounting
    <3> QED BY <1>4, <2>2, <3>1
  <2> QED BY <2>1, <2>2
<1>6. ASSUME NEW r \in Party \ {0}, phase'[r] = "done", NEW x \in Element
      PROVE  Represents(table'[r][x], Upstream(r), x)
  BY <1>6 DEF Accounting
<1>7. Correctness'
  BY DEF Correctness, Intersection
<1> QED BY <1>1, <1>5, <1>6, <1>7 DEF Accounting

(* Once all predecessors are absorbed, a party covers all its upstream.    *)
LEMMA PublishIInv ==
    ASSUME IInv, TypeOK', NEW p \in Party, Publish(p)
    PROVE  IInv'
PROOF
<1> USE DEF Publish, TypeOK, IInv
<1>1. Progress'
  BY DEF Progress
<1>2. Covered(p) = Upstream(p) /\ Covered(p) \subseteq Party
  BY PredsUpstream DEF Covered
<1>3. \A x \in Element : Represents(Encode(p, values[p])[x], Upstream(p), x)
  <2>1. \A x \in PartySet[p] : Represents(values[p][x], Covered(p), x)
    BY DEF Accounting
  <2>2. p \in Covered(p)
    BY DEF Covered
  <2> DEFINE S == Covered(p)
  <2>3. S \in SUBSET Party /\ p \in S /\ \A x \in PartySet[p] : Represents(values[p][x], S, x)
    BY <1>2, <2>1, <2>2
  <2> HIDE DEF S, Publish, TypeOK, IInv
  <2>4. \A x \in Element : Represents(Encode(p, values[p])[x], S, x)
    BY <2>3, EncodeRepresents
  <2> QED BY <1>2, <2>4 DEF S
<1>4. \A r \in Party : Covered(r)' = Covered(r)
  BY DEF Covered
<1>5. \A r \in Party \ {p} : table'[r] = table[r] /\ phase'[r] = phase[r]
  OBVIOUS
<1>6. table'[p] = Encode(p, values[p]) /\ phase[p] # "start"
  OBVIOUS
<1>7. Accounting'
  BY <1>3, <1>4, <1>5, <1>6 DEF Accounting
<1> QED BY <1>1, <1>7 DEF Correctness

(* The answer is the intersection when party 0 gives it.                   *)
LEMMA OutputDecides ==
    ASSUME IInv, Output
    PROVE  result' = {Intersection}
PROOF
<1>1. 0 \in Party /\ N - 1 \in Party /\ N - 1 # 0
  BY NAssumption DEF Party
<1>2. Covered(0) = {0}
  <2>1. Preds(0) = {}
    BY NAssumption, TopologyAssumption DEF Preds
  <2> QED BY <1>1, <2>1 DEF IInv, Progress, Covered
<1>3. Upstream(N-1) = 1..(N-1)
  <2>1. CASE Topology = "ring"
    BY <2>1 DEF Upstream
  <2>2. CASE Topology = "star"
    <3>1. Upstream(N-1) = {N-1} \cup 1..(N-2)
      BY <2>2 DEF Upstream, Preds
    <3> QED BY <3>1, NAssumption
  <2> QED BY <2>1, <2>2, TopologyAssumption
<1>4. ASSUME NEW x \in PartySet[0]
      PROVE  values[0][x] = table[N-1][x] <=> \A p \in Party : x \in PartySet[p]
  <2>1. Represents(values[0][x], {0}, x)
    BY <1>1, <1>2 DEF IInv, Accounting, Output
  <2>2. Represents(table[N-1][x], 1..(N-1), x)
    BY <1>1, <1>3, PartySetAssumption DEF IInv, Accounting, Output
  <2> QED BY <2>1, <2>2, ComparisonDecides
<1>5. PartySet[0] \subseteq Element
  BY <1>1, PartySetAssumption
<1>6. {x \in PartySet[0] : values[0][x] = table[N-1][x]} = Intersection
  BY <1>1, <1>4, <1>5 DEF Intersection
<1> QED BY <1>6 DEF Output

(* The answer of party 0 changes nothing else.                             *)
LEMMA OutputIInv ==
    ASSUME IInv, TypeOK', Output
    PROVE  IInv'
PROOF
<1>1. Correctness'
  BY OutputDecides DEF Correctness, Intersection
<1>2. /\ 0 \in Party
      /\ phase' = [phase EXCEPT ![0] = "done"]
      /\ phase \in [Party -> {"start", "combined", "done"}]
      /\ phase[0] = "combined"
      /\ UNCHANGED <<values, heard, table>>
  BY NAssumption DEF Output, TypeOK, IInv, Party
<1>3. Progress'
  BY <1>2 DEF IInv, Progress
<1>4. \A p \in Party : Covered(p)' = Covered(p)
  BY <1>2 DEF Covered
<1>5. Accounting'
  BY <1>2, <1>4 DEF IInv, Accounting
<1> QED BY <1>1, <1>3, <1>5 DEF IInv

(* Every step preserves the invariant.                                     *)
LEMMA NextIInv == IInv /\ [Next]_vars => IInv'
PROOF
<1> SUFFICES ASSUME IInv, [Next]_vars PROVE IInv'
  OBVIOUS
<1>0. TypeOK'
  BY NextTypeOK DEF IInv
<1>1. CASE UNCHANGED vars
  BY <1>1 DEF vars, IInv, TypeOK, Progress, Accounting, Correctness, Covered
<1> QED BY <1>0, <1>1, CombineIInv, AbsorbIInv, PublishIInv, OutputIInv
        DEF Next, Terminated

(* The types, the bookkeeping, the accounting of shares and the answer of  *)
(* party 0 hold together in every reachable state.                         *)
THEOREM Inductive == Spec => []IInv
BY InitIInv, NextIInv, PTL DEF Spec

(* Nothing is lost or counted twice on the way of the shares.              *)
THEOREM SharesAccounted == Spec => []Accounting
<1>1. IInv => Accounting
  BY DEF IInv
<1> QED BY <1>1, Inductive, PTL

(* Party 0 never gives an answer other than the intersection.              *)
THEOREM Correct == Spec => []Correctness
<1>1. IInv => Correctness
  BY DEF IInv
<1> QED BY <1>1, Inductive, PTL

(* The protocol implements private set intersection: it answers once, with *)
(* the intersection (that it does answer is left to the model checker).    *)
THEOREM ImplementsPsi == Spec => AbstractSafety
PROOF
<1>1. Init => Abstract!Init
  BY DEF Init, Abstract!Init
<1>2. IInv /\ [Next]_vars => [Abstract!Output]_result
  <2> SUFFICES ASSUME IInv, Next PROVE [Abstract!Output]_result
    BY DEF vars
  <2>1. CASE Output
    <3>1. result = {}
      BY <2>1 DEF IInv, Progress, Output
    <3> QED BY <2>1, <3>1, OutputDecides
            DEF Abstract!Output, Abstract!Intersection, Intersection
  <2>2. CASE ~Output
    BY <2>2 DEF Next, Combine, Absorb, Publish, Terminated, vars
  <2> QED BY <2>1, <2>2
<1> QED BY <1>1, <1>2, Inductive, PTL DEF Spec, AbstractSafety
=============================================================================
