----------------------------- MODULE MpsiProofs -----------------------------
(***************************************************************************)
(* Proofs about Mpsi, for any number of parties, any threshold, both       *)
(* topologies, any capacity of the sockets and any input sets: the safety  *)
(* of the message protocol, and that it implements Rounds.  What is proved *)
(* from Inv holds of oringt1 as well, see OringT1Proofs.                   *)
(***************************************************************************)
EXTENDS Mpsi, SequenceTheorems, FiniteSetTheorems, TLAPS

RP == INSTANCE RoundsProofs WITH phase <- Phase, table <- Published

(* A matrix has an entry for each pair of parties.                         *)
Matrix(f) == DOMAIN f = Party /\ \A p \in Party : DOMAIN f[p] = Party

Msg(k, b) == [kind |-> k, body |-> b]

(* How far a worker is with the session at position k of its pair.         *)
Before(w, k) == w.session < k \/ (w.session = k /\ w.at \in {"none", "open"})
In(w, k, a) == w.session = k /\ w.at = a
Past(w, k) == w.session > k \/ w.at = "done"

(* The states of the session (s, r) at position k: the two workers, w of   *)
(* s and v of r, with the blocks in their omegas, ow and ov, and the       *)
(* values so and ro they computed.                                         *)
SessionAt(s, r, k, w, v, ow, ov, so, ro) ==
    LET sent == {Fresh(s, s, r)}
        got  == {Fresh(r, s, r)}
        both == {Fresh(s, s, r), Fresh(r, s, r)}
        pad  == {Oprf(s, r)}
    IN  \/ Before(w, k) /\ Before(v, k) /\ so = {} /\ ro = {}
        \/ /\ In(w, k, "recvOmega") /\ ow = sent /\ so = {}
           /\ In(v, k, "sendOmega") \/ In(v, k, "recvOmega")
           /\ ov = got /\ ro = {}
        \/ /\ In(w, k, "sendOmega") \/ In(w, k, "recvAPrime")
           /\ ow = both /\ so = {}
           /\ In(v, k, "recvOmega") /\ ov = got /\ ro = {}
        \/ /\ In(w, k, "recvAPrime") /\ ow = both /\ so = {}
           /\ \/ In(v, k, "sendAPrime") /\ ov = both /\ ro = {}
              \/ Past(v, k) /\ ro = pad
        \/ Past(w, k) /\ Past(v, k) /\ so = pad /\ ro = pad

(* The message of a session that is on its way from p to q, with w the     *)
(* worker of p for q and v that of q for p.                                *)
Talk(p, q, w, v) ==
    IF v.at = "recvOmega" /\ w.at = "recvOmega" /\ Roles(p, q)[w.session] = "rcv"
      THEN <<Msg("omega", {Fresh(p, q, p)})>>
    ELSE IF v.at = "recvOmega" /\ w.at = "recvAPrime"
      THEN <<Msg("omega", {Fresh(p, p, q)})>>
    ELSE IF v.at = "recvAPrime" /\ w.at \notin {"recvOmega", "sendAPrime"}
      THEN <<Msg("aprime", {<<q, p>>})>>
    ELSE <<>>

(* The seed and the table on their way from p to q, with m the stages of   *)
(* the main threads and h the tables q has decoded.                        *)
Seeded(p, q, w, m) == p = 0 /\ q \in MaskPeers /\ w.at = "done" /\ m[q] = "mask"

Tabled(p, q, m, h) ==
    /\ p # 0 /\ NextHop(p) = q /\ m[p] = "closed"
    /\ IF q = 0 THEN m[0] # "closed" ELSE p \notin h

Mail(p, q, w, v, m) ==
    IF Seeded(p, q, w, m) THEN <<Msg("seed", {Mask(0, q)})>> ELSE Talk(p, q, w, v)

(* The line from p to q: a table is behind everything else.                *)
Line(mail, p, q, m, h, f) ==
    IF Tabled(p, q, m, h) THEN Append(mail, Msg("table", Encode(p, f))) ELSE mail

Types ==
    /\ main \in [Party -> {"mask", "oprf", "table", "closed"}]
    /\ worker \in [Party -> [Party -> [session : {1, 2}, at : Steps]]]
    /\ Matrix(omega) /\ Matrix(chan) /\ Matrix(senderOprf) /\ Matrix(receiverOprf)
    /\ DOMAIN mask = Party /\ DOMAIN values = Party
    /\ heard \in [Party -> SUBSET Party]

(* The worker w of p for q, whose main thread is at m.                     *)
WorkerAt(p, q, m, w) ==
    IF Roles(p, q) = <<>>
      THEN w.at \in {"none", "seed", "done"}
      ELSE /\ w.session \in 1..Len(Roles(p, q)) /\ w.at # "seed"
           /\ w.at = "done" => w.session = Len(Roles(p, q))
           /\ m = "mask" <=> w.at = "none"
           /\ w.at = "none" => w.session = 1
           /\ m \in {"table", "closed"} => w.at = "done"

WorkerInv == \A p, q \in Party : WorkerAt(p, q, main[p], worker[p][q])

SessionInv ==
    \A s, r \in Party : \A k \in 1..Len(Roles(s, r)) : Roles(s, r)[k] = "snd" =>
        SessionAt(s, r, k, worker[s][r], worker[r][s], omega[s][r], omega[r][s],
                  senderOprf[s][r], receiverOprf[r][s])

LineInv ==
    \A p, q \in Party :
        chan[p][q] = Line(Mail(p, q, worker[p][q], worker[q][p], main),
                          p, q, main, heard[q], values[p])

LengthInv == \A p, q \in Party : Len(chan[p][q]) <= Capacity

(* Party 0 has its masks once all seeds are sent and its main thread is    *)
(* past the masks; it joins no other worker before.                        *)
SeedsSent == \A i \in MaskPeers : worker[0][i].at = "done"

MaskInv ==
    /\ \A p \in Party \ {0} : mask[p] = IF main[p] = "mask" THEN {} ELSE MaskTerms(p)
    /\ mask[0] = IF main[0] # "mask" /\ SeedsSent THEN MaskTerms(0) ELSE {}
    /\ \A p \in Party : main[p] = "mask" => Masked(p)
    /\ \A i \in MaskPeers : worker[0][i].at # "done" => main[i] = "mask"
    /\ SeedsSent \/ main[0] \in {"mask", "oprf"}

HeardInv ==
    /\ \A p \in Party : heard[p] \subseteq {q \in Preds(p) : main[q] = "closed"}
    /\ \A p \in Party : main[p] \in {"mask", "oprf"} => heard[p] = {}
    /\ \A p \in Party \ {0} : main[p] = "closed" => heard[p] = Preds(p)
    /\ main[0] = "closed" => main[N-1] = "closed"

Inv == Types /\ WorkerInv /\ SessionInv /\ LineInv /\ LengthInv /\ MaskInv /\ HeardInv

(* mpsi.cpp joins the mask workers before it creates the others.           *)
MasksFirst == main[0] = "mask" \/ SeedsSent
-----------------------------------------------------------------------------
(* The two ends of a pair agree on their sessions, and no pair runs the    *)
(* same session twice.                                                     *)
LEMMA RolesFacts ==
    ASSUME NEW p \in Party, NEW q \in Party
    PROVE  /\ Len(Roles(p, q)) \in 0..2 /\ Len(Roles(q, p)) = Len(Roles(p, q))
           /\ Roles(p, q) = <<>> <=> Len(Roles(p, q)) = 0
           /\ Roles(q, p) = <<>> <=> Len(Roles(p, q)) = 0
           /\ Roles(p, q) # <<>> => p # q
           /\ \A k \in 1..Len(Roles(p, q)) :
                /\ Roles(p, q)[k] \in {"snd", "rcv"}
                /\ Roles(p, q)[k] = "snd" <=> Roles(q, p)[k] = "rcv"
           /\ Len(Roles(p, q)) = 2 => Roles(p, q)[1] # Roles(p, q)[2]
PROOF
<1>1. p \in Int /\ q \in Int
  BY NAssumption DEF Party
<1>2. \/ Roles(p, q) = <<>> /\ Roles(q, p) = <<>>
      \/ Roles(p, q) = <<"snd">> /\ Roles(q, p) = <<"rcv">> /\ p # q
      \/ Roles(p, q) = <<"rcv">> /\ Roles(q, p) = <<"snd">> /\ p # q
      \/ Roles(p, q) = <<"snd", "rcv">> /\ Roles(q, p) = <<"rcv", "snd">> /\ p # q
      \/ Roles(p, q) = <<"rcv", "snd">> /\ Roles(q, p) = <<"snd", "rcv">> /\ p # q
  <2>1. CASE p \notin LastT /\ q \notin LastT
    BY <2>1 DEF Roles
  <2>2. CASE p \notin LastT /\ q \in LastT
    BY <2>2 DEF Roles
  <2>3. CASE p \in LastT /\ q \notin LastT
    BY <2>3 DEF Roles
  <2>4. CASE p \in LastT /\ q \in LastT
    BY <1>1, <2>4 DEF Roles
  <2> QED BY <2>1, <2>2, <2>3, <2>4
<1> HIDE DEF Roles
<1>3. CASE Roles(p, q) = <<>> /\ Roles(q, p) = <<>>
  BY <1>3
<1>4. CASE Roles(p, q) = <<"snd">> /\ Roles(q, p) = <<"rcv">> /\ p # q
  BY <1>4
<1>5. CASE Roles(p, q) = <<"rcv">> /\ Roles(q, p) = <<"snd">> /\ p # q
  BY <1>5
<1>6. CASE Roles(p, q) = <<"snd", "rcv">> /\ Roles(q, p) = <<"rcv", "snd">> /\ p # q
  BY <1>6
<1>7. CASE Roles(p, q) = <<"rcv", "snd">> /\ Roles(q, p) = <<"snd", "rcv">> /\ p # q
  BY <1>7
<1> QED BY <1>2, <1>3, <1>4, <1>5, <1>6, <1>7

(* The parties that share a mask run no OPRF, nor is either party 0's      *)
(* predecessor.                                                            *)
LEMMA MaskFacts ==
    /\ 0 \in Party /\ N-1 \in Party /\ N-1 # 0
    /\ \A i \in MaskPeers : i \in Party /\ i # 0 /\ Roles(0, i) = <<>> /\ Roles(i, 0) = <<>>
    /\ \A p \in Party : Masked(p) <=> (p = 0 /\ MaskPeers # {}) \/ p \in MaskPeers
    /\ \A i \in MaskPeers : MaskTerms(i) = {Mask(0, i)}
PROOF
<1>1. 0 \in Party /\ N-1 \in Party /\ N-1 # 0 /\ 0 \notin LastT
  BY NAssumption, TAssumption DEF Party, LastT
<1>2. \A i \in MaskPeers : i \in Party /\ i # 0 /\ i \notin LastT
  BY NAssumption, TAssumption, MaskPeersAssumption DEF Party, LastT, Middle
<1>3. \A i \in MaskPeers : Roles(0, i) = <<>> /\ Roles(i, 0) = <<>>
  BY <1>1, <1>2 DEF Roles
<1>4. \A p \in Party : Masked(p) <=> (p = 0 /\ MaskPeers # {}) \/ p \in MaskPeers
  BY <1>2 DEF Masked, MaskTerms
<1>5. \A i \in MaskPeers : MaskTerms(i) = {Mask(0, i)}
  BY <1>2 DEF MaskTerms
<1> QED BY <1>1, <1>2, <1>3, <1>4, <1>5

(* A table is sent to the party that waits for it.                         *)
LEMMA RouteFacts ==
    /\ \A p \in Party : NextHop(p) \in Party /\ (NextHop(p) = 0 => p = N-1)
    /\ NextHop(N-1) = 0
    /\ \A p, q \in Party : q # 0 /\ p # 0 => (NextHop(q) = p <=> q \in Preds(p))
    /\ \A p \in Party : Preds(p) \subseteq Party \ {0}
    /\ Preds(0) = {}
PROOF
<1> USE NAssumption DEF Party, NextHop, Preds
<1>1. CASE Topology = "ring"
  BY <1>1
<1>2. CASE Topology = "star"
  BY <1>2
<1> QED BY <1>1, <1>2, TopologyAssumption

(* The values a party combines come from sessions of its own.              *)
LEMMA TermFacts ==
    ASSUME NEW p \in Party
    PROVE  /\ \A q \in ReceiverTerms(p) : q \in Party /\ q # p /\
                \E k \in 1..Len(Roles(q, p)) : Roles(q, p)[k] = "snd"
           /\ \A q \in SenderTerms(p) : q \in Party /\ q # p /\
                \E k \in 1..Len(Roles(p, q)) : Roles(p, q)[k] = "snd"
PROOF
<1>1. \A q \in ReceiverTerms(p) \cup SenderTerms(p) : q \in Party /\ q # p
  BY NAssumption, TAssumption DEF Party, LastT, Middle, ReceiverTerms, SenderTerms
<1>2. ASSUME NEW q \in ReceiverTerms(p)
      PROVE  \E k \in 1..Len(Roles(q, p)) : Roles(q, p)[k] = "snd"
  <2>1. Roles(q, p) \in {<<"snd">>, <<"snd", "rcv">>, <<"rcv", "snd">>}
    BY <1>1, NAssumption, TAssumption DEF Party, LastT, Middle, ReceiverTerms, Roles
  <2> QED BY <2>1
<1>3. ASSUME NEW q \in SenderTerms(p)
      PROVE  \E k \in 1..Len(Roles(p, q)) : Roles(p, q)[k] = "snd"
  <2>1. Roles(p, q) \in {<<"snd">>, <<"snd", "rcv">>, <<"rcv", "snd">>}
    BY <1>1, NAssumption, TAssumption DEF Party, LastT, Middle, SenderTerms, Roles
  <2> QED BY <2>1
<1> QED BY <1>1, <1>2, <1>3
-----------------------------------------------------------------------------
(* What a thread does to its own worker state.                             *)
LEMMA AtEntry ==
    ASSUME NEW f \in [Party -> [Party -> [session : {1, 2}, at : Steps]]],
           NEW p \in Party, NEW q \in Party, NEW a \in Steps
    PROVE  LET g == [f EXCEPT ![p][q].at = a]
           IN  /\ g \in [Party -> [Party -> [session : {1, 2}, at : Steps]]]
               /\ g[p][q] = [session |-> f[p][q].session, at |-> a]
               /\ \A i, j \in Party : i # p \/ j # q => g[i][j] = f[i][j]
OBVIOUS

LEMMA GotoEntry ==
    ASSUME Types, NEW p \in Party, NEW q \in Party, NEW a \in Steps, Goto(p, q, a)
    PROVE  /\ worker' \in [Party -> [Party -> [session : {1, 2}, at : Steps]]]
           /\ worker'[p][q] = [session |-> worker[p][q].session, at |-> a]
           /\ \A i, j \in Party : i # p \/ j # q => worker'[i][j] = worker[i][j]
BY DEF Types, Goto

Next2(w, n) ==
    IF w.session < n THEN [session |-> w.session + 1, at |-> "open"]
                     ELSE [session |-> w.session, at |-> "done"]

LEMMA LeaveEntry ==
    ASSUME Types, NEW p \in Party, NEW q \in Party, Leave(p, q)
    PROVE  /\ worker' \in [Party -> [Party -> [session : {1, 2}, at : Steps]]]
           /\ worker'[p][q] = Next2(worker[p][q], Len(Roles(p, q)))
           /\ \A i, j \in Party : i # p \/ j # q => worker'[i][j] = worker[i][j]
PROOF
<1>1. /\ worker[p][q] \in [session : {1, 2}, at : Steps]
      /\ Len(Roles(p, q)) \in 0..2
  BY RolesFacts DEF Types
<1>2. ASSUME NEW w \in [session : {1, 2}, at : Steps], NEW n \in 0..2
      PROVE  /\ Next2(w, n) \in [session : {1, 2}, at : Steps]
             /\ [w EXCEPT !.at = "done"] = [session |-> w.session, at |-> "done"]
  <2>1. CASE w.session < n
    <3>1. Next2(w, n) = [session |-> 2, at |-> "open"]
      BY <2>1 DEF Next2
    <3> QED BY <3>1 DEF Steps
  <2>2. CASE ~(w.session < n)
    BY <2>2 DEF Next2, Steps
  <2> QED BY <2>1, <2>2
<1>3. worker' = [worker EXCEPT ![p][q] = Next2(worker[p][q], Len(Roles(p, q)))]
  BY <1>1, <1>2 DEF Leave, Next2
<1>4. Next2(worker[p][q], Len(Roles(p, q))) \in [session : {1, 2}, at : Steps]
  BY <1>1, <1>2
<1>5. worker \in [Party -> [Party -> [session : {1, 2}, at : Steps]]]
  BY DEF Types
<1> QED BY <1>3, <1>4, <1>5

(* A second message behind a first.                                        *)
LEMMA AppendPair ==
    ASSUME NEW m, NEW u
    PROVE  Append(<<m>>, u) = <<m, u>>
PROOF
<1> DEFINE s == Append(<<m>>, u)
           t == <<m, u>>
<1>1. /\ <<m>> \in Seq({m, u}) /\ u \in {m, u}
      /\ t \in Seq({m, u}) /\ Len(t) = 2 /\ t[1] = m /\ t[2] = u
  OBVIOUS
<1>2. s \in Seq({m, u}) /\ Len(s) = 2 /\ s[1] = m /\ s[2] = u
  BY <1>1, AppendProperties
<1> HIDE DEF s, t
<1>3. \A i \in 1..Len(s) : s[i] = t[i]
  BY <1>1, <1>2
<1>4. s = t
  BY <1>1, <1>2, <1>3, SeqEqual
<1> QED BY <1>4 DEF s, t

(* What the reader of a line finds.                                        *)
LEMMA LineReceive ==
    ASSUME NEW x, NEW p, NEW q, NEW m, NEW h, NEW f, NEW c, c = Line(<<x>>, p, q, m, h, f)
    PROVE  /\ c # <<>> /\ Head(c) = x
           /\ Tail(c) = Line(<<>>, p, q, m, h, f)
           /\ Len(c) \in Nat /\ Len(Tail(c)) \in Nat /\ Len(Tail(c)) <= Len(c)
PROOF
<1> DEFINE t == Msg("table", Encode(p, f))
<1>1. CASE Tabled(p, q, m, h)
  <2>1. Append(<<x>>, t) = <<x, t>> /\ Append(<<>>, t) = <<t>>
    BY AppendPair
  <2>2. c = <<x, t>> /\ Line(<<>>, p, q, m, h, f) = <<t>>
    BY <1>1, <2>1 DEF Line
  <2>3. \A u : /\ <<x, u>> # <<>> /\ Head(<<x, u>>) = x /\ Tail(<<x, u>>) = <<u>>
              /\ Len(<<x, u>>) \in Nat /\ Len(<<u>>) \in Nat /\ Len(<<u>>) <= Len(<<x, u>>)
    OBVIOUS
  <2> QED BY <2>2, <2>3, Zenon
<1>2. CASE ~Tabled(p, q, m, h)
  <2>1. c = <<x>> /\ Line(<<>>, p, q, m, h, f) = <<>>
    BY <1>2 DEF Line
  <2>2. /\ <<x>> # <<>> /\ Head(<<x>>) = x /\ Tail(<<x>>) = <<>>
        /\ Len(<<x>>) \in Nat /\ Len(<<>>) \in Nat /\ Len(<<>>) <= Len(<<x>>)
    OBVIOUS
  <2> QED BY <2>1, <2>2, Zenon
<1> QED BY <1>1, <1>2
-----------------------------------------------------------------------------
(* While the session at position k of a pair runs, the other one has not   *)
(* begun or is over, and stays so.                                         *)
Moved(x, y, k) ==
    \/ y = x
    \/ y.session = k
    \/ k = 1 /\ y.session = 2 /\ y.at = "open"

LEMMA OtherSession ==
    ASSUME NEW k \in 1..2, NEW k2 \in 1..2, k # k2, NEW s, NEW r,
           NEW w, NEW v, NEW w2, NEW v2, NEW ow, NEW ov, NEW ow2, NEW ov2, NEW so, NEW ro,
           SessionAt(r, s, k2, v, w, ov, ow, so, ro),
           w.session = k, w.at # "done", v.session \in 1..2, v.session = k \/ Past(v, k),
           v.at = "done" => v.session = 2, Moved(w, w2, k), Moved(v, v2, k)
    PROVE  SessionAt(r, s, k2, v2, w2, ov2, ow2, so, ro)
PROOF
<1>1. CASE k = 1 /\ k2 = 2
  <2>1. so = {} /\ ro = {} /\ Before(v, 2)
    BY <1>1 DEF SessionAt, Before, In, Past
  <2>2. Before(v2, 2) /\ Before(w2, 2)
    BY <1>1, <2>1 DEF Moved, Before
  <2> QED BY <1>1, <2>1, <2>2 DEF SessionAt
<1>2. CASE k = 2 /\ k2 = 1
  <2>1. v.session = 2
    BY <1>2 DEF Past
  <2>2. so = {Oprf(r, s)} /\ ro = {Oprf(r, s)}
    BY <1>2, <2>1 DEF SessionAt, Before, In
  <2>3. Past(v2, 1) /\ Past(w2, 1)
    BY <1>2, <2>1 DEF Moved, Past
  <2> QED BY <1>2, <2>2, <2>3 DEF SessionAt
<1> QED BY <1>1, <1>2

(* Where the other side of a session is while one side is in it.           *)
SenderSees(s, r, k, w, v, ow, ov, so, ro) ==
    /\ w.at = "open" => so = {} /\ ro = {}
    /\ w.at = "recvOmega" =>
         /\ v.session = k /\ v.at \in {"sendOmega", "recvOmega"} /\ so = {} /\ ro = {}
         /\ ow = {Fresh(s, s, r)} /\ ov = {Fresh(r, s, r)}
    /\ w.at = "sendOmega" =>
         /\ v.session = k /\ v.at = "recvOmega" /\ so = {} /\ ro = {}
         /\ ow = {Fresh(s, s, r), Fresh(r, s, r)} /\ ov = {Fresh(r, s, r)}
    /\ w.at = "recvAPrime" =>
         /\ ow = {Fresh(s, s, r), Fresh(r, s, r)} /\ so = {}
         /\ \/ v.session = k /\ v.at \in {"recvOmega", "sendAPrime"}
            \/ Past(v, k) /\ ro = {Oprf(s, r)}

ReceiverSees(s, r, k, w, v, ow, ov, so, ro) ==
    /\ v.at = "sendOmega" =>
         /\ w.session = k /\ w.at = "recvOmega" /\ so = {} /\ ro = {}
         /\ ow = {Fresh(s, s, r)} /\ ov = {Fresh(r, s, r)}
    /\ v.at = "recvOmega" =>
         /\ w.session = k /\ so = {} /\ ro = {} /\ ov = {Fresh(r, s, r)}
         /\ \/ w.at = "recvOmega" \/ w.at = "sendOmega"
            \/ w.at = "recvAPrime" /\ ow = {Fresh(s, s, r), Fresh(r, s, r)}
    /\ v.at = "sendAPrime" =>
         /\ w.session = k /\ w.at = "recvAPrime" /\ so = {} /\ ro = {}
         /\ ow = {Fresh(s, s, r), Fresh(r, s, r)}
         /\ ov = {Fresh(s, s, r), Fresh(r, s, r)}

LEMMA SenderAt ==
    ASSUME NEW s, NEW r, NEW k \in 1..2, NEW w, NEW v, NEW ow, NEW ov, NEW so, NEW ro,
           SessionAt(s, r, k, w, v, ow, ov, so, ro), w.session = k
    PROVE  SenderSees(s, r, k, w, v, ow, ov, so, ro)
PROOF
<1>1. ~(w.session < k) /\ ~(w.session > k)
  OBVIOUS
<1> QED BY <1>1 DEF SessionAt, Before, In, Past, SenderSees

LEMMA ReceiverAt ==
    ASSUME NEW s, NEW r, NEW k \in 1..2, NEW w, NEW v, NEW ow, NEW ov, NEW so, NEW ro,
           SessionAt(s, r, k, w, v, ow, ov, so, ro), v.session = k
    PROVE  ReceiverSees(s, r, k, w, v, ow, ov, so, ro)
PROOF
<1>1. ~(v.session < k) /\ ~(v.session > k)
  OBVIOUS
<1> QED BY <1>1 DEF SessionAt, Before, In, Past, ReceiverSees

(* A worker between its first and its last session is of its main thread's *)
(* OPRF stage before and after it moves.                                   *)
LEMMA WorkerMoves ==
    ASSUME NEW p, NEW q, NEW m, NEW w, NEW w2, Roles(p, q) # <<>>, WorkerAt(p, q, m, w),
           w.at # "none", w.at # "done", w2.at # "none", w2.at # "seed",
           w2.session \in 1..Len(Roles(p, q)), w2.at = "done" => w2.session = Len(Roles(p, q))
    PROVE  WorkerAt(p, q, m, w2)
PROOF
<1>1. m # "mask" /\ m \notin {"table", "closed"}
  BY DEF WorkerAt
<1> QED BY <1>1 DEF WorkerAt
-----------------------------------------------------------------------------
(* The session at position k in which s sends to r.                        *)
Session(s, r, k) == k \in 1..Len(Roles(s, r)) /\ Roles(s, r)[k] = "snd"

LEMMA SessionFacts ==
    ASSUME NEW s \in Party, NEW r \in Party, NEW k, Session(s, r, k)
    PROVE  /\ Roles(s, r) # <<>> /\ Roles(r, s) # <<>> /\ s # r
           /\ Len(Roles(s, r)) \in 1..2 /\ Len(Roles(r, s)) = Len(Roles(s, r))
           /\ k \in 1..2 /\ k <= Len(Roles(s, r)) /\ Roles(r, s)[k] = "rcv"
           /\ \A n : Session(s, r, n) => n = k
           /\ \A n : Session(r, s, n) => n \in 1..2 /\ n # k /\ Len(Roles(s, r)) = 2
PROOF
<1> DEFINE a == Roles(s, r)
           b == Roles(r, s)
<1>1. /\ Len(a) \in 0..2 /\ Len(b) = Len(a)
      /\ a = <<>> <=> Len(a) = 0
      /\ b = <<>> <=> Len(a) = 0
      /\ a # <<>> => s # r
      /\ \A n \in 1..Len(a) : a[n] = "snd" <=> b[n] = "rcv"
      /\ Len(a) = 2 => a[1] # a[2] /\ b[1] # b[2]
  BY RolesFacts
<1>2. k \in 1..Len(a) /\ a[k] = "snd"
  BY DEF Session
<1> HIDE DEF a, b
<1>3. Len(a) \in 1..2 /\ k \in 1..2 /\ b[k] = "rcv"
  BY <1>1, <1>2
<1>4. ASSUME NEW n \in 1..Len(a), n # k PROVE Len(a) = 2 /\ ((n = 1 /\ k = 2) \/ (n = 2 /\ k = 1))
  <2>1. Len(a) = 1 \/ Len(a) = 2
    BY <1>3
  <2>2. CASE Len(a) = 1
    BY <1>2, <1>4, <2>2
  <2>3. CASE Len(a) = 2
    BY <1>2, <1>4, <2>3
  <2> QED BY <2>1, <2>2, <2>3
<1>5. ASSUME NEW n \in 1..Len(a), a[n] = "snd" PROVE n = k
  BY <1>1, <1>2, <1>4, <1>5
<1>6. ASSUME NEW n \in 1..Len(a), b[n] = "snd" PROVE n # k /\ Len(a) = 2 /\ n \in 1..2
  BY <1>3, <1>4, <1>6
<1> QED BY <1>1, <1>2, <1>3, <1>5, <1>6 DEF a, b, Session

(* A step of the pair (s, r) in its session at position k.                 *)
Own(i, j, s, r) == (i = s /\ j = r) \/ (i = r /\ j = s)

Elsewhere(s, r) ==
    /\ UNCHANGED <<main, mask, values, heard>>
    /\ Matrix(omega') /\ Matrix(chan') /\ Matrix(senderOprf') /\ Matrix(receiverOprf')
    /\ worker' \in [Party -> [Party -> [session : {1, 2}, at : Steps]]]
    /\ \A i, j \in Party : ~Own(i, j, s, r) =>
         /\ worker'[i][j] = worker[i][j] /\ omega'[i][j] = omega[i][j]
         /\ chan'[i][j] = chan[i][j]
         /\ senderOprf'[i][j] = senderOprf[i][j] /\ receiverOprf'[i][j] = receiverOprf[i][j]
    /\ senderOprf'[r][s] = senderOprf[r][s] /\ receiverOprf'[s][r] = receiverOprf[s][r]

PairMoves(s, r, k) ==
    /\ worker[s][r].session = k /\ worker[s][r].at # "done"
    /\ worker[r][s].session = k \/ Past(worker[r][s], k)
    /\ Moved(worker[s][r], worker'[s][r], k) /\ Moved(worker[r][s], worker'[r][s], k)
    /\ WorkerAt(s, r, main[s], worker'[s][r]) /\ WorkerAt(r, s, main[r], worker'[r][s])
    /\ SessionAt(s, r, k, worker'[s][r], worker'[r][s], omega'[s][r], omega'[r][s],
                 senderOprf'[s][r], receiverOprf'[r][s])

LineMoves(s, r) ==
    /\ chan'[s][r] = Line(Talk(s, r, worker'[s][r], worker'[r][s]),
                          s, r, main, heard[r], values[s])
    /\ Len(chan'[s][r]) <= Capacity

LEMMA PairStep ==
    ASSUME Inv, NEW s \in Party, NEW r \in Party, NEW k, Session(s, r, k),
           Elsewhere(s, r), PairMoves(s, r, k), LineMoves(s, r), LineMoves(r, s)
    PROVE  Inv'
PROOF
<1>1. /\ Roles(s, r) # <<>> /\ Roles(r, s) # <<>> /\ s # r
      /\ Len(Roles(s, r)) \in 1..2 /\ Len(Roles(r, s)) = Len(Roles(s, r))
      /\ \A n : Session(s, r, n) => n = k
      /\ \A n : Session(r, s, n) => n \in 1..2 /\ n # k /\ Len(Roles(s, r)) = 2
      /\ k \in 1..2
  BY SessionFacts
<1>2. \A i \in MaskPeers : ~Own(0, i, s, r) /\ i \in Party /\ 0 \in Party
  BY <1>1, MaskFacts DEF Own
<1>3. Types'
  BY DEF Inv, Types, Elsewhere
<1>4. WorkerInv'
  <2> SUFFICES ASSUME NEW p \in Party, NEW q \in Party
               PROVE  WorkerAt(p, q, main[p], worker'[p][q])
    BY DEF WorkerInv, Elsewhere
  <2>1. CASE ~Own(p, q, s, r)
    BY <2>1 DEF Inv, WorkerInv, Elsewhere
  <2>2. CASE Own(p, q, s, r)
    BY <2>2 DEF Own, PairMoves
  <2> QED BY <2>1, <2>2
<1>5. SessionInv'
  <2> SUFFICES ASSUME NEW p \in Party, NEW q \in Party, NEW n, Session(p, q, n)
               PROVE  SessionAt(p, q, n, worker'[p][q], worker'[q][p], omega'[p][q],
                                omega'[q][p], senderOprf'[p][q], receiverOprf'[q][p])
    BY DEF SessionInv, Session
  <2>1. SessionAt(p, q, n, worker[p][q], worker[q][p], omega[p][q],
                  omega[q][p], senderOprf[p][q], receiverOprf[q][p])
    BY DEF Inv, SessionInv, Session
  <2>2. CASE ~Own(p, q, s, r)
    <3>1. ~Own(q, p, s, r)
      BY <2>2 DEF Own
    <3> QED BY <2>1, <2>2, <3>1 DEF Elsewhere
  <2>3. CASE p = s /\ q = r
    BY <1>1, <2>3 DEF PairMoves
  <2>4. CASE p = r /\ q = s
    <3>1. n # k /\ n \in 1..2 /\ k \in 1..2 /\ Len(Roles(r, s)) = 2
      BY <1>1, <2>4
    <3>2. worker[r][s].session \in 1..2 /\ (worker[r][s].at = "done" => worker[r][s].session = 2)
      <4>1. WorkerAt(r, s, main[r], worker[r][s])
        BY DEF Inv, WorkerInv
      <4> QED BY <1>1, <3>1, <4>1 DEF WorkerAt
    <3>3. SessionAt(r, s, n, worker'[r][s], worker'[s][r], omega'[r][s],
                    omega'[s][r], senderOprf[r][s], receiverOprf[s][r])
      BY <2>1, <2>4, <3>1, <3>2, OtherSession DEF PairMoves
    <3> QED BY <2>4, <3>3 DEF Elsewhere
  <2> QED BY <2>2, <2>3, <2>4 DEF Own
<1>6. \A w, v, m : /\ Mail(s, r, w, v, m) = Talk(s, r, w, v)
                  /\ Mail(r, s, w, v, m) = Talk(r, s, w, v)
  BY <1>1, MaskFacts DEF Mail, Seeded
<1>7. LineInv' /\ LengthInv'
  <2> SUFFICES ASSUME NEW p \in Party, NEW q \in Party
               PROVE  /\ chan'[p][q] = Line(Mail(p, q, worker'[p][q], worker'[q][p], main),
                                            p, q, main, heard[q], values[p])
                      /\ Len(chan'[p][q]) <= Capacity
    BY DEF LineInv, LengthInv, Elsewhere
  <2>1. CASE ~Own(p, q, s, r)
    <3>1. ~Own(q, p, s, r)
      BY <2>1 DEF Own
    <3>2. /\ chan[p][q] = Line(Mail(p, q, worker[p][q], worker[q][p], main),
                               p, q, main, heard[q], values[p])
          /\ Len(chan[p][q]) <= Capacity
      BY DEF Inv, LineInv, LengthInv
    <3>3. chan'[p][q] = chan[p][q] /\ worker'[p][q] = worker[p][q] /\ worker'[q][p] = worker[q][p]
      BY <2>1, <3>1 DEF Elsewhere
    <3> QED BY <3>2, <3>3
  <2>2. CASE p = s /\ q = r
    BY <1>6, <2>2 DEF LineMoves
  <2>3. CASE p = r /\ q = s
    BY <1>6, <2>3 DEF LineMoves
  <2> QED BY <2>1, <2>2, <2>3 DEF Own
<1>8. MaskInv' /\ HeardInv'
  <2>1. main' = main /\ mask' = mask /\ heard' = heard
    BY DEF Elsewhere
  <2>2. \A i \in MaskPeers : worker'[0][i] = worker[0][i]
    BY <1>2 DEF Elsewhere
  <2>3. MaskInv /\ HeardInv
    BY DEF Inv
  <2>4. SeedsSent' <=> SeedsSent
    BY <2>2 DEF SeedsSent
  <2> QED BY <2>1, <2>2, <2>3, <2>4, <1>2 DEF MaskInv, HeardInv
<1> QED BY <1>3, <1>4, <1>5, <1>7, <1>8 DEF Inv
-----------------------------------------------------------------------------
(* The session a worker is in.                                             *)
LEMMA RunningSession ==
    ASSUME Inv, NEW p \in Party, NEW q \in Party, NEW role, NEW a \in Steps \ {"none", "seed", "done"},
           Running(p, q, role, a)
    PROVE  /\ role = "snd" => Session(p, q, worker[p][q].session)
           /\ role = "rcv" => Session(q, p, worker[p][q].session)
           /\ worker[p][q].at = a
PROOF
<1> DEFINE n == worker[p][q].session
<1>1. WorkerAt(p, q, main[p], worker[p][q]) /\ worker[p][q].at = a /\ Roles(p, q)[n] = role
  BY DEF Inv, WorkerInv, Running
<1>2. n \in 1..Len(Roles(p, q))
  BY <1>1 DEF WorkerAt, Steps
<1> HIDE DEF n
<1>3. Len(Roles(q, p)) = Len(Roles(p, q)) /\ (role = "rcv" => Roles(q, p)[n] = "snd")
  BY <1>1, <1>2, RolesFacts
<1> QED BY <1>1, <1>2, <1>3 DEF Session, n

(* The state a session is in.                                              *)
LEMMA SessionNow ==
    ASSUME Inv, NEW s \in Party, NEW r \in Party, NEW k, Session(s, r, k)
    PROVE  /\ SessionAt(s, r, k, worker[s][r], worker[r][s], omega[s][r], omega[r][s],
                        senderOprf[s][r], receiverOprf[r][s])
           /\ WorkerAt(s, r, main[s], worker[s][r]) /\ WorkerAt(r, s, main[r], worker[r][s])
BY DEF Inv, SessionInv, WorkerInv, Session

(* A receiver that has left a session waits for its sender to leave, too.  *)
LEMMA NotAhead ==
    ASSUME Inv, NEW s \in Party, NEW r \in Party, NEW k, Session(s, r, k),
           worker[s][r].session = k, worker[s][r].at # "done", Past(worker[r][s], k)
    PROVE  worker[r][s].at \in {"none", "open", "done"}
PROOF
<1> DEFINE w == worker[s][r]
           v == worker[r][s]
<1> SUFFICES ASSUME v.at # "done" PROVE v.at \in {"none", "open"}
  OBVIOUS
<1>1. WorkerAt(r, s, main[r], v)
  BY SessionNow
<1>2. /\ Roles(r, s) # <<>> /\ Len(Roles(r, s)) \in 1..2 /\ k \in 1..2
      /\ Roles(r, s)[k] = "rcv"
  BY SessionFacts
<1>3. v.session > k
  BY DEF Past
<1>4. v.session \in 1..Len(Roles(r, s))
  BY <1>1, <1>2 DEF WorkerAt
<1>5. k = 1 /\ v.session = 2 /\ Len(Roles(r, s)) = 2
  <2> DEFINE n == Len(Roles(r, s))
  <2>1. n \in 1..2 /\ k \in 1..2 /\ v.session > k /\ v.session \in 1..n
    BY <1>2, <1>3, <1>4
  <2> HIDE DEF n, v
  <2>2. CASE n = 1
    BY <2>1, <2>2
  <2>3. CASE n = 2
    <3>1. k = 1 /\ v.session = 2
      BY <2>1, <2>3
    <3> QED BY <2>3, <3>1 DEF n
  <2> QED BY <2>1, <2>2, <2>3 DEF n
<1>6. Session(r, s, 2)
  <2>1. Roles(r, s)[2] \in {"snd", "rcv"} /\ Roles(r, s)[1] # Roles(r, s)[2]
    BY <1>5, RolesFacts
  <2> QED BY <1>2, <1>5, <2>1 DEF Session
<1>7. SessionAt(r, s, 2, v, w, omega[r][s], omega[s][r], senderOprf[r][s], receiverOprf[s][r])
  BY <1>6, SessionNow
<1>8. w.session = 1 /\ w.at # "done"
  BY <1>5
<1> HIDE DEF v, w
<1>9. Before(v, 2)
  BY <1>7, <1>8 DEF SessionAt, In, Past
<1> QED BY <1>5, <1>9 DEF Before

(* The lines of a pair that runs sessions, and what may happen to them.    *)
LEMMA LineNow ==
    ASSUME Inv, NEW p \in Party, NEW q \in Party, Roles(p, q) # <<>>
    PROVE  /\ chan[p][q] = Line(Talk(p, q, worker[p][q], worker[q][p]),
                                p, q, main, heard[q], values[p])
           /\ Len(chan[p][q]) <= Capacity
           /\ worker[p][q].at # "done" => ~Tabled(p, q, main, heard[q])
PROOF
<1>1. \A w, v, m : Mail(p, q, w, v, m) = Talk(p, q, w, v)
  BY MaskFacts DEF Seeded, Mail
<1>2. worker[p][q].at # "done" => ~Tabled(p, q, main, heard[q])
  BY DEF Inv, WorkerInv, WorkerAt, Tabled
<1> QED BY <1>1, <1>2 DEF Inv, LineInv, LengthInv

LEMMA KeepMoves ==
    ASSUME Inv, NEW p \in Party, NEW q \in Party, Roles(p, q) # <<>>,
           chan'[p][q] = chan[p][q],
           Talk(p, q, worker'[p][q], worker'[q][p]) = Talk(p, q, worker[p][q], worker[q][p])
    PROVE  LineMoves(p, q)
BY LineNow DEF LineMoves

LEMMA SendMoves ==
    ASSUME Inv, NEW p \in Party, NEW q \in Party, Roles(p, q) # <<>>, NEW kind, NEW b,
           Talk(p, q, worker[p][q], worker[q][p]) = <<>>, worker[p][q].at # "done",
           Send(p, q, kind, b),
           Talk(p, q, worker'[p][q], worker'[q][p]) = <<Msg(kind, b)>>
    PROVE  /\ LineMoves(p, q)
           /\ Matrix(chan')
           /\ \A i, j \in Party : i # p \/ j # q => chan'[i][j] = chan[i][j]
PROOF
<1> DEFINE m == Msg(kind, b)
<1>1. chan' = [chan EXCEPT ![p][q] = Append(chan[p][q], m)] /\ Matrix(chan)
  BY DEF Send, Msg, Inv, Types
<1>2. /\ Matrix(chan') /\ chan'[p][q] = Append(chan[p][q], m)
      /\ \A i, j \in Party : i # p \/ j # q => chan'[i][j] = chan[i][j]
  BY <1>1 DEF Matrix
<1>3. chan[p][q] = <<>> /\ ~Tabled(p, q, main, heard[q])
  BY LineNow DEF Line
<1>4. chan'[p][q] = <<m>> /\ Len(<<m>>) <= Capacity
  BY <1>2, <1>3, CapacityAssumption
<1>5. chan'[p][q] = Line(<<m>>, p, q, main, heard[q], values[p])
  BY <1>3, <1>4 DEF Line
<1> QED BY <1>2, <1>4, <1>5 DEF LineMoves

LEMMA ReceiveMoves ==
    ASSUME Inv, NEW p \in Party, NEW q \in Party, Roles(p, q) # <<>>, NEW m,
           Talk(p, q, worker[p][q], worker[q][p]) = <<m>>, Consume(q, p),
           Talk(p, q, worker'[p][q], worker'[q][p]) = <<>>
    PROVE  /\ LineMoves(p, q)
           /\ Received(q, p) = m.body
           /\ Matrix(chan')
           /\ \A i, j \in Party : i # p \/ j # q => chan'[i][j] = chan[i][j]
PROOF
<1> DEFINE c == chan[p][q]
<1>1. chan' = [chan EXCEPT ![p][q] = Tail(c)] /\ Matrix(chan)
  BY DEF Consume, Inv, Types
<1>2. /\ Matrix(chan') /\ chan'[p][q] = Tail(c)
      /\ \A i, j \in Party : i # p \/ j # q => chan'[i][j] = chan[i][j]
  BY <1>1 DEF Matrix
<1>3. c = Line(<<m>>, p, q, main, heard[q], values[p]) /\ Len(c) <= Capacity
  BY LineNow
<1> HIDE DEF c
<1>4. /\ Head(c) = m /\ Tail(c) = Line(<<>>, p, q, main, heard[q], values[p])
      /\ Len(c) \in Nat /\ Len(Tail(c)) \in Nat /\ Len(Tail(c)) <= Len(c)
  BY <1>3, LineReceive
<1>5. Len(Tail(c)) <= Capacity
  BY <1>3, <1>4, CapacityAssumption
<1> QED BY <1>2, <1>4, <1>5 DEF LineMoves, Received, c
-----------------------------------------------------------------------------
(* A session step keeps the invariant.                                     *)
LEMMA OpenSessionInv ==
    ASSUME Inv, NEW s \in Party, NEW r \in Party, OpenSession(s, r)
    PROVE  Inv'
PROOF
<1> DEFINE k == worker[s][r].session
<1>1. /\ Session(s, r, k) /\ worker[s][r].at = "open"
      /\ worker[r][s].session = k /\ worker[r][s].at = "open"
  BY RunningSession, SessionFacts DEF OpenSession, Steps
<1>2. /\ s # r /\ Roles(s, r) # <<>> /\ Roles(r, s) # <<>>
      /\ k \in 1..2 /\ k <= Len(Roles(s, r)) /\ Len(Roles(r, s)) = Len(Roles(s, r))
      /\ Len(Roles(s, r)) \in 1..2
  BY <1>1, SessionFacts
<1>3. senderOprf[s][r] = {} /\ receiverOprf[r][s] = {}
  BY <1>1, <1>2, SessionNow DEF SessionAt, Before, In, Past
<1>4. /\ worker'[s][r].session = k /\ worker'[s][r].at = "recvOmega"
      /\ worker'[r][s].session = k /\ worker'[r][s].at = "sendOmega"
      /\ worker' \in [Party -> [Party -> [session : {1, 2}, at : Steps]]]
      /\ \A i, j \in Party : ~Own(i, j, s, r) => worker'[i][j] = worker[i][j]
  <2>1. worker \in [Party -> [Party -> [session : {1, 2}, at : Steps]]]
    BY DEF Inv, Types
  <2>2. "recvOmega" \in Steps /\ "sendOmega" \in Steps
    BY DEF Steps
  <2> DEFINE f == [worker EXCEPT ![s][r].at = "recvOmega"]
  <2>3. worker' = [f EXCEPT ![r][s].at = "sendOmega"]
    BY DEF OpenSession
  <2>4. /\ f \in [Party -> [Party -> [session : {1, 2}, at : Steps]]]
        /\ f[s][r] = [session |-> k, at |-> "recvOmega"]
        /\ \A i, j \in Party : i # s \/ j # r => f[i][j] = worker[i][j]
    BY <2>1, <2>2, AtEntry
  <2> HIDE DEF f
  <2>5. /\ worker' \in [Party -> [Party -> [session : {1, 2}, at : Steps]]]
        /\ worker'[r][s] = [session |-> f[r][s].session, at |-> "sendOmega"]
        /\ \A i, j \in Party : i # r \/ j # s => worker'[i][j] = f[i][j]
    BY <2>2, <2>3, <2>4, AtEntry
  <2> QED BY <1>1, <1>2, <2>4, <2>5 DEF Own
<1>5. /\ omega'[s][r] = {Fresh(s, s, r)} /\ omega'[r][s] = {Fresh(r, s, r)}
      /\ Matrix(omega')
      /\ \A i, j \in Party : ~Own(i, j, s, r) => omega'[i][j] = omega[i][j]
  BY <1>2 DEF OpenSession, Inv, Types, Matrix, Own
<1>6. UNCHANGED <<main, senderOprf, receiverOprf, chan, mask, values, heard>>
  BY DEF OpenSession
<1>7. Elsewhere(s, r)
  BY <1>4, <1>5, <1>6 DEF Elsewhere, Inv, Types
<1>8. PairMoves(s, r, k)
  <2>1. WorkerAt(s, r, main[s], worker'[s][r]) /\ WorkerAt(r, s, main[r], worker'[r][s])
    <3>1. WorkerAt(s, r, main[s], worker[s][r]) /\ WorkerAt(r, s, main[r], worker[r][s])
      BY <1>1, SessionNow
    <3>2. WorkerAt(s, r, main[s], worker'[s][r])
      <4>1. k \in 1..Len(Roles(s, r))
        BY <1>2
      <4> QED BY <1>1, <1>2, <1>4, <3>1, <4>1, WorkerMoves
    <3>3. WorkerAt(r, s, main[r], worker'[r][s])
      <4>1. k \in 1..Len(Roles(r, s))
        BY <1>2
      <4> QED BY <1>1, <1>2, <1>4, <3>1, <4>1, WorkerMoves
    <3> QED BY <3>2, <3>3
  <2>2. SessionAt(s, r, k, worker'[s][r], worker'[r][s], omega'[s][r], omega'[r][s],
                  senderOprf'[s][r], receiverOprf'[r][s])
    BY <1>3, <1>4, <1>5, <1>6 DEF SessionAt, In
  <2> QED BY <1>1, <1>4, <2>1, <2>2 DEF PairMoves, Moved
<1>9. LineMoves(s, r) /\ LineMoves(r, s)
  <2>1. /\ Talk(s, r, worker'[s][r], worker'[r][s]) = <<>>
        /\ Talk(r, s, worker'[r][s], worker'[s][r]) = <<>>
        /\ Talk(s, r, worker[s][r], worker[r][s]) = <<>>
        /\ Talk(r, s, worker[r][s], worker[s][r]) = <<>>
    BY <1>1, <1>4 DEF Talk
  <2> QED BY <1>2, <1>6, <2>1, KeepMoves
<1> QED BY <1>1, <1>7, <1>8, <1>9, PairStep

(* The receiver sends its block.                                           *)
LEMMA RcvSendOmegaInv ==
    ASSUME Inv, NEW s \in Party, NEW r \in Party, RcvSendOmega(r, s)
    PROVE  Inv'
PROOF
<1> DEFINE k == worker[r][s].session
<1>1. Session(s, r, k) /\ worker[r][s].at = "sendOmega"
  BY RunningSession DEF RcvSendOmega, Steps
<1>2. /\ s # r /\ Roles(s, r) # <<>> /\ Roles(r, s) # <<>> /\ Roles(r, s)[k] = "rcv"
      /\ k \in 1..Len(Roles(r, s)) /\ Roles(s, r)[k] = "snd"
  BY <1>1, SessionFacts DEF Session
<1>3. /\ worker[s][r].session = k /\ worker[s][r].at = "recvOmega"
      /\ omega[s][r] = {Fresh(s, s, r)} /\ omega[r][s] = {Fresh(r, s, r)}
      /\ senderOprf[s][r] = {} /\ receiverOprf[r][s] = {}
  <2>1. /\ SessionAt(s, r, k, worker[s][r], worker[r][s], omega[s][r], omega[r][s],
                     senderOprf[s][r], receiverOprf[r][s])
        /\ k \in 1..2 /\ worker[r][s].session = k
    BY <1>1, SessionNow, SessionFacts
  <2>2. ReceiverSees(s, r, k, worker[s][r], worker[r][s], omega[s][r], omega[r][s],
                   senderOprf[s][r], receiverOprf[r][s])
    BY <2>1, ReceiverAt
  <2> QED BY <1>1, <2>2 DEF ReceiverSees
<1>4. /\ worker' \in [Party -> [Party -> [session : {1, 2}, at : Steps]]]
      /\ worker'[r][s].session = k /\ worker'[r][s].at = "recvOmega"
      /\ \A i, j \in Party : i # r \/ j # s => worker'[i][j] = worker[i][j]
  <2>1. Types /\ "recvOmega" \in Steps /\ Goto(r, s, "recvOmega")
    BY DEF RcvSendOmega, Inv, Steps
  <2>2. /\ worker' \in [Party -> [Party -> [session : {1, 2}, at : Steps]]]
        /\ worker'[r][s] = [session |-> worker[r][s].session, at |-> "recvOmega"]
        /\ \A i, j \in Party : i # r \/ j # s => worker'[i][j] = worker[i][j]
    BY <2>1, GotoEntry
  <2> QED BY <2>2
<1>5. UNCHANGED <<main, omega, senderOprf, receiverOprf, mask, values, heard>>
  BY DEF RcvSendOmega
<1>6. /\ Talk(r, s, worker[r][s], worker[s][r]) = <<>>
      /\ Talk(r, s, worker'[r][s], worker'[s][r]) = <<Msg("omega", omega[r][s])>>
      /\ Talk(s, r, worker[s][r], worker[r][s]) = <<>>
      /\ Talk(s, r, worker'[s][r], worker'[r][s]) = <<>>
  BY <1>1, <1>2, <1>3, <1>4 DEF Talk
<1>7. /\ LineMoves(r, s) /\ Matrix(chan')
      /\ \A i, j \in Party : i # r \/ j # s => chan'[i][j] = chan[i][j]
  BY <1>1, <1>2, <1>6, SendMoves DEF RcvSendOmega
<1>8. LineMoves(s, r)
  BY <1>2, <1>6, <1>7, KeepMoves
<1>9. Elsewhere(s, r)
  BY <1>4, <1>5, <1>7 DEF Elsewhere, Own, Inv, Types
<1>10. PairMoves(s, r, k)
  <2>1. WorkerAt(s, r, main[s], worker'[s][r]) /\ worker'[s][r] = worker[s][r]
    BY <1>1, <1>2, <1>4, SessionNow
  <2>2. WorkerAt(r, s, main[r], worker'[r][s])
    BY <1>1, <1>2, <1>4, SessionNow, WorkerMoves
  <2>3. SessionAt(s, r, k, worker'[s][r], worker'[r][s], omega'[s][r], omega'[r][s],
                  senderOprf'[s][r], receiverOprf'[r][s])
    BY <1>3, <1>4, <1>5, <2>1 DEF SessionAt, In
  <2> QED BY <1>3, <1>4, <2>1, <2>2, <2>3 DEF PairMoves, Moved
<1> QED BY <1>1, <1>7, <1>8, <1>9, <1>10, PairStep

(* The sender takes the receiver's block into its omega.                   *)
LEMMA SndRecvOmegaInv ==
    ASSUME Inv, NEW s \in Party, NEW r \in Party, SndRecvOmega(s, r)
    PROVE  Inv'
PROOF
<1> DEFINE k == worker[s][r].session
<1>1. Session(s, r, k) /\ worker[s][r].at = "recvOmega"
  BY RunningSession DEF SndRecvOmega, Steps
<1>2. /\ s # r /\ Roles(s, r) # <<>> /\ Roles(r, s) # <<>> /\ Roles(r, s)[k] = "rcv"
      /\ k \in 1..Len(Roles(s, r)) /\ Roles(s, r)[k] = "snd"
  BY <1>1, SessionFacts DEF Session
<1>3. /\ worker[r][s].session = k
      /\ worker[r][s].at = "sendOmega" \/ worker[r][s].at = "recvOmega"
      /\ omega[s][r] = {Fresh(s, s, r)} /\ omega[r][s] = {Fresh(r, s, r)}
      /\ senderOprf[s][r] = {} /\ receiverOprf[r][s] = {}
  <2>1. /\ SessionAt(s, r, k, worker[s][r], worker[r][s], omega[s][r], omega[r][s],
                     senderOprf[s][r], receiverOprf[r][s])
        /\ k \in 1..2 /\ worker[s][r].session = k
    BY <1>1, SessionNow, SessionFacts
  <2>2. SenderSees(s, r, k, worker[s][r], worker[r][s], omega[s][r], omega[r][s],
                   senderOprf[s][r], receiverOprf[r][s])
    BY <2>1, SenderAt
  <2> QED BY <1>1, <2>2 DEF SenderSees
<1>4. /\ worker' \in [Party -> [Party -> [session : {1, 2}, at : Steps]]]
      /\ worker'[s][r].session = k /\ worker'[s][r].at = "sendOmega"
      /\ \A i, j \in Party : i # s \/ j # r => worker'[i][j] = worker[i][j]
  <2>1. Types /\ "sendOmega" \in Steps /\ Goto(s, r, "sendOmega")
    BY DEF SndRecvOmega, Inv, Steps
  <2>2. /\ worker' \in [Party -> [Party -> [session : {1, 2}, at : Steps]]]
        /\ worker'[s][r] = [session |-> worker[s][r].session, at |-> "sendOmega"]
        /\ \A i, j \in Party : i # s \/ j # r => worker'[i][j] = worker[i][j]
    BY <2>1, GotoEntry
  <2> QED BY <2>2
<1>5. UNCHANGED <<main, senderOprf, receiverOprf, mask, values, heard>>
  BY DEF SndRecvOmega
<1>6. worker[r][s].at = "recvOmega"
  <2> SUFFICES ASSUME worker[r][s].at # "recvOmega" PROVE FALSE
    OBVIOUS
  <2>1. Talk(r, s, worker[r][s], worker[s][r]) = <<>> /\ worker[r][s].at # "done"
    BY <1>1, <1>3 DEF Talk
  <2>2. chan[r][s] = <<>>
    BY <1>2, <2>1, LineNow DEF Line
  <2> QED BY <2>2 DEF SndRecvOmega, Pending
<1>7. /\ Talk(r, s, worker[r][s], worker[s][r]) = <<Msg("omega", {Fresh(r, s, r)})>>
      /\ Talk(r, s, worker'[r][s], worker'[s][r]) = <<>>
      /\ Talk(s, r, worker[s][r], worker[r][s]) = <<>>
      /\ Talk(s, r, worker'[s][r], worker'[r][s]) = <<>>
  BY <1>1, <1>2, <1>3, <1>4, <1>6 DEF Talk
<1>8. /\ LineMoves(r, s) /\ Matrix(chan') /\ Received(s, r) = {Fresh(r, s, r)}
      /\ \A i, j \in Party : i # r \/ j # s => chan'[i][j] = chan[i][j]
  <2> DEFINE m == Msg("omega", {Fresh(r, s, r)})
  <2>1. m.body = {Fresh(r, s, r)} /\ Consume(s, r)
    BY DEF Msg, SndRecvOmega
  <2> HIDE DEF m
  <2>2. /\ Talk(r, s, worker[r][s], worker[s][r]) = <<m>>
        /\ Talk(r, s, worker'[r][s], worker'[s][r]) = <<>>
    BY <1>7 DEF m
  <2> QED BY <1>2, <2>1, <2>2, ReceiveMoves
<1>9. LineMoves(s, r)
  BY <1>2, <1>7, <1>8, KeepMoves
<1>10. /\ Matrix(omega') /\ omega'[s][r] = {Fresh(s, s, r), Fresh(r, s, r)}
       /\ \A i, j \in Party : i # s \/ j # r => omega'[i][j] = omega[i][j]
  <2>1. omega' = [omega EXCEPT ![s][r] = Xor(omega[s][r], Received(s, r))] /\ Matrix(omega)
    BY DEF SndRecvOmega, Inv, Types
  <2>2. Xor(omega[s][r], Received(s, r)) = {Fresh(s, s, r), Fresh(r, s, r)}
    BY <1>2, <1>3, <1>8 DEF Xor, Fresh
  <2> QED BY <2>1, <2>2 DEF Matrix
<1>11. Elsewhere(s, r)
  BY <1>2, <1>4, <1>5, <1>8, <1>10 DEF Elsewhere, Own, Inv, Types
<1>12. PairMoves(s, r, k)
  <2>1. WorkerAt(r, s, main[r], worker'[r][s]) /\ worker'[r][s] = worker[r][s]
    BY <1>1, <1>2, <1>4, SessionNow
  <2>2. WorkerAt(s, r, main[s], worker'[s][r])
    BY <1>1, <1>2, <1>4, SessionNow, WorkerMoves
  <2>3. SessionAt(s, r, k, worker'[s][r], worker'[r][s], omega'[s][r], omega'[r][s],
                  senderOprf'[s][r], receiverOprf'[r][s])
    BY <1>2, <1>3, <1>4, <1>5, <1>6, <1>10, <2>1 DEF SessionAt, In
  <2> QED BY <1>1, <1>3, <1>4, <2>1, <2>2, <2>3 DEF PairMoves, Moved
<1> QED BY <1>1, <1>8, <1>9, <1>11, <1>12, PairStep

(* The sender answers with the block it drew.                              *)
LEMMA SndSendOmegaInv ==
    ASSUME Inv, NEW s \in Party, NEW r \in Party, SndSendOmega(s, r)
    PROVE  Inv'
PROOF
<1> DEFINE k == worker[s][r].session
<1>1. Session(s, r, k) /\ worker[s][r].at = "sendOmega"
  BY RunningSession DEF SndSendOmega, Steps
<1>2. /\ s # r /\ Roles(s, r) # <<>> /\ Roles(r, s) # <<>> /\ Roles(r, s)[k] = "rcv"
      /\ k \in 1..Len(Roles(s, r)) /\ Roles(s, r)[k] = "snd"
  BY <1>1, SessionFacts DEF Session
<1>3. /\ worker[r][s].session = k /\ worker[r][s].at = "recvOmega"
      /\ omega[s][r] = {Fresh(s, s, r), Fresh(r, s, r)} /\ omega[r][s] = {Fresh(r, s, r)}
      /\ senderOprf[s][r] = {} /\ receiverOprf[r][s] = {}
  <2>1. /\ SessionAt(s, r, k, worker[s][r], worker[r][s], omega[s][r], omega[r][s],
                     senderOprf[s][r], receiverOprf[r][s])
        /\ k \in 1..2 /\ worker[s][r].session = k
    BY <1>1, SessionNow, SessionFacts
  <2>2. SenderSees(s, r, k, worker[s][r], worker[r][s], omega[s][r], omega[r][s],
                   senderOprf[s][r], receiverOprf[r][s])
    BY <2>1, SenderAt
  <2> QED BY <1>1, <2>2 DEF SenderSees
<1>4. /\ worker' \in [Party -> [Party -> [session : {1, 2}, at : Steps]]]
      /\ worker'[s][r].session = k /\ worker'[s][r].at = "recvAPrime"
      /\ \A i, j \in Party : i # s \/ j # r => worker'[i][j] = worker[i][j]
  <2>1. Types /\ "recvAPrime" \in Steps /\ Goto(s, r, "recvAPrime")
    BY DEF SndSendOmega, Inv, Steps
  <2>2. /\ worker' \in [Party -> [Party -> [session : {1, 2}, at : Steps]]]
        /\ worker'[s][r] = [session |-> worker[s][r].session, at |-> "recvAPrime"]
        /\ \A i, j \in Party : i # s \/ j # r => worker'[i][j] = worker[i][j]
    BY <2>1, GotoEntry
  <2> QED BY <2>2
<1>5. UNCHANGED <<main, omega, senderOprf, receiverOprf, mask, values, heard>>
  BY DEF SndSendOmega
<1>6. /\ Talk(s, r, worker[s][r], worker[r][s]) = <<>>
      /\ Talk(s, r, worker'[s][r], worker'[r][s]) = <<Msg("omega", {Fresh(s, s, r)})>>
      /\ Talk(r, s, worker[r][s], worker[s][r]) = <<>>
      /\ Talk(r, s, worker'[r][s], worker'[s][r]) = <<>>
  BY <1>1, <1>2, <1>3, <1>4 DEF Talk
<1>7. /\ LineMoves(s, r) /\ Matrix(chan')
      /\ \A i, j \in Party : i # s \/ j # r => chan'[i][j] = chan[i][j]
  BY <1>1, <1>2, <1>6, SendMoves DEF SndSendOmega
<1>8. LineMoves(r, s)
  BY <1>2, <1>6, <1>7, KeepMoves
<1>9. Elsewhere(s, r)
  BY <1>4, <1>5, <1>7 DEF Elsewhere, Own, Inv, Types
<1>10. PairMoves(s, r, k)
  <2>1. WorkerAt(r, s, main[r], worker'[r][s]) /\ worker'[r][s] = worker[r][s]
    BY <1>1, <1>2, <1>4, SessionNow
  <2>2. WorkerAt(s, r, main[s], worker'[s][r])
    BY <1>1, <1>2, <1>4, SessionNow, WorkerMoves
  <2>3. SessionAt(s, r, k, worker'[s][r], worker'[r][s], omega'[s][r], omega'[r][s],
                  senderOprf'[s][r], receiverOprf'[r][s])
    BY <1>3, <1>4, <1>5, <2>1 DEF SessionAt, In
  <2> QED BY <1>1, <1>3, <1>4, <2>1, <2>2, <2>3 DEF PairMoves, Moved
<1> QED BY <1>1, <1>7, <1>8, <1>9, <1>10, PairStep

(* The receiver takes the sender's block into its omega.                   *)
LEMMA RcvRecvOmegaInv ==
    ASSUME Inv, NEW s \in Party, NEW r \in Party, RcvRecvOmega(r, s)
    PROVE  Inv'
PROOF
<1> DEFINE k == worker[r][s].session
<1>1. Session(s, r, k) /\ worker[r][s].at = "recvOmega"
  BY RunningSession DEF RcvRecvOmega, Steps
<1>2. /\ s # r /\ Roles(s, r) # <<>> /\ Roles(r, s) # <<>> /\ Roles(r, s)[k] = "rcv"
      /\ k \in 1..Len(Roles(r, s)) /\ Roles(s, r)[k] = "snd"
  BY <1>1, SessionFacts DEF Session
<1>3. /\ worker[s][r].session = k
      /\ \/ worker[s][r].at = "recvOmega" \/ worker[s][r].at = "sendOmega"
         \/ worker[s][r].at = "recvAPrime" /\ omega[s][r] = {Fresh(s, s, r), Fresh(r, s, r)}
      /\ omega[r][s] = {Fresh(r, s, r)}
      /\ senderOprf[s][r] = {} /\ receiverOprf[r][s] = {}
  <2>1. /\ SessionAt(s, r, k, worker[s][r], worker[r][s], omega[s][r], omega[r][s],
                     senderOprf[s][r], receiverOprf[r][s])
        /\ k \in 1..2 /\ worker[r][s].session = k
    BY <1>1, SessionNow, SessionFacts
  <2>2. ReceiverSees(s, r, k, worker[s][r], worker[r][s], omega[s][r], omega[r][s],
                   senderOprf[s][r], receiverOprf[r][s])
    BY <2>1, ReceiverAt
  <2> QED BY <1>1, <2>2 DEF ReceiverSees
<1>4. /\ worker' \in [Party -> [Party -> [session : {1, 2}, at : Steps]]]
      /\ worker'[r][s].session = k /\ worker'[r][s].at = "sendAPrime"
      /\ \A i, j \in Party : i # r \/ j # s => worker'[i][j] = worker[i][j]
  <2>1. Types /\ "sendAPrime" \in Steps /\ Goto(r, s, "sendAPrime")
    BY DEF RcvRecvOmega, Inv, Steps
  <2>2. /\ worker' \in [Party -> [Party -> [session : {1, 2}, at : Steps]]]
        /\ worker'[r][s] = [session |-> worker[r][s].session, at |-> "sendAPrime"]
        /\ \A i, j \in Party : i # r \/ j # s => worker'[i][j] = worker[i][j]
    BY <2>1, GotoEntry
  <2> QED BY <2>2
<1>5. UNCHANGED <<main, senderOprf, receiverOprf, mask, values, heard>>
  BY DEF RcvRecvOmega
<1>6. worker[s][r].at = "recvAPrime"
  <2> SUFFICES ASSUME worker[s][r].at # "recvAPrime" PROVE FALSE
    OBVIOUS
  <2>1. Talk(s, r, worker[s][r], worker[r][s]) = <<>> /\ worker[s][r].at # "done"
    BY <1>1, <1>2, <1>3 DEF Talk
  <2>2. chan[s][r] = <<>>
    BY <1>2, <2>1, LineNow DEF Line
  <2> QED BY <2>2 DEF RcvRecvOmega, Pending
<1>7. /\ Talk(s, r, worker[s][r], worker[r][s]) = <<Msg("omega", {Fresh(s, s, r)})>>
      /\ Talk(s, r, worker'[s][r], worker'[r][s]) = <<>>
      /\ Talk(r, s, worker[r][s], worker[s][r]) = <<>>
      /\ Talk(r, s, worker'[r][s], worker'[s][r]) = <<>>
  BY <1>1, <1>2, <1>3, <1>4, <1>6 DEF Talk
<1>8. /\ LineMoves(s, r) /\ Matrix(chan') /\ Received(r, s) = {Fresh(s, s, r)}
      /\ \A i, j \in Party : i # s \/ j # r => chan'[i][j] = chan[i][j]
  <2> DEFINE m == Msg("omega", {Fresh(s, s, r)})
  <2>1. m.body = {Fresh(s, s, r)} /\ Consume(r, s)
    BY DEF Msg, RcvRecvOmega
  <2> HIDE DEF m
  <2>2. /\ Talk(s, r, worker[s][r], worker[r][s]) = <<m>>
        /\ Talk(s, r, worker'[s][r], worker'[r][s]) = <<>>
    BY <1>7 DEF m
  <2> QED BY <1>2, <2>1, <2>2, ReceiveMoves
<1>9. LineMoves(r, s)
  BY <1>2, <1>7, <1>8, KeepMoves
<1>10. /\ Matrix(omega') /\ omega'[r][s] = {Fresh(s, s, r), Fresh(r, s, r)}
       /\ \A i, j \in Party : i # r \/ j # s => omega'[i][j] = omega[i][j]
  <2>1. omega' = [omega EXCEPT ![r][s] = Xor(omega[r][s], Received(r, s))] /\ Matrix(omega)
    BY DEF RcvRecvOmega, Inv, Types
  <2>2. Xor(omega[r][s], Received(r, s)) = {Fresh(s, s, r), Fresh(r, s, r)}
    BY <1>2, <1>3, <1>8 DEF Xor, Fresh
  <2> QED BY <2>1, <2>2 DEF Matrix
<1>11. Elsewhere(s, r)
  BY <1>2, <1>4, <1>5, <1>8, <1>10 DEF Elsewhere, Own, Inv, Types
<1>12. PairMoves(s, r, k)
  <2>1. WorkerAt(s, r, main[s], worker'[s][r]) /\ worker'[s][r] = worker[s][r]
    BY <1>1, <1>2, <1>4, SessionNow
  <2>2. WorkerAt(r, s, main[r], worker'[r][s])
    BY <1>1, <1>2, <1>4, SessionNow, WorkerMoves
  <2>3. SessionAt(s, r, k, worker'[s][r], worker'[r][s], omega'[s][r], omega'[r][s],
                  senderOprf'[s][r], receiverOprf'[r][s])
    BY <1>2, <1>3, <1>4, <1>5, <1>6, <1>10, <2>1 DEF SessionAt, In
  <2> QED BY <1>1, <1>3, <1>4, <1>6, <2>1, <2>2, <2>3 DEF PairMoves, Moved
<1> QED BY <1>1, <1>8, <1>9, <1>11, <1>12, PairStep

(* The worker that leaves a session is past it.                            *)
Leaves(w, w2, k, n) ==
    /\ Past(w2, k) /\ Moved(w, w2, k)
    /\ w2.session \in 1..n
    /\ w2.at \in {"open", "done"}
    /\ w2.at = "done" => w2.session = n

LEMMA LeavePast ==
    ASSUME NEW k \in 1..2, NEW n \in 1..2, k <= n, NEW w, w.session = k
    PROVE  Leaves(w, Next2(w, n), k, n)
BY DEF Leaves, Next2, Past, Moved

(* The receiver sends A', takes its outputs and returns.                   *)
LEMMA RcvSendAPrimeInv ==
    ASSUME Inv, NEW s \in Party, NEW r \in Party, RcvSendAPrime(r, s)
    PROVE  Inv'
PROOF
<1> DEFINE k == worker[r][s].session
           v == worker'[r][s]
<1>1. Session(s, r, k) /\ worker[r][s].at = "sendAPrime"
  BY RunningSession DEF RcvSendAPrime, Steps
<1>2. /\ s # r /\ Roles(s, r) # <<>> /\ Roles(r, s) # <<>> /\ Roles(r, s)[k] = "rcv"
      /\ k \in 1..2 /\ k <= Len(Roles(r, s)) /\ Len(Roles(r, s)) \in 1..2
  BY <1>1, SessionFacts DEF Session
<1>3. /\ worker[s][r].session = k /\ worker[s][r].at = "recvAPrime"
      /\ omega[s][r] = {Fresh(s, s, r), Fresh(r, s, r)}
      /\ omega[r][s] = {Fresh(s, s, r), Fresh(r, s, r)}
      /\ senderOprf[s][r] = {} /\ receiverOprf[r][s] = {}
  <2>1. /\ SessionAt(s, r, k, worker[s][r], worker[r][s], omega[s][r], omega[r][s],
                     senderOprf[s][r], receiverOprf[r][s])
        /\ k \in 1..2 /\ worker[r][s].session = k
    BY <1>1, SessionNow, SessionFacts
  <2>2. ReceiverSees(s, r, k, worker[s][r], worker[r][s], omega[s][r], omega[r][s],
                   senderOprf[s][r], receiverOprf[r][s])
    BY <2>1, ReceiverAt
  <2> QED BY <1>1, <2>2 DEF ReceiverSees
<1>4. /\ worker' \in [Party -> [Party -> [session : {1, 2}, at : Steps]]]
      /\ v = Next2(worker[r][s], Len(Roles(r, s)))
      /\ \A i, j \in Party : i # r \/ j # s => worker'[i][j] = worker[i][j]
  BY LeaveEntry DEF RcvSendAPrime, Inv
<1>5. UNCHANGED <<main, omega, senderOprf, mask, values, heard>>
  BY DEF RcvSendAPrime
<1>6. /\ Past(v, k) /\ Moved(worker[r][s], v, k) /\ v.session \in 1..Len(Roles(r, s))
      /\ v.at \in {"open", "done"} /\ (v.at = "done" => v.session = Len(Roles(r, s)))
  <2>1. Leaves(worker[r][s], Next2(worker[r][s], Len(Roles(r, s))), k, Len(Roles(r, s)))
    BY <1>2, LeavePast
  <2> QED BY <1>4, <2>1 DEF Leaves
<1>7. /\ Talk(r, s, worker[r][s], worker[s][r]) = <<>>
      /\ Talk(r, s, worker'[r][s], worker'[s][r]) = <<Msg("aprime", {<<s, r>>})>>
      /\ Talk(s, r, worker[s][r], worker[r][s]) = <<>>
      /\ Talk(s, r, worker'[s][r], worker'[r][s]) = <<>>
  BY <1>1, <1>2, <1>3, <1>4, <1>6 DEF Talk
<1>8. /\ LineMoves(r, s) /\ Matrix(chan')
      /\ \A i, j \in Party : i # r \/ j # s => chan'[i][j] = chan[i][j]
  BY <1>1, <1>2, <1>7, SendMoves DEF RcvSendAPrime
<1>9. LineMoves(s, r)
  BY <1>2, <1>7, <1>8, KeepMoves
<1>10. /\ Matrix(receiverOprf') /\ receiverOprf'[r][s] = {Oprf(s, r)}
       /\ \A i, j \in Party : i # r \/ j # s => receiverOprf'[i][j] = receiverOprf[i][j]
  <2>1. OprfValue(s, r, omega[r][s]) = {Oprf(s, r)}
    BY <1>3 DEF OprfValue
  <2>2. receiverOprf' = [receiverOprf EXCEPT ![r][s] = {Oprf(s, r)}] /\ Matrix(receiverOprf)
    BY <2>1 DEF RcvSendAPrime, Inv, Types
  <2> QED BY <2>2 DEF Matrix
<1>11. Elsewhere(s, r)
  BY <1>2, <1>4, <1>5, <1>8, <1>10 DEF Elsewhere, Own, Inv, Types
<1>12. PairMoves(s, r, k)
  <2>1. WorkerAt(s, r, main[s], worker'[s][r]) /\ worker'[s][r] = worker[s][r]
    BY <1>1, <1>2, <1>4, SessionNow
  <2>2. WorkerAt(r, s, main[r], v)
    BY <1>1, <1>2, <1>6, SessionNow, WorkerMoves
  <2>3. SessionAt(s, r, k, worker'[s][r], v, omega'[s][r], omega'[r][s],
                  senderOprf'[s][r], receiverOprf'[r][s])
    BY <1>3, <1>5, <1>6, <1>10, <2>1 DEF SessionAt, In
  <2> QED BY <1>3, <1>6, <2>1, <2>2, <2>3 DEF PairMoves, Moved
<1> QED BY <1>1, <1>8, <1>9, <1>11, <1>12, PairStep

(* The sender receives A', takes its outputs and returns.                  *)
LEMMA SndRecvAPrimeInv ==
    ASSUME Inv, NEW s \in Party, NEW r \in Party, SndRecvAPrime(s, r)
    PROVE  Inv'
PROOF
<1> DEFINE k == worker[s][r].session
           w == worker'[s][r]
           v == worker[r][s]
<1>1. Session(s, r, k) /\ worker[s][r].at = "recvAPrime"
  BY RunningSession DEF SndRecvAPrime, Steps
<1>2. /\ s # r /\ Roles(s, r) # <<>> /\ Roles(r, s) # <<>>
      /\ k \in 1..2 /\ k <= Len(Roles(s, r)) /\ Len(Roles(s, r)) \in 1..2
  BY <1>1, SessionFacts DEF Session
<1>3. /\ omega[s][r] = {Fresh(s, s, r), Fresh(r, s, r)} /\ senderOprf[s][r] = {}
      /\ \/ v.session = k /\ v.at \in {"recvOmega", "sendAPrime"}
         \/ Past(v, k) /\ receiverOprf[r][s] = {Oprf(s, r)}
  <2>1. /\ SessionAt(s, r, k, worker[s][r], worker[r][s], omega[s][r], omega[r][s],
                     senderOprf[s][r], receiverOprf[r][s])
        /\ k \in 1..2 /\ worker[s][r].session = k
    BY <1>1, SessionNow, SessionFacts
  <2>2. SenderSees(s, r, k, worker[s][r], worker[r][s], omega[s][r], omega[r][s],
                   senderOprf[s][r], receiverOprf[r][s])
    BY <2>1, SenderAt
  <2> QED BY <1>1, <2>2 DEF SenderSees
<1>4. /\ worker' \in [Party -> [Party -> [session : {1, 2}, at : Steps]]]
      /\ w = Next2(worker[s][r], Len(Roles(s, r)))
      /\ \A i, j \in Party : i # s \/ j # r => worker'[i][j] = worker[i][j]
  BY LeaveEntry DEF SndRecvAPrime, Inv
<1>5. UNCHANGED <<main, omega, receiverOprf, mask, values, heard>>
  BY DEF SndRecvAPrime
<1>6. /\ Past(w, k) /\ Moved(worker[s][r], w, k) /\ w.session \in 1..Len(Roles(s, r))
      /\ w.at \in {"open", "done"} /\ (w.at = "done" => w.session = Len(Roles(s, r)))
  <2>1. Leaves(worker[s][r], Next2(worker[s][r], Len(Roles(s, r))), k, Len(Roles(s, r)))
    BY <1>2, LeavePast
  <2> QED BY <1>4, <2>1 DEF Leaves
<1>7. v.at \notin {"recvOmega", "sendAPrime"} /\ Past(v, k) /\ receiverOprf[r][s] = {Oprf(s, r)}
  <2>1. ASSUME v.at \in {"recvOmega", "sendAPrime"} PROVE FALSE
    <3>1. Talk(r, s, v, worker[s][r]) = <<>> /\ v.at # "done"
      BY <1>1, <2>1 DEF Talk
    <3>2. chan[r][s] = <<>>
      BY <1>2, <3>1, LineNow DEF Line
    <3> QED BY <3>2 DEF SndRecvAPrime, Pending
  <2> QED BY <1>3, <2>1
<1>8. /\ Talk(r, s, worker[r][s], worker[s][r]) = <<Msg("aprime", {<<s, r>>})>>
      /\ Talk(r, s, worker'[r][s], worker'[s][r]) = <<>>
      /\ Talk(s, r, worker[s][r], worker[r][s]) = <<>>
      /\ Talk(s, r, worker'[s][r], worker'[r][s]) = <<>>
  <2>1. worker'[r][s] = v /\ v.at \in {"none", "open", "done"}
    BY <1>1, <1>2, <1>4, <1>7, NotAhead
  <2>2. worker[s][r].at = "recvAPrime" /\ w.at \in {"open", "done"}
    BY <1>1, <1>6
  <2> HIDE DEF w, v
  <2>3. Talk(r, s, v, worker[s][r]) = <<Msg("aprime", {<<s, r>>})>>
    BY <1>7, <2>2 DEF Talk
  <2>4. Talk(r, s, v, w) = <<>>
    BY <2>1, <2>2 DEF Talk
  <2>5. Talk(s, r, worker[s][r], v) = <<>> /\ Talk(s, r, w, v) = <<>>
    BY <2>1, <2>2 DEF Talk
  <2> QED BY <2>1, <2>3, <2>4, <2>5 DEF w, v
<1>9. /\ LineMoves(r, s) /\ Matrix(chan')
      /\ \A i, j \in Party : i # r \/ j # s => chan'[i][j] = chan[i][j]
  BY <1>2, <1>8, ReceiveMoves DEF SndRecvAPrime
<1>10. LineMoves(s, r)
  BY <1>2, <1>8, <1>9, KeepMoves
<1>11. /\ Matrix(senderOprf') /\ senderOprf'[s][r] = {Oprf(s, r)}
       /\ \A i, j \in Party : i # s \/ j # r => senderOprf'[i][j] = senderOprf[i][j]
  <2>1. OprfValue(s, r, omega[s][r]) = {Oprf(s, r)}
    BY <1>3 DEF OprfValue
  <2>2. senderOprf' = [senderOprf EXCEPT ![s][r] = {Oprf(s, r)}] /\ Matrix(senderOprf)
    BY <2>1 DEF SndRecvAPrime, Inv, Types
  <2> QED BY <2>2 DEF Matrix
<1>12. Elsewhere(s, r)
  BY <1>2, <1>4, <1>5, <1>9, <1>11 DEF Elsewhere, Own, Inv, Types
<1>13. PairMoves(s, r, k)
  <2>1. WorkerAt(r, s, main[r], worker'[r][s]) /\ worker'[r][s] = v
    BY <1>1, <1>2, <1>4, SessionNow
  <2>2. WorkerAt(s, r, main[s], w)
    BY <1>1, <1>2, <1>6, SessionNow, WorkerMoves
  <2>3. SessionAt(s, r, k, w, worker'[r][s], omega'[s][r], omega'[r][s],
                  senderOprf'[s][r], receiverOprf'[r][s])
    BY <1>5, <1>6, <1>7, <1>11, <2>1 DEF SessionAt
  <2> QED BY <1>1, <1>6, <1>7, <2>1, <2>2, <2>3 DEF PairMoves, Moved
<1> QED BY <1>1, <1>9, <1>10, <1>12, <1>13, PairStep
-----------------------------------------------------------------------------
(* The lines outside the sessions: a pair without sessions never talks,    *)
(* and a table is read when it is alone in its line.                       *)
LEMMA NoTalk ==
    ASSUME Inv, NEW p \in Party, NEW q \in Party, Roles(p, q) = <<>>
    PROVE  /\ worker[p][q].at \in {"none", "seed", "done"}
           /\ Talk(p, q, worker[p][q], worker[q][p]) = <<>>
PROOF
<1>1. Roles(q, p) = <<>>
  BY RolesFacts
<1>2. /\ worker[p][q].at \in {"none", "seed", "done"}
      /\ worker[q][p].at \in {"none", "seed", "done"}
  BY <1>1 DEF Inv, WorkerInv, WorkerAt
<1> QED BY <1>2 DEF Talk

LEMMA MailFacts ==
    ASSUME NEW p, NEW q, NEW w, NEW v, NEW m
    PROVE  \/ Mail(p, q, w, v, m) = <<>>
           \/ \E u : Mail(p, q, w, v, m) = <<u>> /\ u.kind \in {"seed", "omega", "aprime"}
PROOF
<1>1. \A k, b : Msg(k, b).kind = k
  BY DEF Msg
<1>2. CASE Seeded(p, q, w, m)
  BY <1>1, <1>2 DEF Mail
<1>3. CASE ~Seeded(p, q, w, m)
  BY <1>1, <1>3 DEF Mail, Talk
<1> QED BY <1>2, <1>3

LEMMA MailFirst ==
    ASSUME Inv, NEW p \in Party, NEW q \in Party, NEW u,
           Mail(q, p, worker[q][p], worker[p][q], main) = <<u>>
    PROVE  Head(chan[q][p]) = u
PROOF
<1> DEFINE c == chan[q][p]
<1>1. c = Line(<<u>>, q, p, main, heard[p], values[q])
  BY DEF Inv, LineInv
<1> HIDE DEF c
<1>2. Head(c) = u
  BY <1>1, LineReceive
<1> QED BY <1>2 DEF c

LEMMA TableFirst ==
    ASSUME Inv, NEW p \in Party, NEW q \in Party, Pending(p, q, "table")
    PROVE  /\ Tabled(q, p, main, heard[p])
           /\ Mail(q, p, worker[q][p], worker[p][q], main) = <<>>
           /\ Tail(chan[q][p]) = <<>>
           /\ Received(p, q) = Encode(q, values[q])
PROOF
<1> DEFINE c == chan[q][p]
           mail == Mail(q, p, worker[q][p], worker[p][q], main)
           t == Msg("table", Encode(q, values[q]))
<1>1. c = Line(mail, q, p, main, heard[p], values[q])
  BY DEF Inv, LineInv
<1>2. c # <<>> /\ Head(c).kind = "table"
  BY DEF Pending
<1>3. mail = <<>>
  <2>1. mail = <<>> \/ \E u : mail = <<u>> /\ u.kind \in {"seed", "omega", "aprime"}
    BY MailFacts
  <2> HIDE DEF mail, c
  <2>2. ASSUME NEW u, mail = <<u>>, u.kind \in {"seed", "omega", "aprime"} PROVE FALSE
    <3>1. Head(c) = u
      BY <2>2, MailFirst DEF mail, c
    <3> QED BY <1>2, <2>2, <3>1
  <2> QED BY <2>1, <2>2
<1> HIDE DEF mail, c
<1>4. Tabled(q, p, main, heard[p])
  BY <1>1, <1>2, <1>3 DEF Line
<1>5. c = <<t>>
  BY <1>1, <1>3, <1>4 DEF Line
<1>6. Head(c) = t /\ Tail(c) = <<>> /\ t.body = Encode(q, values[q])
  BY <1>5 DEF Msg
<1> QED BY <1>3, <1>4, <1>6 DEF Received, mail, c

(* A main thread that creates its OPRF workers.                            *)
Opened(w, w2) ==
    w2 = w \/ (w.at = "none" /\ w.session = 1 /\ w2 = [session |-> 1, at |-> "open"])

LEMMA OpenedFacts ==
    ASSUME NEW w, NEW v, NEW w2, NEW v2, Opened(w, w2), Opened(v, v2)
    PROVE  /\ \A p, q : Talk(p, q, w2, v2) = Talk(p, q, w, v)
           /\ \A s, r, ow, ov, so, ro : \A k \in 1..2 :
                SessionAt(s, r, k, w, v, ow, ov, so, ro) =>
                SessionAt(s, r, k, w2, v2, ow, ov, so, ro)
PROOF
<1>1. ASSUME NEW p, NEW q PROVE Talk(p, q, w2, v2) = Talk(p, q, w, v)
  BY DEF Opened, Talk
<1>2. ASSUME NEW k \in 1..2, NEW x, NEW x2, Opened(x, x2)
      PROVE  /\ Before(x, k) => Before(x2, k)
             /\ Past(x, k) => Past(x2, k)
             /\ \A a : a # "none" /\ In(x, k, a) => In(x2, k, a)
  BY <1>2 DEF Opened, Before, Past, In
<1>3. ASSUME NEW k \in 1..2, NEW s, NEW r, NEW ow, NEW ov, NEW so, NEW ro,
             SessionAt(s, r, k, w, v, ow, ov, so, ro)
      PROVE  SessionAt(s, r, k, w2, v2, ow, ov, so, ro)
  BY <1>2, <1>3 DEF SessionAt
<1> QED BY <1>1, <1>3

Spawns(p) ==
    /\ main[p] = "mask" /\ main' = [main EXCEPT ![p] = "oprf"]
    /\ worker' = [worker EXCEPT ![p] = Spawned(p, worker[p])]
    /\ UNCHANGED <<omega, senderOprf, receiverOprf>>

LEMMA SpawnFacts ==
    ASSUME Inv, NEW p \in Party, Spawns(p)
    PROVE  /\ worker' \in [Party -> [Party -> [session : {1, 2}, at : Steps]]]
           /\ \A i, j \in Party : i # p \/ Roles(i, j) = <<>> => worker'[i][j] = worker[i][j]
           /\ WorkerInv' /\ SessionInv'
           /\ \A i, j \in Party :
                Talk(i, j, worker'[i][j], worker'[j][i]) = Talk(i, j, worker[i][j], worker[j][i])
PROOF
<1>1. /\ worker \in [Party -> [Party -> [session : {1, 2}, at : Steps]]]
      /\ main \in [Party -> {"mask", "oprf", "table", "closed"}]
  BY DEF Inv, Types
<1>2. ASSUME NEW j \in Party, Roles(p, j) # <<>>
      PROVE  /\ worker[p][j].at = "none" /\ worker[p][j].session = 1
             /\ worker'[p][j] = [session |-> 1, at |-> "open"]
  <2>1. worker[p][j].at = "none" /\ worker[p][j].session = 1
    BY <1>2 DEF Inv, WorkerInv, WorkerAt, Spawns
  <2>2. worker'[p][j] = [worker[p][j] EXCEPT !.at = "open"]
    BY <1>1, <1>2 DEF Spawns, Spawned
  <2>3. worker[p][j] \in [session : {1, 2}, at : Steps]
    BY <1>1
  <2> QED BY <2>1, <2>2, <2>3
<1>3. \A i, j \in Party : i # p \/ Roles(i, j) = <<>> => worker'[i][j] = worker[i][j]
  BY <1>1 DEF Spawns, Spawned
<1>4. worker' \in [Party -> [Party -> [session : {1, 2}, at : Steps]]]
  <2>1. [session |-> 1, at |-> "open"] \in [session : {1, 2}, at : Steps]
    BY DEF Steps
  <2>2. \A j \in Party : worker'[p][j] \in [session : {1, 2}, at : Steps]
    BY <1>1, <1>2, <1>3, <2>1
  <2>3. worker'[p] = Spawned(p, worker[p]) /\ DOMAIN worker'[p] = Party
    BY <1>1 DEF Spawns, Spawned
  <2>4. worker'[p] \in [Party -> [session : {1, 2}, at : Steps]]
    BY <2>2, <2>3 DEF Spawned
  <2> QED BY <1>1, <2>4 DEF Spawns
<1>5. \A i, j \in Party : Opened(worker[i][j], worker'[i][j])
  BY <1>2, <1>3 DEF Opened
<1>6. WorkerInv'
  <2> SUFFICES ASSUME NEW i \in Party, NEW j \in Party
               PROVE  WorkerAt(i, j, main'[i], worker'[i][j])
    BY DEF WorkerInv
  <2>1. WorkerAt(i, j, main[i], worker[i][j])
    BY DEF Inv, WorkerInv
  <2>2. CASE i # p
    BY <1>1, <1>3, <2>1, <2>2 DEF Spawns
  <2>3. CASE i = p /\ Roles(i, j) = <<>>
    BY <1>3, <2>1, <2>3 DEF WorkerAt
  <2>4. CASE i = p /\ Roles(i, j) # <<>>
    <3>1. Len(Roles(i, j)) \in 1..2
      BY <2>4, RolesFacts
    <3>2. 1 \in 1..Len(Roles(i, j))
      BY <3>1
    <3>3. main'[i] = "oprf" /\ worker'[i][j].session = 1 /\ worker'[i][j].at = "open"
      BY <1>1, <1>2, <2>4 DEF Spawns
    <3> QED BY <2>4, <3>2, <3>3 DEF WorkerAt
  <2> QED BY <2>2, <2>3, <2>4
<1>7. SessionInv'
  <2> SUFFICES ASSUME NEW s \in Party, NEW r \in Party, NEW k, Session(s, r, k)
               PROVE  SessionAt(s, r, k, worker'[s][r], worker'[r][s], omega'[s][r],
                                omega'[r][s], senderOprf'[s][r], receiverOprf'[r][s])
    BY DEF SessionInv, Session
  <2>1. SessionAt(s, r, k, worker[s][r], worker[r][s], omega[s][r],
                  omega[r][s], senderOprf[s][r], receiverOprf[r][s])
    BY SessionNow
  <2>2. omega' = omega /\ senderOprf' = senderOprf /\ receiverOprf' = receiverOprf
    BY DEF Spawns
  <2>3. k \in 1..2 /\ Opened(worker[s][r], worker'[s][r]) /\ Opened(worker[r][s], worker'[r][s])
    BY <1>5, SessionFacts
  <2>4. SessionAt(s, r, k, worker'[s][r], worker'[r][s], omega[s][r],
                  omega[r][s], senderOprf[s][r], receiverOprf[r][s])
    BY <2>1, <2>3, OpenedFacts
  <2> QED BY <2>2, <2>4
<1>8. \A i, j \in Party :
         Talk(i, j, worker'[i][j], worker'[j][i]) = Talk(i, j, worker[i][j], worker[j][i])
  BY <1>5, OpenedFacts
<1> QED BY <1>3, <1>4, <1>6, <1>7, <1>8

(* The line of p and q after a step, and what it depends on.               *)
LinesHold(p, q) ==
    /\ chan'[p][q] = Line(Mail(p, q, worker'[p][q], worker'[q][p], main'),
                          p, q, main', heard'[q], values'[p])
    /\ Len(chan'[p][q]) <= Capacity

LEMMA LineKept ==
    ASSUME Inv, NEW p \in Party, NEW q \in Party, chan'[p][q] = chan[p][q],
           Talk(p, q, worker'[p][q], worker'[q][p]) = Talk(p, q, worker[p][q], worker[q][p]),
           Seeded(p, q, worker'[p][q], main') <=> Seeded(p, q, worker[p][q], main),
           Tabled(p, q, main', heard'[q]) <=> Tabled(p, q, main, heard[q]),
           values'[p] = values[p] \/ main'[p] # "closed"
    PROVE  LinesHold(p, q)
PROOF
<1>1. /\ chan[p][q] = Line(Mail(p, q, worker[p][q], worker[q][p], main),
                           p, q, main, heard[q], values[p])
      /\ Len(chan[p][q]) <= Capacity
  BY DEF Inv, LineInv, LengthInv
<1>2. Mail(p, q, worker'[p][q], worker'[q][p], main') = Mail(p, q, worker[p][q], worker[q][p], main)
  BY DEF Mail
<1>3. Tabled(p, q, main', heard'[q]) => values'[p] = values[p]
  BY DEF Tabled
<1> QED BY <1>1, <1>2, <1>3 DEF Line, LinesHold

(* Party 0 sends a seed, whatever it does with the mask.                   *)
SendsSeed(i) ==
    /\ worker[0][i].at = "seed"
    /\ Send(0, i, "seed", {Mask(0, i)})
    /\ worker' = [worker EXCEPT ![0][i].at = "done"]
    /\ UNCHANGED <<main, omega, senderOprf, receiverOprf, values, heard>>

LEMMA SeedFacts ==
    ASSUME Inv, NEW i \in MaskPeers, SendsSeed(i)
    PROVE  /\ worker'[0][i].at = "done"
           /\ \A p, q \in Party : p # 0 \/ q # i => worker'[p][q] = worker[p][q]
           /\ worker' \in [Party -> [Party -> [session : {1, 2}, at : Steps]]]
PROOF
<1>1. 0 \in Party /\ i \in Party
  BY MaskFacts
<1>2. /\ worker \in [Party -> [Party -> [session : {1, 2}, at : Steps]]]
      /\ "done" \in Steps /\ worker' = [worker EXCEPT ![0][i].at = "done"]
  BY DEF Inv, Types, Steps, SendsSeed
<1>3. /\ worker' \in [Party -> [Party -> [session : {1, 2}, at : Steps]]]
      /\ worker'[0][i] = [session |-> worker[0][i].session, at |-> "done"]
      /\ \A p, q \in Party : p # 0 \/ q # i => worker'[p][q] = worker[p][q]
  BY <1>1, <1>2, AtEntry
<1> QED BY <1>3

LEMMA SendsSeedInv ==
    ASSUME Inv, NEW i \in MaskPeers, SendsSeed(i), DOMAIN mask' = Party, MaskInv'
    PROVE  Inv'
PROOF
<1>1. /\ 0 \in Party /\ i \in Party /\ i # 0 /\ Roles(0, i) = <<>> /\ Roles(i, 0) = <<>>
      /\ worker[0][i].at = "seed"
  BY MaskFacts DEF SendsSeed
<1>2. /\ worker' \in [Party -> [Party -> [session : {1, 2}, at : Steps]]]
      /\ worker'[0][i].at = "done"
      /\ \A p, q \in Party : p # 0 \/ q # i => worker'[p][q] = worker[p][q]
  BY SeedFacts
<1>3. UNCHANGED <<main, omega, senderOprf, receiverOprf, values, heard>>
  BY DEF SendsSeed
<1>4. /\ Matrix(chan') /\ chan'[0][i] = Append(chan[0][i], Msg("seed", {Mask(0, i)}))
      /\ Len(chan[0][i]) < Capacity
      /\ \A p, q \in Party : p # 0 \/ q # i => chan'[p][q] = chan[p][q]
  BY <1>1 DEF SendsSeed, Send, Msg, Inv, Types, Matrix
<1>5. main[i] = "mask"
  BY <1>1 DEF Inv, MaskInv
<1>6. WorkerInv' /\ SessionInv' /\ HeardInv' /\ Types'
  <2>1. \A p, q \in Party : Roles(p, q) # <<>> => worker'[p][q] = worker[p][q]
    BY <1>1, <1>2
  <2>2. WorkerInv'
    <3> SUFFICES ASSUME NEW p \in Party, NEW q \in Party
                 PROVE  WorkerAt(p, q, main[p], worker'[p][q])
      BY <1>3 DEF WorkerInv
    <3>1. WorkerAt(p, q, main[p], worker[p][q])
      BY DEF Inv, WorkerInv
    <3>2. CASE p = 0 /\ q = i
      BY <1>1, <1>2, <3>2 DEF WorkerAt
    <3> QED BY <1>2, <3>1, <3>2
  <2>3. SessionInv'
    <3> SUFFICES ASSUME NEW s \in Party, NEW r \in Party, NEW k, Session(s, r, k)
                 PROVE  SessionAt(s, r, k, worker'[s][r], worker'[r][s], omega[s][r],
                                  omega[r][s], senderOprf[s][r], receiverOprf[r][s])
      BY <1>3 DEF SessionInv, Session
    <3>1. SessionAt(s, r, k, worker[s][r], worker[r][s], omega[s][r],
                    omega[r][s], senderOprf[s][r], receiverOprf[r][s])
      BY SessionNow
    <3>2. worker'[s][r] = worker[s][r] /\ worker'[r][s] = worker[r][s]
      BY <2>1, SessionFacts
    <3> QED BY <3>1, <3>2
  <2> QED BY <1>2, <1>3, <1>4, <2>2, <2>3 DEF Inv, Types, HeardInv
<1>7. ASSUME NEW p \in Party, NEW q \in Party PROVE LinesHold(p, q)
  <2>1. CASE p = 0 /\ q = i
    <3>1. /\ ~Tabled(0, i, main, heard[i]) /\ Talk(0, i, worker[0][i], worker[i][0]) = <<>>
          /\ ~Seeded(0, i, worker[0][i], main) /\ Seeded(0, i, worker'[0][i], main)
      BY <1>1, <1>2, <1>5, NoTalk DEF Tabled, Seeded
    <3>2. chan[0][i] = <<>>
      BY <1>1, <3>1 DEF Inv, LineInv, Line, Mail
    <3>3. chan'[0][i] = <<Msg("seed", {Mask(0, i)})>> /\ Len(chan'[0][i]) <= Capacity
      BY <1>4, <3>2, CapacityAssumption
    <3> QED BY <1>3, <2>1, <3>1, <3>3 DEF LinesHold, Line, Mail
  <2>2. CASE ~(p = 0 /\ q = i)
    <3>1. chan'[p][q] = chan[p][q] /\ worker'[p][q] = worker[p][q]
      BY <1>2, <1>4, <2>2
    <3>2. Talk(p, q, worker'[p][q], worker'[q][p]) = Talk(p, q, worker[p][q], worker[q][p])
      <4>1. CASE p = i /\ q = 0
        BY <1>1, <1>2, <4>1, NoTalk DEF Talk
      <4>2. CASE ~(p = i /\ q = 0)
        BY <1>2, <3>1, <4>2
      <4> QED BY <4>1, <4>2
    <3> QED BY <1>3, <3>1, <3>2, LineKept
  <2> QED BY <2>1, <2>2
<1> QED BY <1>6, <1>7 DEF LinesHold, LineInv, LengthInv, Inv

(* In mpsi.cpp the main thread waits for the mask workers meanwhile.       *)
LEMMA MaskWorkerInv ==
    ASSUME Inv, MasksFirst, NEW i \in MaskPeers, MaskWorker(i)
    PROVE  Inv' /\ MasksFirst'
PROOF
<1>1. SendsSeed(i) /\ mask' = mask /\ main' = main /\ worker[0][i].at # "done"
  BY DEF MaskWorker, SendsSeed
<1>2. main[0] = "mask" /\ MaskInv
  BY <1>1 DEF MasksFirst, SeedsSent, Inv
<1>3. \A j \in MaskPeers : worker'[0][j].at # "done" => worker[0][j].at # "done"
  BY <1>1, SeedFacts, MaskFacts
<1>4. MaskInv'
  BY <1>1, <1>2, <1>3 DEF MaskInv, SeedsSent
<1>5. DOMAIN mask' = Party
  BY <1>1 DEF Inv, Types
<1> QED BY <1>1, <1>2, <1>4, <1>5, SendsSeedInv DEF MasksFirst

(* Party 0 joins its mask workers.                                         *)
LEMMA JoinMasksInv ==
    ASSUME Inv, JoinMasks
    PROVE  Inv' /\ MasksFirst'
PROOF
<1>1. 0 \in Party /\ \A i \in MaskPeers : i \in Party /\ Roles(0, i) = <<>>
  BY MaskFacts
<1>2. Spawns(0) /\ main \in [Party -> {"mask", "oprf", "table", "closed"}]
  BY DEF JoinMasks, Spawns, Inv, Types
<1>3. /\ worker' \in [Party -> [Party -> [session : {1, 2}, at : Steps]]]
      /\ \A i, j \in Party : i # 0 \/ Roles(i, j) = <<>> => worker'[i][j] = worker[i][j]
      /\ WorkerInv' /\ SessionInv'
      /\ \A i, j \in Party :
           Talk(i, j, worker'[i][j], worker'[j][i]) = Talk(i, j, worker[i][j], worker[j][i])
  BY <1>1, <1>2, SpawnFacts
<1>4. UNCHANGED <<omega, senderOprf, receiverOprf, chan, values, heard>>
  BY DEF JoinMasks
<1>5. /\ main' \in [Party -> {"mask", "oprf", "table", "closed"}]
      /\ main[0] = "mask" /\ main'[0] = "oprf"
      /\ \A p \in Party \ {0} : main'[p] = main[p]
  BY <1>1, <1>2 DEF Spawns
<1>6. Types'
  BY <1>3, <1>4, <1>5 DEF JoinMasks, Inv, Types
<1>7. SeedsSent'
  BY <1>1, <1>3 DEF JoinMasks, SeedsSent
<1>8. MaskInv'
  <2>1. MaskTerms(0) = {Mask(0, i) : i \in MaskPeers}
    BY DEF MaskTerms
  <2>2. mask'[0] = MaskTerms(0) /\ \A p \in Party \ {0} : mask'[p] = mask[p]
    BY <1>1, <2>1 DEF JoinMasks, Inv, Types
  <2> QED BY <1>5, <1>7, <2>2 DEF Inv, MaskInv, SeedsSent
<1>9. HeardInv'
  <2>1. N-1 \in Party \ {0}
    BY MaskFacts
  <2>2. HeardInv
    BY DEF Inv
  <2>3. \A p \in Party : heard[p] \subseteq {q \in Preds(p) : main'[q] = "closed"}
    <3>1. \A p \in Party : Preds(p) \subseteq Party \ {0}
      BY RouteFacts
    <3> QED BY <1>5, <2>2, <3>1 DEF HeardInv
  <2>4. \A p \in Party : main'[p] \in {"mask", "oprf"} => heard[p] = {}
    BY <1>5, <2>2 DEF HeardInv
  <2> QED BY <1>4, <1>5, <2>1, <2>2, <2>3, <2>4 DEF HeardInv
<1>10. ASSUME NEW p \in Party, NEW q \in Party PROVE LinesHold(p, q)
  <2>1. Seeded(p, q, worker'[p][q], main') <=> Seeded(p, q, worker[p][q], main)
    <3>1. \A i \in MaskPeers : i # 0
      BY MaskFacts
    <3> QED BY <1>1, <1>3, <1>5, <3>1 DEF Seeded
  <2>2. Tabled(p, q, main', heard'[q]) <=> Tabled(p, q, main, heard[q])
    BY <1>4, <1>5 DEF Tabled
  <2> QED BY <1>3, <1>4, <2>1, <2>2, LineKept
<1> QED BY <1>3, <1>6, <1>7, <1>8, <1>9, <1>10 DEF Inv, LinesHold, LineInv, LengthInv, MasksFirst

(* A mask peer receives its seed.                                          *)
LEMMA RecvMaskInv ==
    ASSUME Inv, NEW p \in Party, RecvMask(p)
    PROVE  Inv'
PROOF
<1>1. /\ p # 0 /\ 0 \in Party /\ p \in MaskPeers /\ Roles(0, p) = <<>> /\ Roles(p, 0) = <<>>
      /\ MaskTerms(p) = {Mask(0, p)}
  BY MaskFacts DEF RecvMask, Inv, MaskInv
<1>2. Spawns(p) /\ main \in [Party -> {"mask", "oprf", "table", "closed"}]
  BY DEF RecvMask, Spawns, Inv, Types
<1>3. /\ worker' \in [Party -> [Party -> [session : {1, 2}, at : Steps]]]
      /\ \A i, j \in Party : i # p \/ Roles(i, j) = <<>> => worker'[i][j] = worker[i][j]
      /\ WorkerInv' /\ SessionInv'
      /\ \A i, j \in Party :
           Talk(i, j, worker'[i][j], worker'[j][i]) = Talk(i, j, worker[i][j], worker[j][i])
  BY <1>2, SpawnFacts
<1>4. UNCHANGED <<omega, senderOprf, receiverOprf, values, heard>>
  BY DEF RecvMask
<1>5. /\ main' \in [Party -> {"mask", "oprf", "table", "closed"}]
      /\ main[p] = "mask" /\ main'[p] = "oprf"
      /\ \A q \in Party \ {p} : main'[q] = main[q]
  BY <1>1, <1>2 DEF Spawns
<1>6. /\ Seeded(0, p, worker[0][p], main) /\ chan[0][p] = <<Msg("seed", {Mask(0, p)})>>
      /\ ~Tabled(0, p, main, heard[p]) /\ Talk(0, p, worker[0][p], worker[p][0]) = <<>>
  <2>1. ~Tabled(0, p, main, heard[p]) /\ Talk(0, p, worker[0][p], worker[p][0]) = <<>>
    BY <1>1, NoTalk DEF Tabled
  <2>2. chan[0][p] # <<>>
    BY DEF RecvMask, Pending
  <2> QED BY <1>1, <2>1, <2>2 DEF Inv, LineInv, Line, Mail
<1>7. /\ Matrix(chan') /\ chan'[0][p] = <<>> /\ Received(p, 0) = {Mask(0, p)}
      /\ \A i, j \in Party : i # 0 \/ j # p => chan'[i][j] = chan[i][j]
  <2>1. chan' = [chan EXCEPT ![0][p] = Tail(chan[0][p])] /\ Matrix(chan)
    BY DEF RecvMask, Consume, Inv, Types
  <2>2. Tail(chan[0][p]) = <<>> /\ Head(chan[0][p]).body = {Mask(0, p)}
    BY <1>6 DEF Msg
  <2> QED BY <1>1, <2>1, <2>2 DEF Matrix, Received
<1>8. Types'
  BY <1>3, <1>4, <1>5, <1>7 DEF RecvMask, Inv, Types
<1>9. MaskInv'
  <2>1. mask'[p] = MaskTerms(p) /\ \A q \in Party \ {p} : mask'[q] = mask[q]
    BY <1>1, <1>7 DEF RecvMask, Inv, Types
  <2>2. worker[0][p].at = "done"
    BY <1>6 DEF Seeded
  <2>3. \A i \in MaskPeers : i \in Party /\ worker'[0][i] = worker[0][i]
    BY <1>1, <1>3, MaskFacts
  <2>4. MaskInv
    BY DEF Inv
  <2>5. \A i \in MaskPeers : worker'[0][i].at # "done" => main'[i] = "mask"
    BY <1>1, <1>5, <2>2, <2>3, <2>4 DEF MaskInv
  <2>6. (SeedsSent' <=> SeedsSent) /\ main'[0] = main[0] /\ mask'[0] = mask[0]
    BY <1>1, <1>5, <2>1, <2>3 DEF SeedsSent
  <2> QED BY <1>5, <2>1, <2>4, <2>5, <2>6 DEF MaskInv
<1>10. HeardInv'
  <2>1. HeardInv /\ \A q \in Party : Preds(q) \subseteq Party
    BY RouteFacts DEF Inv
  <2>2. \A q \in Party : heard[q] \subseteq {r \in Preds(q) : main'[r] = "closed"}
    BY <1>5, <2>1 DEF HeardInv
  <2>3. \A q \in Party : main'[q] \in {"mask", "oprf"} => heard[q] = {}
    BY <1>5, <2>1 DEF HeardInv
  <2>4. main'[0] = "closed" => main'[N-1] = "closed"
    <3>1. N-1 \in Party
      BY MaskFacts
    <3> QED BY <1>1, <1>5, <2>1, <3>1 DEF HeardInv
  <2> QED BY <1>4, <1>5, <2>1, <2>2, <2>3, <2>4 DEF HeardInv
<1>11. ASSUME NEW i \in Party, NEW j \in Party PROVE LinesHold(i, j)
  <2>1. CASE i = 0 /\ j = p
    <3>1. ~Seeded(0, p, worker'[0][p], main') /\ ~Tabled(0, p, main', heard'[p])
      BY <1>5 DEF Seeded, Tabled
    <3>2. Talk(0, p, worker'[0][p], worker'[p][0]) = <<>>
      BY <1>1, <1>3, <1>6
    <3>3. Len(<<>>) <= Capacity
      BY CapacityAssumption
    <3> QED BY <1>7, <2>1, <3>1, <3>2, <3>3 DEF LinesHold, Line, Mail
  <2>2. CASE ~(i = 0 /\ j = p)
    <3>1. Seeded(i, j, worker'[i][j], main') <=> Seeded(i, j, worker[i][j], main)
      <4>1. i = 0 => worker'[i][j] = worker[i][j] /\ main'[j] = main[j]
        BY <1>1, <1>3, <1>5, <2>2
      <4> QED BY <4>1 DEF Seeded
    <3>2. Tabled(i, j, main', heard'[j]) <=> Tabled(i, j, main, heard[j])
      BY <1>1, <1>4, <1>5 DEF Tabled
    <3> QED BY <1>3, <1>4, <1>7, <2>2, <3>1, <3>2, LineKept
  <2> QED BY <2>1, <2>2
<1> QED BY <1>3, <1>8, <1>9, <1>10, <1>11 DEF Inv, LinesHold, LineInv, LengthInv

(* What a main thread that has joined its workers leaves alone.            *)
Advances(p, b) ==
    /\ main[p] \in {"oprf", "table"} /\ b \in {"table", "closed"}
    /\ main' = [main EXCEPT ![p] = b]
    /\ UNCHANGED <<threads, mask>>

LEMMA AdvanceFacts ==
    ASSUME Inv, NEW p \in Party, NEW b, Advances(p, b), p = 0 => SeedsSent,
           \A q \in Party : Roles(p, q) # <<>> => worker[p][q].at = "done"
    PROVE  /\ main' \in [Party -> {"mask", "oprf", "table", "closed"}]
           /\ main'[p] = b /\ \A q \in Party \ {p} : main'[q] = main[q]
           /\ \A q \in Party : main'[q] = "mask" <=> main[q] = "mask"
           /\ UNCHANGED <<worker, omega, senderOprf, receiverOprf, mask>>
           /\ WorkerInv' /\ SessionInv' /\ MaskInv'
PROOF
<1>1. main \in [Party -> {"mask", "oprf", "table", "closed"}]
  BY DEF Inv, Types
<1>2. /\ main' \in [Party -> {"mask", "oprf", "table", "closed"}]
      /\ main'[p] = b /\ \A q \in Party \ {p} : main'[q] = main[q]
      /\ \A q \in Party : main'[q] = "mask" <=> main[q] = "mask"
  BY <1>1 DEF Advances
<1>3. UNCHANGED <<worker, omega, senderOprf, receiverOprf, mask>>
  BY DEF Advances, threads
<1>4. WorkerInv'
  <2> SUFFICES ASSUME NEW i \in Party, NEW j \in Party
               PROVE  WorkerAt(i, j, main'[i], worker[i][j])
    BY <1>3 DEF WorkerInv
  <2>1. WorkerAt(i, j, main[i], worker[i][j])
    BY DEF Inv, WorkerInv
  <2>2. CASE i # p
    BY <1>2, <2>1, <2>2
  <2>3. CASE i = p
    <3>1. main'[p] = b /\ main[p] # "mask" /\ b # "mask"
      BY <1>2 DEF Advances
    <3> QED BY <2>1, <2>3, <3>1 DEF WorkerAt
  <2> QED BY <2>2, <2>3
<1>5. SessionInv'
  BY <1>3 DEF Inv, SessionInv
<1>6. MaskInv'
  <2>1. 0 \in Party /\ \A i \in MaskPeers : i \in Party
    BY MaskFacts
  <2>2. SeedsSent' <=> SeedsSent
    BY <1>3 DEF SeedsSent
  <2>3. SeedsSent \/ main'[0] = main[0]
    BY <1>2, <2>1
  <2> QED BY <1>2, <1>3, <2>1, <2>2, <2>3 DEF Inv, MaskInv
<1> QED BY <1>2, <1>3, <1>4, <1>5, <1>6

(* A party that no longer runs sessions has finished them.                 *)
LEMMA Joined ==
    ASSUME Inv, NEW p \in Party, main[p] \in {"table", "closed"}
    PROVE  /\ \A q \in Party : Roles(p, q) # <<>> => worker[p][q].at = "done"
           /\ p = 0 => SeedsSent
BY DEF Inv, WorkerInv, WorkerAt, MaskInv

(* The lines to other parties than the one that takes or gives a table.    *)
LEMMA AdvanceLine ==
    ASSUME Inv, NEW p \in Party, NEW q \in Party, chan'[p][q] = chan[p][q],
           UNCHANGED worker, main'[q] = "mask" <=> main[q] = "mask",
           Tabled(p, q, main', heard'[q]) <=> Tabled(p, q, main, heard[q]),
           values'[p] = values[p] \/ main'[p] # "closed"
    PROVE  LinesHold(p, q)
PROOF
<1>1. Seeded(p, q, worker'[p][q], main') <=> Seeded(p, q, worker[p][q], main)
  BY DEF Seeded
<1>2. Talk(p, q, worker'[p][q], worker'[q][p]) = Talk(p, q, worker[p][q], worker[q][p])
  OBVIOUS
<1> QED BY <1>1, <1>2, LineKept

(* A party combines its values.                                            *)
LEMMA JoinWorkersInv ==
    ASSUME Inv, NEW p \in Party, JoinWorkers(p), p = 0 => SeedsSent
    PROVE  Inv'
PROOF
<1>1. Advances(p, "table") /\ main[p] = "oprf"
  BY DEF JoinWorkers, Advances
<1>2. /\ main' \in [Party -> {"mask", "oprf", "table", "closed"}]
      /\ main'[p] = "table" /\ \A q \in Party \ {p} : main'[q] = main[q]
      /\ \A q \in Party : main'[q] = "mask" <=> main[q] = "mask"
      /\ UNCHANGED <<worker, omega, senderOprf, receiverOprf, mask>>
      /\ WorkerInv' /\ SessionInv' /\ MaskInv'
  BY <1>1, AdvanceFacts DEF JoinWorkers
<1>3. UNCHANGED <<chan, heard>> /\ DOMAIN values' = Party
      /\ \A q \in Party \ {p} : values'[q] = values[q]
  BY DEF JoinWorkers, Inv, Types
<1>4. Types'
  BY <1>2, <1>3 DEF Inv, Types
<1>5. \A q \in Party : main'[q] = "closed" <=> main[q] = "closed"
  BY <1>1, <1>2
<1>6. HeardInv'
  <2>1. N-1 \in Party /\ 0 \in Party /\ \A q \in Party : Preds(q) \subseteq Party
    BY MaskFacts, RouteFacts
  <2>2. \A q \in Party : main'[q] \in {"mask", "oprf"} => main[q] \in {"mask", "oprf"}
    BY <1>1, <1>2
  <2> QED BY <1>3, <1>5, <2>1, <2>2 DEF Inv, HeardInv
<1>7. ASSUME NEW i \in Party, NEW j \in Party PROVE LinesHold(i, j)
  <2>1. Tabled(i, j, main', heard'[j]) <=> Tabled(i, j, main, heard[j])
    BY <1>3, <1>5, MaskFacts DEF Tabled
  <2>2. values'[i] = values[i] \/ main'[i] # "closed"
    BY <1>2, <1>3
  <2> QED BY <1>2, <1>3, <2>1, <2>2, AdvanceLine
<1> QED BY <1>2, <1>4, <1>6, <1>7 DEF Inv, LinesHold, LineInv, LengthInv

(* A party takes the table of a predecessor.                               *)
LEMMA RecvTableInv ==
    ASSUME Inv, NEW p \in Party, NEW q \in Party, RecvTable(p, q)
    PROVE  Inv'
PROOF
<1>1. /\ main[p] = "table" /\ q \in Preds(p) /\ q \notin heard[p]
      /\ p # 0 /\ q # 0 /\ NextHop(q) = p
  BY RouteFacts DEF RecvTable
<1>2. /\ Tabled(q, p, main, heard[p]) /\ Tail(chan[q][p]) = <<>>
      /\ Mail(q, p, worker[q][p], worker[p][q], main) = <<>>
  BY TableFirst DEF RecvTable
<1>3. UNCHANGED <<main, worker, omega, senderOprf, receiverOprf, mask>>
  BY DEF RecvTable, threads
<1>4. /\ Matrix(chan') /\ chan'[q][p] = <<>>
      /\ \A i, j \in Party : i # q \/ j # p => chan'[i][j] = chan[i][j]
  <2>1. chan' = [chan EXCEPT ![q][p] = Tail(chan[q][p])] /\ Matrix(chan)
    BY DEF RecvTable, Consume, Inv, Types
  <2> QED BY <1>2, <2>1 DEF Matrix
<1>5. /\ heard' \in [Party -> SUBSET Party] /\ heard'[p] = heard[p] \cup {q}
      /\ \A i \in Party \ {p} : heard'[i] = heard[i]
      /\ DOMAIN values' = Party /\ \A i \in Party \ {p} : values'[i] = values[i]
  BY DEF RecvTable, Inv, Types
<1>6. WorkerInv' /\ SessionInv' /\ MaskInv' /\ Types'
  BY <1>3, <1>4, <1>5 DEF Inv, WorkerInv, SessionInv, MaskInv, SeedsSent, Types
<1>7. HeardInv'
  <2>1. main[q] = "closed"
    BY <1>2 DEF Tabled
  <2>2. HeardInv
    BY DEF Inv
  <2>3. \A i \in Party : heard'[i] \subseteq {j \in Preds(i) : main[j] = "closed"}
    BY <1>1, <1>5, <2>1, <2>2 DEF HeardInv
  <2>4. \A i \in Party : main[i] # "table" => heard'[i] = heard[i]
    BY <1>1, <1>5
  <2> QED BY <1>3, <2>2, <2>3, <2>4 DEF HeardInv
<1>8. ASSUME NEW i \in Party, NEW j \in Party PROVE LinesHold(i, j)
  <2>1. CASE i = q /\ j = p
    <3>1. ~Tabled(q, p, main', heard'[p]) /\ Len(<<>>) <= Capacity
      BY <1>1, <1>5, CapacityAssumption DEF Tabled
    <3>2. Mail(q, p, worker'[q][p], worker'[p][q], main') = <<>>
      BY <1>2, <1>3
    <3> QED BY <1>4, <2>1, <3>1, <3>2 DEF LinesHold, Line
  <2>2. CASE ~(i = q /\ j = p)
    <3>1. Tabled(i, j, main', heard'[j]) <=> Tabled(i, j, main, heard[j])
      BY <1>1, <1>3, <1>5, <2>2 DEF Tabled
    <3>2. values'[i] = values[i] \/ main'[i] # "closed"
      BY <1>1, <1>3, <1>5
    <3> QED BY <1>3, <1>4, <2>2, <3>1, <3>2, AdvanceLine
  <2> QED BY <2>1, <2>2
<1> QED BY <1>6, <1>7, <1>8 DEF Inv, LinesHold, LineInv, LengthInv

(* A party sends its table and closes.                                     *)
LEMMA SendTableInv ==
    ASSUME Inv, NEW p \in Party, SendTable(p)
    PROVE  Inv'
PROOF
<1> DEFINE q == NextHop(p)
           t == Msg("table", Encode(p, values[p]))
<1>1. /\ main[p] = "table" /\ p # 0 /\ q \in Party /\ (q = 0 => p = N-1)
      /\ 0 \in Party /\ N-1 \in Party
  BY RouteFacts, MaskFacts DEF SendTable
<1>2. Advances(p, "closed")
  BY <1>1 DEF SendTable, Advances
<1>3. /\ main' \in [Party -> {"mask", "oprf", "table", "closed"}]
      /\ main'[p] = "closed" /\ \A i \in Party \ {p} : main'[i] = main[i]
      /\ \A i \in Party : main'[i] = "mask" <=> main[i] = "mask"
      /\ UNCHANGED <<worker, omega, senderOprf, receiverOprf, mask>>
      /\ WorkerInv' /\ SessionInv' /\ MaskInv'
  BY <1>1, <1>2, Joined, AdvanceFacts
<1>4. UNCHANGED <<values, heard>> /\ heard[p] = Preds(p)
  BY DEF SendTable
<1>5. /\ Matrix(chan') /\ chan'[p][q] = Append(chan[p][q], t) /\ Len(chan[p][q]) < Capacity
      /\ \A i, j \in Party : i # p \/ j # q => chan'[i][j] = chan[i][j]
  <2>1. /\ chan' = [chan EXCEPT ![p][q] = Append(chan[p][q], t)] /\ Matrix(chan)
        /\ Len(chan[p][q]) < Capacity
    BY DEF SendTable, Send, Msg, Inv, Types
  <2> QED BY <1>1, <2>1 DEF Matrix
<1>6. Types'
  BY <1>3, <1>4, <1>5 DEF Inv, Types
<1>7. HeardInv'
  <2>1. \A i \in Party : main[i] = "closed" => main'[i] = "closed"
    BY <1>3
  <2>2. \A i \in Party : main'[i] \in {"mask", "oprf"} => main[i] \in {"mask", "oprf"}
    BY <1>3
  <2>3. \A i \in Party : Preds(i) \subseteq Party
    BY RouteFacts
  <2>4. HeardInv
    BY DEF Inv
  <2>5. \A i \in Party : heard[i] \subseteq {j \in Preds(i) : main'[j] = "closed"}
    BY <2>1, <2>3, <2>4 DEF HeardInv
  <2>6. \A i \in Party \ {0} : main'[i] = "closed" => heard[i] = Preds(i)
    BY <1>3, <1>4, <2>4 DEF HeardInv
  <2>7. main'[0] = "closed" => main'[N-1] = "closed"
    BY <1>1, <1>3, <2>1, <2>4 DEF HeardInv
  <2> QED BY <1>4, <2>2, <2>4, <2>5, <2>6, <2>7 DEF HeardInv
<1>8. ASSUME NEW i \in Party, NEW j \in Party PROVE LinesHold(i, j)
  <2>1. CASE i = p /\ j = q
    <3> DEFINE mail == Mail(p, q, worker[p][q], worker[q][p], main)
    <3>1. ~Tabled(p, q, main, heard[q]) /\ Tabled(p, q, main', heard'[q])
      <4>1. p \notin heard[q] /\ (q = 0 => main[0] # "closed")
        BY <1>1 DEF Inv, HeardInv
      <4>2. q = 0 => main'[0] # "closed"
        BY <1>1, <1>3, <4>1
      <4> QED BY <1>1, <1>3, <1>4, <4>1, <4>2 DEF Tabled
    <3>2. chan[p][q] = mail
      BY <1>1, <3>1 DEF Inv, LineInv, Line
    <3>3. Mail(p, q, worker'[p][q], worker'[q][p], main') = mail
      BY <1>1, <1>3 DEF Mail, Seeded
    <3>4. chan'[p][q] = Line(mail, p, q, main', heard'[q], values'[p])
      BY <1>4, <1>5, <3>1, <3>2 DEF Line
    <3>5. Len(chan'[p][q]) <= Capacity
      <4>1. mail = <<>> \/ \E u : mail = <<u>>
        BY MailFacts
      <4>2. chan'[p][q] = Append(mail, t) /\ Len(mail) < Capacity /\ Capacity \in Nat
        BY <1>5, <3>2, CapacityAssumption
      <4> HIDE DEF mail, t
      <4>3. CASE mail = <<>>
        BY <4>2, <4>3
      <4>4. ASSUME NEW u, mail = <<u>> PROVE Len(chan'[p][q]) <= Capacity
        <5>1. chan'[p][q] = <<u, t>>
          BY <4>2, <4>4, AppendPair
        <5>2. Len(<<u, t>>) = 2 /\ Len(<<u>>) = 1
          OBVIOUS
        <5> QED BY <4>2, <4>4, <5>1, <5>2
      <4> QED BY <4>1, <4>3, <4>4
    <3> QED BY <2>1, <3>3, <3>4, <3>5 DEF LinesHold
  <2>2. CASE ~(i = p /\ j = q)
    <3>1. Tabled(i, j, main', heard'[j]) <=> Tabled(i, j, main, heard[j])
      BY <1>1, <1>3, <1>4, <2>2 DEF Tabled
    <3> QED BY <1>3, <1>4, <1>5, <2>2, <3>1, AdvanceLine
  <2> QED BY <2>1, <2>2
<1> QED BY <1>3, <1>6, <1>7, <1>8 DEF Inv, LinesHold, LineInv, LengthInv

(* Party 0 takes the last table and closes.                                *)
LEMMA OutputInv ==
    ASSUME Inv, Output
    PROVE  Inv'
PROOF
<1>1. main[0] = "table" /\ 0 \in Party /\ N-1 \in Party /\ N-1 # 0
  BY MaskFacts DEF Output
<1>2. Advances(0, "closed")
  BY <1>1 DEF Output, Advances
<1>3. /\ main' \in [Party -> {"mask", "oprf", "table", "closed"}]
      /\ main'[0] = "closed" /\ \A i \in Party \ {0} : main'[i] = main[i]
      /\ \A i \in Party : main'[i] = "mask" <=> main[i] = "mask"
      /\ UNCHANGED <<worker, omega, senderOprf, receiverOprf, mask>>
      /\ WorkerInv' /\ SessionInv' /\ MaskInv'
  BY <1>1, <1>2, Joined, AdvanceFacts
<1>4. /\ Tabled(N-1, 0, main, heard[0]) /\ Tail(chan[N-1][0]) = <<>>
      /\ Mail(N-1, 0, worker[N-1][0], worker[0][N-1], main) = <<>>
  BY <1>1, TableFirst DEF Output
<1>5. UNCHANGED <<values, heard>>
  BY DEF Output
<1>6. /\ Matrix(chan') /\ chan'[N-1][0] = <<>>
      /\ \A i, j \in Party : i # N-1 \/ j # 0 => chan'[i][j] = chan[i][j]
  <2>1. chan' = [chan EXCEPT ![N-1][0] = Tail(chan[N-1][0])] /\ Matrix(chan)
    BY DEF Output, Consume, Inv, Types
  <2> QED BY <1>1, <1>4, <2>1 DEF Matrix
<1>7. Types'
  BY <1>3, <1>5, <1>6 DEF Inv, Types
<1>8. HeardInv'
  <2>1. \A i \in Party : Preds(i) \subseteq Party \ {0}
    BY RouteFacts
  <2>2. main[N-1] = "closed" /\ HeardInv
    BY <1>4 DEF Tabled, Inv
  <2>3. \A i \in Party : heard[i] \subseteq {j \in Preds(i) : main'[j] = "closed"}
    BY <1>3, <2>1, <2>2 DEF HeardInv
  <2>4. \A i \in Party : main'[i] \in {"mask", "oprf"} => heard[i] = {}
    BY <1>3, <2>2 DEF HeardInv
  <2> QED BY <1>1, <1>3, <1>5, <2>2, <2>3, <2>4 DEF HeardInv
<1>9. ASSUME NEW i \in Party, NEW j \in Party PROVE LinesHold(i, j)
  <2>1. CASE i = N-1 /\ j = 0
    <3>1. ~Tabled(N-1, 0, main', heard'[0]) /\ Len(<<>>) <= Capacity
      BY <1>3, CapacityAssumption DEF Tabled
    <3>2. Mail(N-1, 0, worker'[N-1][0], worker'[0][N-1], main') = <<>>
      BY <1>1, <1>3, <1>4 DEF Mail, Seeded
    <3> QED BY <1>6, <2>1, <3>1, <3>2 DEF LinesHold, Line
  <2>2. CASE ~(i = N-1 /\ j = 0)
    <3>1. Tabled(i, j, main', heard'[j]) <=> Tabled(i, j, main, heard[j])
      BY <1>3, <1>5, <2>2, RouteFacts DEF Tabled
    <3> QED BY <1>3, <1>5, <1>6, <2>2, <3>1, AdvanceLine
  <2> QED BY <2>1, <2>2
<1> QED BY <1>3, <1>7, <1>8, <1>9 DEF Inv, LinesHold, LineInv, LengthInv
-----------------------------------------------------------------------------
(* The invariant holds when the sockets have been connected, whichever     *)
(* workers the main threads start with: OPRF workers unless the party      *)
(* waits for the masks, and at party 0 a mask worker for each mask peer.   *)
Starts ==
    /\ Quiet
    /\ main \in [Party -> {"mask", "oprf"}]
    /\ worker \in [Party -> [Party -> [session : {1}, at : {"none", "seed", "open"}]]]
    /\ \A p, q \in Party :
         /\ worker[p][q].at = "seed" => p = 0 /\ q \in MaskPeers
         /\ worker[p][q].at = "open" => Roles(p, q) # <<>>
         /\ Roles(p, q) # <<>> => (worker[p][q].at = "none" <=> main[p] = "mask")
    /\ \A p \in Party : main[p] = "mask" => Masked(p)
    /\ \A i \in MaskPeers : main[i] = "mask"

LEMMA StartInv == Starts => Inv
PROOF
<1> SUFFICES ASSUME Starts PROVE Inv
  OBVIOUS
<1>1. /\ omega = [p \in Party |-> [q \in Party |-> {}]]
      /\ chan = [p \in Party |-> [q \in Party |-> <<>>]]
      /\ mask = [p \in Party |-> {}]
      /\ senderOprf = [p \in Party |-> [q \in Party |-> {}]]
      /\ receiverOprf = [p \in Party |-> [q \in Party |-> {}]]
      /\ values = [p \in Party |-> [x \in PartySet[p] |-> {}]]
      /\ heard = [p \in Party |-> {}]
  BY DEF Starts, Quiet
<1>2. \A p, q \in Party :
         /\ worker[p][q].session = 1 /\ worker[p][q].at \in {"none", "open", "seed"}
         /\ worker[p][q].at = "open" => Roles(p, q) # <<>>
         /\ worker[p][q].at = "seed" => p = 0 /\ q \in MaskPeers
  BY DEF Starts
<1>3. \A p \in Party : main[p] \in {"mask", "oprf"}
  BY DEF Starts
<1>4. Types
  <2>1. worker \in [Party -> [Party -> [session : {1, 2}, at : Steps]]]
    BY DEF Starts, Steps
  <2>2. main \in [Party -> {"mask", "oprf", "table", "closed"}]
    BY DEF Starts
  <2> QED BY <1>1, <2>1, <2>2 DEF Types, Matrix
<1>5. WorkerInv
  <2> SUFFICES ASSUME NEW p \in Party, NEW q \in Party
               PROVE  WorkerAt(p, q, main[p], worker[p][q])
    BY DEF WorkerInv
  <2>1. CASE Roles(p, q) = <<>>
    BY <1>2, <2>1 DEF WorkerAt
  <2>2. CASE Roles(p, q) # <<>>
    <3>1. worker[p][q].at # "seed"
      BY <1>2, <2>2, MaskFacts
    <3>2. Len(Roles(p, q)) \in 1..2
      BY <2>2, RolesFacts
    <3>3. 1 \in 1..Len(Roles(p, q))
      BY <3>2
    <3>4. worker[p][q].at = "none" <=> main[p] = "mask"
      BY <2>2 DEF Starts
    <3> QED BY <1>2, <1>3, <2>2, <3>1, <3>3, <3>4 DEF WorkerAt
  <2> QED BY <2>1, <2>2
<1>6. SessionInv
  <2> SUFFICES ASSUME NEW s \in Party, NEW r \in Party, NEW k, Session(s, r, k)
               PROVE  SessionAt(s, r, k, worker[s][r], worker[r][s], omega[s][r], omega[r][s],
                                senderOprf[s][r], receiverOprf[r][s])
    BY DEF SessionInv, Session
  <2>1. k \in 1..2 /\ Roles(s, r) # <<>> /\ Roles(r, s) # <<>>
    BY SessionFacts
  <2>2. worker[s][r].at # "seed" /\ worker[r][s].at # "seed"
    BY <1>2, <2>1, MaskFacts
  <2>3. Before(worker[s][r], k) /\ Before(worker[r][s], k)
    BY <1>2, <2>1, <2>2 DEF Before
  <2>4. senderOprf[s][r] = {} /\ receiverOprf[r][s] = {}
    BY <1>1
  <2> QED BY <2>3, <2>4 DEF SessionAt
<1>7. LineInv /\ LengthInv
  <2> SUFFICES ASSUME NEW p \in Party, NEW q \in Party
               PROVE  /\ chan[p][q] = Line(Mail(p, q, worker[p][q], worker[q][p], main),
                                           p, q, main, heard[q], values[p])
                      /\ Len(chan[p][q]) <= Capacity
    BY DEF LineInv, LengthInv
  <2>1. ~Tabled(p, q, main, heard[q])
    BY <1>3 DEF Tabled
  <2>2. worker[p][q].at # "done" /\ worker[q][p].at \in {"none", "open", "seed"}
    BY <1>2
  <2>3. Mail(p, q, worker[p][q], worker[q][p], main) = <<>>
    BY <2>2 DEF Mail, Seeded, Talk
  <2>4. chan[p][q] = <<>> /\ Len(<<>>) <= Capacity
    BY <1>1, CapacityAssumption
  <2> QED BY <2>1, <2>3, <2>4 DEF Line
<1>8. MaskInv
  <2>1. 0 \in Party /\ \A i \in MaskPeers : i \in Party /\ worker[0][i].at # "done" /\ main[i] = "mask"
    BY <1>2, MaskFacts DEF Starts
  <2>2. \A p \in Party \ {0} : main[p] # "mask" => MaskTerms(p) = {}
    BY <2>1 DEF MaskTerms
  <2>3. SeedsSent => MaskTerms(0) = {}
    BY <2>1 DEF SeedsSent, MaskTerms
  <2>4. \A p \in Party : mask[p] = {}
    BY <1>1
  <2> QED BY <1>3, <2>1, <2>2, <2>3, <2>4 DEF Starts, MaskInv
<1>9. HeardInv
  <2>1. \A p \in Party : heard[p] = {} /\ main[p] # "closed"
    BY <1>1, <1>3
  <2> QED BY <2>1, MaskFacts DEF HeardInv
<1> QED BY <1>4, <1>5, <1>6, <1>7, <1>8, <1>9 DEF Inv

LEMMA InitInv == Init => Inv /\ MasksFirst
PROOF
<1> SUFFICES ASSUME Init PROVE Inv /\ MasksFirst
  OBVIOUS
<1> DEFINE open == [session |-> 1, at |-> "open"]
           seed == [session |-> 1, at |-> "seed"]
           none == [session |-> 1, at |-> "none"]
<1>1. main = [p \in Party |-> IF Masked(p) THEN "mask" ELSE "oprf"] /\ Quiet
  BY DEF Init
<1>2. worker = [p \in Party |-> [q \in Party |->
                 IF ~Masked(p) THEN IF Roles(p, q) = <<>> THEN none ELSE open
                 ELSE IF p = 0 /\ q \in MaskPeers THEN seed ELSE none]]
  <2>1. /\ [Unborn EXCEPT !.at = "open"] = open /\ [Unborn EXCEPT !.at = "seed"] = seed
        /\ Unborn = none /\ [Unborn EXCEPT !.at = "none"] = none
    BY DEF Unborn
  <2>2. ASSUME NEW p \in Party
        PROVE  worker[p] = [q \in Party |->
                 IF ~Masked(p) THEN IF Roles(p, q) = <<>> THEN none ELSE open
                 ELSE IF p = 0 /\ q \in MaskPeers THEN seed ELSE none]
    <3>1. CASE ~Masked(p)
      BY <2>1, <3>1 DEF Init, Spawned, Idle
    <3>2. CASE Masked(p) /\ p = 0
      <4>1. worker[0] = [i \in Party |-> [Unborn EXCEPT !.at = IF i \in MaskPeers THEN "seed" ELSE @]]
        BY <3>2 DEF Init
      <4>2. ASSUME NEW i \in Party
            PROVE  [Unborn EXCEPT !.at = IF i \in MaskPeers THEN "seed" ELSE @]
                     = IF i \in MaskPeers THEN seed ELSE none
        BY <2>1
      <4> QED BY <3>2, <4>1, <4>2
    <3>3. CASE Masked(p) /\ p # 0
      BY <2>1, <3>3 DEF Init, Idle
    <3> QED BY <3>1, <3>2, <3>3
  <2> QED BY <2>2 DEF Init
<1>3. worker \in [Party -> [Party -> [session : {1}, at : {"none", "seed", "open"}]]]
  BY <1>2
<1>4. MaskPeers # {} => Masked(0)
  BY MaskFacts
<1>5. \A p, q \in Party :
         /\ worker[p][q].at = "open" <=> (~Masked(p) /\ Roles(p, q) # <<>>)
         /\ worker[p][q].at = "seed" <=> (p = 0 /\ q \in MaskPeers)
  BY <1>2, <1>4
<1>6. \A p, q \in Party : Roles(p, q) # <<>> => (worker[p][q].at = "none" <=> main[p] = "mask")
  BY <1>1, <1>2, MaskFacts
<1>7. \A i \in MaskPeers : main[0] = "mask" /\ main[i] = "mask"
  BY <1>1, MaskFacts
<1>8. Starts
  BY <1>1, <1>3, <1>5, <1>6, <1>7 DEF Starts
<1> QED BY <1>7, <1>8, StartInv DEF MasksFirst, SeedsSent

(* A worker in a session, and the main threads from then on.               *)
LEMMA WorkerKeeps ==
    ASSUME Inv, NEW p \in Party, NEW q \in Party, Worker(p, q)
    PROVE  Inv'
BY OpenSessionInv, RcvSendOmegaInv, SndRecvOmegaInv, SndSendOmegaInv, RcvRecvOmegaInv,
   RcvSendAPrimeInv, SndRecvAPrimeInv DEF Worker, InSession

LEMMA MainKeeps ==
    ASSUME Inv, NEW p \in Party,
           \/ RecvMask(p)
           \/ JoinWorkers(p) /\ (p = 0 => SeedsSent)
           \/ \E q \in Party : RecvTable(p, q)
           \/ SendTable(p)
    PROVE  Inv'
BY RecvMaskInv, JoinWorkersInv, RecvTableInv, SendTableInv

LEMMA StutterKeeps ==
    ASSUME Inv, UNCHANGED vars
    PROVE  Inv'
PROOF
<1>1. UNCHANGED <<main, worker, omega, senderOprf, receiverOprf, chan, mask, values, heard>>
  BY DEF vars, threads
<1> QED BY <1>1 DEF Inv, Types, WorkerInv, SessionInv, LineInv, LengthInv, MaskInv, SeedsSent, HeardInv

(* Seeds that are sent stay sent.                                          *)
LEMMA SeedsStay ==
    ASSUME Inv, NEW p \in Party, NEW q \in Party, Worker(p, q)
    PROVE  \A i \in MaskPeers : worker'[0][i] = worker[0][i]
PROOF
<1>1. Matrix(worker)
  BY DEF Inv, Types, Matrix
<1>2. Roles(p, q) # <<>> /\ Roles(q, p) # <<>>
  <2>1. worker[p][q].at \notin {"none", "seed", "done"}
    BY DEF Worker, InSession, OpenSession, RcvSendOmega, SndRecvOmega, SndSendOmega,
           RcvRecvOmega, RcvSendAPrime, SndRecvAPrime, Running
  <2> QED BY <2>1, NoTalk, RolesFacts
<1>3. ASSUME NEW i \in Party, NEW j \in Party, Roles(i, j) = <<>>
      PROVE  worker'[i][j] = worker[i][j]
  BY <1>1, <1>2, <1>3 DEF Matrix, Worker, InSession, OpenSession, RcvSendOmega, SndRecvOmega,
     SndSendOmega, RcvRecvOmega, RcvSendAPrime, SndRecvAPrime, Goto, Leave
<1> QED BY <1>3, MaskFacts

LEMMA MainStays ==
    ASSUME Inv, NEW p \in Party, Main(p)
    PROVE  /\ \A i \in MaskPeers : worker'[0][i] = worker[0][i]
           /\ main'[0] = "mask" <=> main[0] = "mask"
PROOF
<1>1. 0 \in Party /\ DOMAIN main = Party /\ Matrix(worker)
  BY MaskFacts DEF Inv, Types, Matrix
<1>2. CASE RecvMask(p)
  BY <1>1, <1>2 DEF RecvMask, Matrix
<1>3. CASE JoinWorkers(p)
  BY <1>1, <1>3 DEF JoinWorkers, threads
<1>4. ASSUME NEW q \in Party, RecvTable(p, q)
      PROVE  UNCHANGED <<main, worker>>
  BY <1>4 DEF RecvTable, threads
<1>5. CASE SendTable(p)
  BY <1>1, <1>5 DEF SendTable, threads
<1> QED BY <1>2, <1>3, <1>4, <1>5 DEF Main

(* Every step preserves the invariant, by cases on the threads.            *)
LEMMA NextInv == Inv /\ MasksFirst /\ [Next]_vars => Inv' /\ MasksFirst'
PROOF
<1> SUFFICES ASSUME Inv, MasksFirst, [Next]_vars PROVE Inv' /\ MasksFirst'
  OBVIOUS
<1>1. CASE UNCHANGED vars
  <2>1. UNCHANGED <<main, worker>>
    BY <1>1 DEF vars, threads
  <2> QED BY <1>1, <2>1, StutterKeeps DEF MasksFirst, SeedsSent
<1>2. ASSUME NEW p \in Party, NEW q \in Party, Worker(p, q) PROVE Inv' /\ MasksFirst'
  <2>1. main' = main
    BY <1>2 DEF Worker, InSession, OpenSession, RcvSendOmega, SndRecvOmega, SndSendOmega,
                RcvRecvOmega, RcvSendAPrime, SndRecvAPrime
  <2> QED BY <1>2, <2>1, WorkerKeeps, SeedsStay DEF MasksFirst, SeedsSent
<1>3. ASSUME NEW p \in Party, Main(p) PROVE Inv' /\ MasksFirst'
  <2>1. JoinWorkers(p) => (p = 0 => SeedsSent)
    BY DEF JoinWorkers, MasksFirst
  <2>2. Inv'
    BY <1>3, <2>1, MainKeeps DEF Main
  <2> QED BY <1>3, <2>2, MainStays DEF MasksFirst, SeedsSent
<1>4. CASE Main0
  <2>1. ASSUME Output PROVE Inv' /\ MasksFirst'
    <3>1. SeedsSent /\ worker' = worker
      BY <2>1, Joined, MaskFacts DEF Output, threads
    <3> QED BY <2>1, <3>1, OutputInv DEF MasksFirst, SeedsSent
  <2> QED BY <1>4, <2>1, MaskWorkerInv, JoinMasksInv DEF Main0
<1> QED BY <1>1, <1>2, <1>3, <1>4 DEF Next, Step, Terminated

(* The invariant of the message protocol.                                  *)
THEOREM ProtocolInductive == Spec => [](Inv /\ MasksFirst)
BY InitInv, NextInv, PTL DEF Spec
-----------------------------------------------------------------------------
(* What is in front of a line: nothing, the seed, or a message of the      *)
(* session; a party that has closed leaves nothing but its table.          *)
LEMMA FrontOfLine ==
    ASSUME Inv, NEW p \in Party, NEW q \in Party, chan[q][p] # <<>>
    PROVE  \/ /\ Seeded(q, p, worker[q][p], main)
              /\ Head(chan[q][p]).kind = "seed"
           \/ /\ Roles(q, p) # <<>> /\ Talk(q, p, worker[q][p], worker[p][q]) # <<>>
              /\ \/ worker[p][q].at = "recvOmega" /\ Head(chan[q][p]).kind = "omega"
                 \/ worker[p][q].at = "recvAPrime" /\ Head(chan[q][p]).kind = "aprime"
           \/ /\ ~Seeded(q, p, worker[q][p], main) /\ Tabled(q, p, main, heard[p])
              /\ Talk(q, p, worker[q][p], worker[p][q]) = <<>>
              /\ Head(chan[q][p]).kind = "table"
PROOF
<1> DEFINE c == chan[q][p]
           w == worker[q][p]
           v == worker[p][q]
           mail == Mail(q, p, w, v, main)
<1>1. c = Line(mail, q, p, main, heard[p], values[q])
  BY DEF Inv, LineInv
<1>2. \A k, b : Msg(k, b).kind = k
  BY DEF Msg
<1>3. \A u : mail = <<u>> => Head(c) = u
  BY MailFirst
<1>4. CASE Seeded(q, p, w, main)
  <2>1. mail = <<Msg("seed", {Mask(0, p)})>>
    BY <1>4 DEF Mail
  <2> QED BY <1>2, <1>3, <1>4, <2>1
<1>5. CASE ~Seeded(q, p, w, main) /\ Talk(q, p, w, v) # <<>>
  <2>1. mail = Talk(q, p, w, v) /\ Roles(q, p) # <<>>
    BY <1>5, NoTalk DEF Mail
  <2>2. \/ v.at = "recvOmega" /\ \E b : Talk(q, p, w, v) = <<Msg("omega", b)>>
        \/ v.at = "recvAPrime" /\ \E b : Talk(q, p, w, v) = <<Msg("aprime", b)>>
    BY <1>5 DEF Talk
  <2> QED BY <1>2, <1>3, <1>5, <2>1, <2>2
<1>6. CASE ~Seeded(q, p, w, main) /\ Talk(q, p, w, v) = <<>>
  <2>1. mail = <<>>
    BY <1>6 DEF Mail
  <2>2. Tabled(q, p, main, heard[p]) /\ c = <<Msg("table", Encode(q, values[q]))>>
    BY <1>1, <2>1 DEF Line
  <2>3. Head(c) = Msg("table", Encode(q, values[q]))
    BY <2>2
  <2> QED BY <1>2, <1>6, <2>2, <2>3
<1> QED BY <1>4, <1>5, <1>6

(* A worker that waits for a message of its session waits in vain only     *)
(* while the other side has not sent it and has not left the session.      *)
LEMMA Waiting ==
    ASSUME Inv, NEW p \in Party, NEW q \in Party,
           worker[p][q].at \in {"recvOmega", "recvAPrime"},
           Talk(q, p, worker[q][p], worker[p][q]) = <<>>
    PROVE  worker[q][p].at # "done" /\ Roles(q, p) # <<>> /\ main[p] # "mask"
PROOF
<1> DEFINE w == worker[q][p]
           v == worker[p][q]
           k == v.session
<1>1. Roles(p, q) # <<>> /\ Roles(q, p) # <<>>
  BY NoTalk, RolesFacts
<1>2. k \in 1..Len(Roles(p, q)) /\ main[p] # "mask"
  BY <1>1 DEF Inv, WorkerInv, WorkerAt
<1>3. CASE Roles(p, q)[k] = "snd"
  <2>1. Session(p, q, k)
    BY <1>2, <1>3 DEF Session
  <2>2. SessionAt(p, q, k, v, w, omega[p][q], omega[q][p], senderOprf[p][q], receiverOprf[q][p])
    BY <2>1, SessionNow
  <2>3. SenderSees(p, q, k, v, w, omega[p][q], omega[q][p], senderOprf[p][q], receiverOprf[q][p])
    BY <2>1, <2>2, SessionFacts, SenderAt
  <2>4. v.at = "recvAPrime" => w.at \in {"recvOmega", "sendAPrime"}
    BY DEF Talk
  <2>5. v.at = "recvOmega" => w.at \in {"sendOmega", "recvOmega"}
    BY <2>3 DEF SenderSees
  <2> QED BY <1>1, <1>2, <2>4, <2>5
<1>4. CASE Roles(p, q)[k] = "rcv"
  <2>1. Session(q, p, k)
    BY <1>2, <1>4, RolesFacts DEF Session
  <2>2. SessionAt(q, p, k, w, v, omega[q][p], omega[p][q], senderOprf[q][p], receiverOprf[p][q])
    BY <2>1, SessionNow
  <2>3. ReceiverSees(q, p, k, w, v, omega[q][p], omega[p][q], senderOprf[q][p], receiverOprf[p][q])
    BY <2>1, <2>2, SessionFacts, ReceiverAt
  <2>4. v.at = "recvAPrime" => w.at \in {"recvOmega", "sendAPrime"}
    BY DEF Talk
  <2>5. v.at = "recvOmega" => w.at \in {"sendOmega", "recvOmega", "recvAPrime"}
    BY <2>3 DEF ReceiverSees
  <2> QED BY <1>1, <1>2, <2>4, <2>5
<1> QED BY <1>2, <1>3, <1>4, RolesFacts

(* The kind of the message in front, for whoever waits for it.             *)
LEMMA KindExpected == Inv => ExpectedMessage
PROOF
<1> SUFFICES ASSUME Inv, NEW p \in Party, NEW q \in Party, chan[q][p] # <<>>,
                    Awaited(p, q) # "-"
             PROVE  Head(chan[q][p]).kind = Awaited(p, q)
  BY DEF ExpectedMessage
<1> DEFINE a == worker[p][q].at
           h == Head(chan[q][p]).kind
<1>1. a \in {"recvOmega", "recvAPrime"} => main[p] # "mask" /\ Roles(q, p) # <<>>
  BY RolesFacts, NoTalk DEF Inv, WorkerInv, WorkerAt
<1>2. main[p] = "table" => a \notin {"recvOmega", "recvAPrime"}
  BY NoTalk, Joined
<1>3. a \in {"recvOmega", "recvAPrime"} => ~Seeded(q, p, worker[q][p], main)
  BY <1>1 DEF Seeded
<1>4. a \in {"recvOmega", "recvAPrime"} =>
         Talk(q, p, worker[q][p], worker[p][q]) # <<>> \/ ~Tabled(q, p, main, heard[p])
  BY Waiting, Joined DEF Tabled
<1>5. CASE q = 0 /\ main[p] = "mask" /\ p # 0
  <2>1. ~Tabled(q, p, main, heard[p])
    BY <1>5 DEF Tabled
  <2>2. h = "seed"
    BY <1>1, <1>5, <2>1, FrontOfLine
  <2> QED BY <1>1, <1>2, <1>5, <2>2 DEF Awaited
<1>6. CASE a = "recvOmega"
  <2>1. h = "omega"
    BY <1>3, <1>4, <1>6, FrontOfLine
  <2> QED BY <1>1, <1>2, <1>6, <2>1 DEF Awaited
<1>7. CASE a = "recvAPrime"
  <2>1. h = "aprime"
    BY <1>3, <1>4, <1>7, FrontOfLine
  <2> QED BY <1>1, <1>2, <1>7, <2>1 DEF Awaited
<1>8. CASE main[p] = "table" /\ (q \in Preds(p) \/ <<p, q>> = <<0, N-1>>)
  <2>1. h = "table"
    BY <1>2, <1>8, FrontOfLine DEF Seeded
  <2> QED BY <1>2, <1>8, <2>1 DEF Awaited
<1> QED BY <1>5, <1>6, <1>7, <1>8 DEF Awaited

(* The reading thread never finds a message of another kind than the one   *)
(* it waits for at the head of its channel.                                *)
THEOREM MessageExpected == Spec => []ExpectedMessage
BY KindExpected, ProtocolInductive, PTL

(* The lines of a session that is about to open.                           *)
LEMMA CleanStart == Inv => CleanChannel
PROOF
<1> SUFFICES ASSUME Inv, NEW s \in Party, NEW r \in Party,
                    Running(s, r, "snd", "open"), Running(r, s, "rcv", "open")
             PROVE  chan[s][r] = <<>> /\ chan[r][s] = <<>>
  BY DEF CleanChannel
<1>1. worker[s][r].at = "open" /\ worker[r][s].at = "open"
  BY DEF Running
<1>2. Roles(s, r) # <<>> /\ Roles(r, s) # <<>>
  BY <1>1, NoTalk
<1>3. /\ Talk(s, r, worker[s][r], worker[r][s]) = <<>>
      /\ Talk(r, s, worker[r][s], worker[s][r]) = <<>>
  BY <1>1 DEF Talk
<1> QED BY <1>1, <1>2, <1>3, LineNow DEF Line

(* Nothing is left in a socket when the two threads of a session start to  *)
(* use it for the synchronisation and the VOLE.                            *)
THEOREM ChannelClean == Spec => []CleanChannel
BY CleanStart, ProtocolInductive, PTL

(* A worker that has left a session is past it.                            *)
LEMMA LeftPast ==
    ASSUME Inv, NEW p \in Party, NEW q \in Party, NEW k \in 1..Len(Roles(p, q)),
           Past(worker[p][q], k)
    PROVE  ~Before(worker[p][q], k) /\ \A a : a # "done" => ~In(worker[p][q], k, a)
PROOF
<1>1. Roles(p, q) # <<>> /\ Len(Roles(p, q)) \in 1..2
  BY RolesFacts
<1>2. WorkerAt(p, q, main[p], worker[p][q])
  BY DEF Inv, WorkerInv
<1> DEFINE n == Len(Roles(p, q))
           w == worker[p][q]
<1>3. n \in 1..2 /\ k \in 1..n /\ w.session \in 1..n /\ (w.at = "done" => w.session = n)
  BY <1>1, <1>2 DEF WorkerAt
<1>4. Past(w, k)
  OBVIOUS
<1> HIDE DEF n, w
<1>5. ~(w.session < k) /\ (w.session = k => w.at = "done")
  BY <1>3, <1>4 DEF Past
<1> QED BY <1>5 DEF Before, In, w

(* Both ends of a session end up with the same pad.                        *)
LEMMA PadOf ==
    ASSUME Inv, NEW s \in Party, NEW r \in Party, NEW k, Session(s, r, k)
    PROVE  /\ Past(worker[r][s], k) => receiverOprf[r][s] = {Oprf(s, r)}
           /\ Past(worker[s][r], k) => senderOprf[s][r] = {Oprf(s, r)}
PROOF
<1> DEFINE w == worker[s][r]
           v == worker[r][s]
<1>1. SessionAt(s, r, k, w, v, omega[s][r], omega[r][s], senderOprf[s][r], receiverOprf[r][s])
  BY SessionNow
<1>2. k \in 1..Len(Roles(s, r)) /\ k \in 1..Len(Roles(r, s))
  BY RolesFacts DEF Session
<1>3. Past(w, k) => ~Before(w, k) /\ \A a : a # "done" => ~In(w, k, a)
  BY <1>2, LeftPast
<1>4. Past(v, k) => ~Before(v, k) /\ \A a : a # "done" => ~In(v, k, a)
  BY <1>2, LeftPast
<1> HIDE DEF w, v
<1>5. Past(v, k) => receiverOprf[r][s] = {Oprf(s, r)}
  BY <1>1, <1>4 DEF SessionAt
<1>6. Past(w, k) => senderOprf[s][r] = {Oprf(s, r)}
  BY <1>1, <1>3 DEF SessionAt
<1> QED BY <1>5, <1>6 DEF w, v

(* Whoever has left a session has its pad.                                 *)
LEMMA PadsAgree == Inv => SessionAgreement
PROOF
<1> SUFFICES ASSUME Inv, NEW s \in Party, NEW r \in Party,
                    Left(s, r, "snd"), Left(r, s, "rcv")
             PROVE  senderOprf[s][r] = receiverOprf[r][s]
  BY DEF SessionAgreement
<1>1. PICK k \in 1..Len(Roles(s, r)) : Roles(s, r)[k] = "snd" /\ Past(worker[s][r], k)
  BY DEF Left, Past
<1>2. PICK n \in 1..Len(Roles(r, s)) : Roles(r, s)[n] = "rcv" /\ Past(worker[r][s], n)
  BY DEF Left, Past
<1>3. Session(s, r, k) /\ Session(s, r, n)
  BY <1>1, <1>2, RolesFacts DEF Session
<1> QED BY <1>1, <1>2, <1>3, PadOf

(* Both ends of every session use the same pad.                            *)
THEOREM SessionsAgree == Spec => []SessionAgreement
BY PadsAgree, ProtocolInductive, PTL

(* A party that has closed has read all that is ever sent to it.           *)
LEMMA ClosedDrained == Inv => Drained
PROOF
<1> SUFFICES ASSUME Inv, NEW p \in Party, main[p] = "closed", NEW q \in Party,
                    chan[q][p] # <<>>
             PROVE  FALSE
  BY DEF Drained
<1>1. worker[p][q].at \notin {"recvOmega", "recvAPrime"}
  BY NoTalk, Joined
<1>2. Tabled(q, p, main, heard[p])
  BY <1>1, FrontOfLine DEF Seeded
<1>3. p # 0 => heard[p] = Preds(p)
  BY DEF Inv, HeardInv
<1> QED BY <1>2, <1>3, RouteFacts DEF Tabled

(* No message is on its way to a party that has closed its sockets.        *)
THEOREM NothingLost == Spec => []Drained
BY ClosedDrained, ProtocolInductive, PTL
-----------------------------------------------------------------------------
(* XORing the pads of a set of sessions gives all of them.                 *)
LEMMA XorOfPads ==
    ASSUME NEW I, NEW f, NEW g, \A i \in I : f[i] = {g[i]},
           \A i, j \in I : g[i] = g[j] => i = j
    PROVE  XorOver(I, f) = {g[i] : i \in I}
PROOF
<1>1. ASSUME NEW i \in I PROVE Cardinality({j \in I : g[i] \in f[j]}) % 2 = 1
  <2>1. {j \in I : g[i] \in f[j]} = {i}
    OBVIOUS
  <2>2. Cardinality({i}) = 1
    BY FS_Singleton
  <2> QED BY <2>1, <2>2
<1>2. UNION {f[i] : i \in I} = {g[i] : i \in I}
  OBVIOUS
<1> QED BY <1>1, <1>2 DEF XorOver

(* What a party combines once its workers have been joined: its share.     *)
LEMMA CombinedShare ==
    ASSUME Inv, NEW p \in Party, main[p] = "oprf", p = 0 => SeedsSent,
           \A q \in Party : Roles(p, q) # <<>> => worker[p][q].at = "done"
    PROVE  Xor(mask[p], Xor(XorOver(ReceiverTerms(p), receiverOprf[p]),
                            XorOver(SenderTerms(p), senderOprf[p]))) = ShareOf(p)
PROOF
<1>1. mask[p] = MaskTerms(p)
  BY DEF Inv, MaskInv
<1>2. ASSUME NEW s \in ReceiverTerms(p)
      PROVE  s # p /\ receiverOprf[p][s] = {Oprf(s, p)}
  <2>1. PICK k \in 1..Len(Roles(s, p)) : Roles(s, p)[k] = "snd"
    BY TermFacts
  <2>2. s \in Party /\ s # p /\ Session(s, p, k)
    BY <2>1, TermFacts DEF Session
  <2>3. worker[p][s].at = "done"
    BY <2>2, SessionFacts
  <2> QED BY <2>2, <2>3, PadOf DEF Past
<1>3. ASSUME NEW r \in SenderTerms(p)
      PROVE  r # p /\ senderOprf[p][r] = {Oprf(p, r)}
  <2>1. PICK k \in 1..Len(Roles(p, r)) : Roles(p, r)[k] = "snd"
    BY TermFacts
  <2>2. r \in Party /\ r # p /\ Session(p, r, k)
    BY <2>1, TermFacts DEF Session
  <2>3. worker[p][r].at = "done"
    BY <2>2, SessionFacts
  <2> QED BY <2>2, <2>3, PadOf DEF Past
<1> DEFINE A == {Oprf(s, p) : s \in ReceiverTerms(p)}
           B == {Oprf(p, r) : r \in SenderTerms(p)}
<1>4. XorOver(ReceiverTerms(p), receiverOprf[p]) = A
  <2> DEFINE g == [s \in ReceiverTerms(p) |-> Oprf(s, p)]
  <2>1. \A i, j \in ReceiverTerms(p) : g[i] = g[j] => i = j
    BY DEF Oprf
  <2>2. \A s \in ReceiverTerms(p) : receiverOprf[p][s] = {g[s]}
    BY <1>2
  <2>3. {g[s] : s \in ReceiverTerms(p)} = A
    OBVIOUS
  <2> HIDE DEF g, A
  <2>4. XorOver(ReceiverTerms(p), receiverOprf[p]) = {g[i] : i \in ReceiverTerms(p)}
    BY <2>1, <2>2, XorOfPads
  <2> QED BY <2>3, <2>4
<1>5. XorOver(SenderTerms(p), senderOprf[p]) = B
  <2> DEFINE g == [r \in SenderTerms(p) |-> Oprf(p, r)]
  <2>1. \A i, j \in SenderTerms(p) : g[i] = g[j] => i = j
    BY DEF Oprf
  <2>2. \A r \in SenderTerms(p) : senderOprf[p][r] = {g[r]}
    BY <1>3
  <2>3. {g[r] : r \in SenderTerms(p)} = B
    OBVIOUS
  <2> HIDE DEF g, B
  <2>4. XorOver(SenderTerms(p), senderOprf[p]) = {g[i] : i \in SenderTerms(p)}
    BY <2>1, <2>2, XorOfPads
  <2> QED BY <2>3, <2>4
<1>6. A \cap B = {} /\ MaskTerms(p) \cap (A \cup B) = {}
  BY <1>2 DEF Oprf, Mask, MaskTerms
<1>7. ShareOf(p) = MaskTerms(p) \cup A \cup B
  BY DEF ShareOf
<1> HIDE DEF A, B
<1>8. Xor(MaskTerms(p), Xor(A, B)) = MaskTerms(p) \cup A \cup B
  BY <1>6 DEF Xor
<1> QED BY <1>1, <1>4, <1>5, <1>7, <1>8

(* The instance of Rounds is about the same parties.                       *)
LEMMA SameRounds ==
    /\ R!Party = Party
    /\ \A p : R!ShareOf(p) = ShareOf(p) /\ R!Preds(p) = Preds(p) /\ R!NoValues(p) = [x \in PartySet[p] |-> {}]
    /\ \A p, v : R!Encode(p, v) = Encode(p, v)
    /\ \A a, b : R!Xor(a, b) = Xor(a, b)
BY DEF R!Party, Party, R!ShareOf, ShareOf, R!MaskTerms, MaskTerms, R!ReceiverTerms, ReceiverTerms,
       R!SenderTerms, SenderTerms, R!Preds, Preds, R!NoValues, R!Encode, Encode, R!Xor, Xor,
       R!Mask, Mask, R!Oprf, Oprf, R!LastT, LastT, R!Middle, Middle, R!Junk, Junk

LEMMA SameSpec ==
    /\ R!Init => RP!Init
    /\ [R!Next]_R!vars => [RP!Next]_RP!vars
BY Zenon DEF R!Init, RP!Init, R!Next, RP!Next, R!vars, RP!vars, R!Combine, RP!Combine, R!Absorb, RP!Absorb,
   R!Publish, RP!Publish, R!Output, RP!Output, R!Terminated, RP!Terminated, R!NoValues, RP!NoValues,
   R!NoTable, RP!NoTable, R!Party, RP!Party, R!ShareOf, RP!ShareOf, R!MaskTerms, RP!MaskTerms, 
   R!ReceiverTerms, RP!ReceiverTerms, R!SenderTerms, RP!SenderTerms, R!Preds, RP!Preds,
   R!Encode, RP!Encode, R!Xor, RP!Xor, R!Mask, RP!Mask, R!Oprf, RP!Oprf, R!LastT, RP!LastT,
   R!Middle, RP!Middle, R!Junk, RP!Junk

(* The view of Rounds on a party, and on the parties that do not move.     *)
LEMMA PhaseFacts ==
    ASSUME NEW p \in Party
    PROVE  /\ Phase[p] = IF main[p] = "closed" THEN "done"
                         ELSE IF main[p] = "table" THEN "combined" ELSE "start"
           /\ Published[p] = IF p # 0 /\ main[p] = "closed" THEN Encode(p, values[p])
                             ELSE [x \in Element |-> {}]
BY DEF Phase, Published

(* A step of Mpsi that no party's phase, values or answer shows.           *)
LEMMA Stutter ==
    ASSUME UNCHANGED <<values, heard, result>>,
           \A p \in Party : main'[p] \in {"table", "closed"} \/ main[p] \in {"table", "closed"}
                              => main'[p] = main[p]
    PROVE  UNCHANGED R!vars
PROOF
<1>1. Phase' = Phase
  BY DEF Phase
<1>2. Published' = Published
  BY DEF Published
<1> QED BY <1>1, <1>2 DEF R!vars

(* A main thread that moves from one phase to the next.                    *)
LEMMA PhaseMoves ==
    ASSUME NEW p \in Party, NEW b, main' = [main EXCEPT ![p] = b], DOMAIN main = Party,
           b \in {"table", "closed"}
    PROVE  /\ Phase' = [Phase EXCEPT ![p] = IF b = "closed" THEN "done" ELSE "combined"]
           /\ \A q \in Party \ {p} : main'[q] = main[q]
           /\ main'[p] = b
BY DEF Phase

LEMMA CombineStep ==
    ASSUME Inv, NEW p \in Party, JoinWorkers(p), p = 0 => SeedsSent
    PROVE  R!Combine(p)
PROOF
<1>1. Phase' = [Phase EXCEPT ![p] = "combined"] /\ main'[p] = "table" /\ main[p] = "oprf"
      /\ \A q \in Party \ {p} : main'[q] = main[q]
  BY PhaseMoves DEF JoinWorkers, Inv, Types
<1>2. Phase[p] = "start"
  BY <1>1, PhaseFacts
<1>3. values' = [values EXCEPT ![p] = [x \in PartySet[p] |-> ShareOf(p)]]
  BY CombinedShare DEF JoinWorkers
<1>4. Published' = Published
  <2>1. \A q \in Party : main'[q] = "closed" => main[q] = "closed" /\ values'[q] = values[q]
    BY <1>1, <1>3
  <2>2. \A q \in Party : main[q] = "closed" => main'[q] = "closed"
    BY <1>1
  <2> QED BY <2>1, <2>2 DEF Published
<1>5. UNCHANGED <<heard, result>>
  BY DEF JoinWorkers
<1> QED BY <1>1, <1>2, <1>3, <1>4, <1>5, SameRounds DEF R!Combine

LEMMA AbsorbStep ==
    ASSUME Inv, NEW p \in Party, NEW q \in Party, RecvTable(p, q)
    PROVE  R!Absorb(p, q)
PROOF
<1>1. main[p] = "table" /\ q # p /\ q # 0 /\ p # 0
  BY RouteFacts, TableFirst DEF RecvTable, Tabled
<1>2. /\ main[q] = "closed" /\ Received(p, q) = Encode(q, values[q])
      /\ UNCHANGED <<main, result>>
  BY TableFirst DEF RecvTable, Tabled
<1>3. Phase[p] = "combined" /\ Phase[q] = "done" /\ Published[q] = Encode(q, values[q])
  BY <1>1, <1>2, PhaseFacts
<1>4. values' = [values EXCEPT ![p] = [x \in PartySet[p] |-> Xor(values[p][x], Published[q][x])]]
  BY <1>2, <1>3 DEF RecvTable
<1>5. Phase' = Phase
  BY <1>2 DEF Phase
<1>6. Published' = Published
  <2>1. \A i \in Party : main[i] = "closed" => values'[i] = values[i]
    BY <1>1, <1>4
  <2> QED BY <1>2, <2>1 DEF Published
<1>7. /\ q \in Preds(p) \ heard[p] /\ \A r \in Preds(p) \ heard[p] : q <= r
      /\ heard' = [heard EXCEPT ![p] = @ \cup {q}]
  BY DEF RecvTable
<1> QED BY <1>2, <1>3, <1>4, <1>5, <1>6, <1>7, SameRounds DEF R!Absorb

LEMMA PublishStep ==
    ASSUME Inv, NEW p \in Party, SendTable(p)
    PROVE  R!Publish(p)
PROOF
<1>1. /\ Phase' = [Phase EXCEPT ![p] = "done"] /\ main'[p] = "closed" /\ main[p] = "table"
      /\ \A q \in Party \ {p} : main'[q] = main[q]
  BY PhaseMoves DEF SendTable, Inv, Types
<1>2. Phase[p] = "combined"
  BY <1>1, PhaseFacts
<1>3. p # 0 /\ heard[p] = Preds(p) /\ UNCHANGED <<values, heard, result>>
  BY DEF SendTable
<1>4. Published' = [Published EXCEPT ![p] = Encode(p, values[p])]
  BY <1>1, <1>3 DEF Published
<1> QED BY <1>1, <1>2, <1>3, <1>4, SameRounds DEF R!Publish

LEMMA OutputStep ==
    ASSUME Inv, Output
    PROVE  R!Output
PROOF
<1>1. 0 \in Party /\ N-1 \in Party /\ N-1 # 0
  BY MaskFacts
<1>2. /\ Phase' = [Phase EXCEPT ![0] = "done"] /\ main[0] = "table"
      /\ \A q \in Party \ {0} : main'[q] = main[q]
  BY <1>1, PhaseMoves DEF Output, Inv, Types
<1>3. main[N-1] = "closed" /\ Received(0, N-1) = Encode(N-1, values[N-1])
  BY <1>1, TableFirst DEF Output, Tabled
<1>4. Phase[0] = "combined" /\ Phase[N-1] = "done" /\ Published[N-1] = Received(0, N-1)
  BY <1>1, <1>2, <1>3, PhaseFacts
<1>5. UNCHANGED <<values, heard>>
  BY DEF Output
<1>6. Published' = Published
  BY <1>2, <1>5 DEF Published
<1>7. result' = {{x \in PartySet[0] : values[0][x] = Published[N-1][x]}}
  BY <1>4 DEF Output
<1> QED BY <1>2, <1>4, <1>5, <1>6, <1>7 DEF R!Output

(* Workers are not seen in Rounds, and main threads not before they        *)
(* combine.                                                                *)
LEMMA WorkerRefines ==
    ASSUME NEW p \in Party, NEW q \in Party, Worker(p, q)
    PROVE  UNCHANGED R!vars
PROOF
<1>1. UNCHANGED <<main, values, heard, result>>
  BY DEF Worker, InSession, OpenSession, RcvSendOmega, SndRecvOmega, SndSendOmega,
         RcvRecvOmega, RcvSendAPrime, SndRecvAPrime
<1> QED BY <1>1, Stutter

LEMMA MainRefines ==
    ASSUME Inv, NEW p \in Party,
           \/ RecvMask(p)
           \/ JoinWorkers(p) /\ (p = 0 => SeedsSent)
           \/ \E q \in Party : RecvTable(p, q)
           \/ SendTable(p)
    PROVE  [R!Next]_R!vars
PROOF
<1>1. ASSUME RecvMask(p) PROVE UNCHANGED R!vars
  <2>1. main \in [Party -> {"mask", "oprf", "table", "closed"}]
    BY DEF Inv, Types
  <2>2. UNCHANGED <<values, heard, result>> /\ main' = [main EXCEPT ![p] = "oprf"] /\ main[p] = "mask"
    BY <1>1 DEF RecvMask
  <2> QED BY <2>1, <2>2, Stutter
<1>2. ASSUME JoinWorkers(p), p = 0 => SeedsSent PROVE R!Next
  BY <1>2, CombineStep, SameRounds DEF R!Next
<1>3. ASSUME NEW q \in Party, RecvTable(p, q) PROVE R!Next
  BY <1>3, AbsorbStep, SameRounds DEF R!Next
<1>4. ASSUME SendTable(p) PROVE R!Next
  BY <1>4, PublishStep, SameRounds DEF R!Next
<1> QED BY <1>1, <1>2, <1>3, <1>4

(* Every step of the threads is a step of Rounds or one that Rounds does   *)
(* not see.                                                                *)
LEMMA StepRefines == Inv /\ MasksFirst /\ [Next]_vars => [R!Next]_R!vars
PROOF
<1> SUFFICES ASSUME Inv, MasksFirst, [Next]_vars PROVE [R!Next]_R!vars
  OBVIOUS
<1>1. CASE UNCHANGED vars
  <2>1. UNCHANGED <<main, values, heard, result>>
    BY <1>1 DEF vars
  <2> QED BY <2>1, Stutter
<1>2. ASSUME NEW p \in Party, Main(p) PROVE [R!Next]_R!vars
  <2>1. JoinWorkers(p) => (p = 0 => SeedsSent)
    BY DEF JoinWorkers, MasksFirst
  <2> QED BY <1>2, <2>1, MainRefines DEF Main
<1>3. ASSUME JoinMasks PROVE UNCHANGED R!vars
  <2>1. UNCHANGED <<values, heard, result>> /\ main' = [main EXCEPT ![0] = "oprf"] /\ main[0] = "mask"
    BY <1>3 DEF JoinMasks
  <2>2. main \in [Party -> {"mask", "oprf", "table", "closed"}] /\ 0 \in Party
    BY MaskFacts DEF Inv, Types
  <2> QED BY <2>1, <2>2, Stutter
<1>4. ASSUME NEW i \in MaskPeers, MaskWorker(i) PROVE UNCHANGED R!vars
  <2>1. UNCHANGED <<main, values, heard, result>>
    BY <1>4 DEF MaskWorker
  <2> QED BY <2>1, Stutter
<1>5. ASSUME Output PROVE R!Next
  BY <1>5, OutputStep DEF R!Next
<1>6. ASSUME Main0 PROVE [R!Next]_R!vars
  BY <1>3, <1>4, <1>5, <1>6 DEF Main0
<1> QED BY <1>1, <1>2, <1>6, WorkerRefines DEF Next, Step, Terminated

LEMMA InitRefines ==
    ASSUME Quiet, \A p \in Party : main[p] \in {"mask", "oprf"}
    PROVE  R!Init
PROOF
<1>1. /\ values = [p \in Party |-> [x \in PartySet[p] |-> {}]]
      /\ heard = [p \in Party |-> {}] /\ result = {}
  BY DEF Quiet
<1>2. Phase = [p \in Party |-> "start"]
  BY DEF Phase
<1>3. Published = [p \in Party |-> [x \in Element |-> {}]]
  BY DEF Published
<1> QED BY <1>1, <1>2, <1>3, SameRounds DEF R!Init, R!NoTable

LEMMA InitQuiet == Init => Quiet /\ \A p \in Party : main[p] \in {"mask", "oprf"}
BY DEF Init

(* Every interleaving of the threads and messages of mpsi.cpp is a         *)
(* behaviour of Rounds.                                                    *)
THEOREM ImplementsRounds == Spec => RefinesRounds
PROOF
<1>1. Init => R!Init
  BY InitQuiet, InitRefines
<1>2. Inv /\ MasksFirst /\ [Next]_vars => [R!Next]_R!vars
  BY StepRefines
<1> QED BY <1>1, <1>2, ProtocolInductive, PTL DEF Spec, RefinesRounds

(* The invariant of Rounds, carried over.                                  *)
LEMMA RoundsInit == R!Init => RP!IInv
PROOF
<1> USE NAssumption, TAssumption, TopologyAssumption, MaskPeersAssumption, PartySetAssumption
    DEF RP!Party, Party, RP!Middle, Middle
<1>1. RP!Init => RP!IInv
  BY RP!InitIInv
<1> QED BY <1>1, SameSpec

LEMMA RoundsNext == RP!IInv /\ [R!Next]_R!vars => RP!IInv'
PROOF
<1> USE NAssumption, TAssumption, TopologyAssumption, MaskPeersAssumption, PartySetAssumption
    DEF RP!Party, Party, RP!Middle, Middle
<1>1. RP!IInv /\ [RP!Next]_RP!vars => RP!IInv'
  BY RP!NextIInv
<1> QED BY <1>1, SameSpec

AnswerInv == Inv /\ MasksFirst /\ RP!IInv

LEMMA InitAnswer == Init => AnswerInv
BY InitInv, InitQuiet, InitRefines, RoundsInit DEF AnswerInv

LEMMA NextAnswer == AnswerInv /\ [Next]_vars => AnswerInv'
BY NextInv, StepRefines, RoundsNext DEF AnswerInv

LEMMA AnswerRight == RP!IInv => Correctness
BY DEF RP!IInv, RP!Correctness, RP!Intersection, RP!Party, Correctness, Party

LEMMA RoundsInductive == Spec => []RP!IInv
PROOF
<1>1. AnswerInv => RP!IInv
  BY DEF AnswerInv
<1> QED BY <1>1, InitAnswer, NextAnswer, PTL DEF Spec

(* Party 0 never reports anything but the intersection of all sets.        *)
THEOREM AnswerCorrect == Spec => []Correctness
BY RoundsInductive, AnswerRight, PTL
-----------------------------------------------------------------------------
(* What the workers leave in the arrays of OPRF values: pads, or nothing.  *)
OprfTyped ==
    /\ senderOprf \in [Party -> [Party -> SUBSET Pad]]
    /\ receiverOprf \in [Party -> [Party -> SUBSET Pad]]

LEMMA WorkerTyped ==
    ASSUME Inv, OprfTyped, NEW p \in Party, NEW q \in Party, Worker(p, q)
    PROVE  OprfTyped'
PROOF
<1>1. CASE UNCHANGED <<senderOprf, receiverOprf>>
  BY <1>1 DEF OprfTyped
<1>2. ASSUME NEW s \in Party, NEW r \in Party PROVE {Oprf(s, r)} \in SUBSET Pad
  BY DEF Oprf, Pad
<1>3. ASSUME NEW s \in Party, NEW r \in Party, RcvSendAPrime(r, s) PROVE OprfTyped'
  <2> DEFINE k == worker[r][s].session
  <2>1. Session(s, r, k) /\ worker[r][s].at = "sendAPrime"
    BY <1>3, RunningSession DEF RcvSendAPrime, Steps
  <2>2. ReceiverSees(s, r, k, worker[s][r], worker[r][s], omega[s][r], omega[r][s],
                     senderOprf[s][r], receiverOprf[r][s])
    BY <2>1, SessionNow, SessionFacts, ReceiverAt
  <2>3. omega[r][s] = {Fresh(s, s, r), Fresh(r, s, r)}
    BY <2>1, <2>2 DEF ReceiverSees
  <2>4. receiverOprf' = [receiverOprf EXCEPT ![r][s] = {Oprf(s, r)}] /\ senderOprf' = senderOprf
    BY <1>3, <2>3 DEF RcvSendAPrime, OprfValue
  <2> QED BY <1>2, <2>4 DEF OprfTyped
<1>4. ASSUME NEW s \in Party, NEW r \in Party, SndRecvAPrime(s, r) PROVE OprfTyped'
  <2> DEFINE k == worker[s][r].session
  <2>1. Session(s, r, k) /\ worker[s][r].at = "recvAPrime"
    BY <1>4, RunningSession DEF SndRecvAPrime, Steps
  <2>2. SenderSees(s, r, k, worker[s][r], worker[r][s], omega[s][r], omega[r][s],
                   senderOprf[s][r], receiverOprf[r][s])
    BY <2>1, SessionNow, SessionFacts, SenderAt
  <2>3. omega[s][r] = {Fresh(s, s, r), Fresh(r, s, r)}
    BY <2>1, <2>2 DEF SenderSees
  <2>4. senderOprf' = [senderOprf EXCEPT ![s][r] = {Oprf(s, r)}] /\ receiverOprf' = receiverOprf
    BY <1>4, <2>3 DEF SndRecvAPrime, OprfValue
  <2> QED BY <1>2, <2>4 DEF OprfTyped
<1> QED BY <1>1, <1>3, <1>4 DEF Worker, InSession, OpenSession, RcvSendOmega, SndRecvOmega,
        SndSendOmega, RcvRecvOmega

LEMMA NextOprfTyped == Inv /\ OprfTyped /\ [Next]_vars => OprfTyped'
PROOF
<1> SUFFICES ASSUME Inv, OprfTyped, [Next]_vars PROVE OprfTyped'
  OBVIOUS
<1>1. CASE UNCHANGED <<senderOprf, receiverOprf>>
  BY <1>1 DEF OprfTyped
<1>2. ASSUME NEW p \in Party, Main(p) PROVE UNCHANGED <<senderOprf, receiverOprf>>
  BY <1>2 DEF Main, RecvMask, JoinWorkers, RecvTable, SendTable, threads
<1>3. ASSUME Main0 PROVE UNCHANGED <<senderOprf, receiverOprf>>
  BY <1>3 DEF Main0, MaskWorker, JoinMasks, Output, threads
<1>4. ASSUME UNCHANGED vars PROVE UNCHANGED <<senderOprf, receiverOprf>>
  BY <1>4 DEF vars, threads
<1> QED BY <1>1, <1>2, <1>3, <1>4, WorkerTyped DEF Next, Step, Terminated

LEMMA AllTyped == Inv /\ OprfTyped /\ RP!IInv => TypeOK
PROOF
<1> SUFFICES ASSUME Inv, OprfTyped, RP!IInv PROVE TypeOK
  OBVIOUS
<1>1. /\ \A p \in Party : values[p] \in [PartySet[p] -> SUBSET Token]
      /\ result \subseteq SUBSET Element
  BY DEF RP!IInv, RP!TypeOK, RP!Party, Party, RP!Token, Token, RP!Pad, Pad
<1>2. \A p \in Party : mask[p] \subseteq Pad
  <2>1. \A p \in Party : MaskTerms(p) \subseteq Pad
    BY MaskFacts DEF MaskTerms, Mask, Pad
  <2> QED BY <2>1, MaskFacts DEF Inv, MaskInv
<1> QED BY <1>1, <1>2 DEF Inv, Types, LengthInv, OprfTyped, TypeOK

(* The buffers of the sockets stay within their bound, a worker runs at    *)
(* most two sessions and every value a party holds is made of pads and of  *)
(* table garbage.                                                          *)
THEOREM TypesCorrect == Spec => []TypeOK
PROOF
<1>1. Init => OprfTyped
  BY DEF Init, Quiet, OprfTyped
<1>2. Inv /\ OprfTyped /\ [Next]_vars => OprfTyped'
  BY NextOprfTyped
<1>3. Inv /\ OprfTyped /\ RP!IInv => TypeOK
  BY AllTyped
<1> QED BY <1>1, <1>2, <1>3, ProtocolInductive, RoundsInductive, PTL DEF Spec
-----------------------------------------------------------------------------
(* The two workers of a pair: both are about to open the same session, are *)
(* in it or are done, except that the receiver may leave while its sender  *)
(* waits for A'.                                                           *)
Between == {"sendOmega", "recvOmega", "sendAPrime", "recvAPrime"}

Pace(w, v) ==
    \/ /\ w.session = v.session
       /\ \/ w.at \in {"none", "open"} /\ v.at \in {"none", "open"}
          \/ w.at \in Between /\ v.at \in Between
          \/ w.at = "recvAPrime" /\ v.at = "done"
          \/ w.at = "done" /\ v.at = "recvAPrime"
          \/ w.at = "done" /\ v.at = "done"
    \/ v.session = w.session + 1 /\ w.at = "recvAPrime" /\ v.at = "open"
    \/ w.session = v.session + 1 /\ v.at = "recvAPrime" /\ w.at = "open"

LEMMA PaceSame ==
    ASSUME Inv, NEW s \in Party, NEW r \in Party, NEW k, Session(s, r, k),
           worker[s][r].session = k, worker[r][s].session = k
    PROVE  Pace(worker[s][r], worker[r][s])
PROOF
<1>1. k \in 1..2
  BY SessionFacts
<1>2. SessionAt(s, r, k, worker[s][r], worker[r][s], omega[s][r], omega[r][s],
                senderOprf[s][r], receiverOprf[r][s])
  BY SessionNow
<1> QED BY <1>1, <1>2 DEF SessionAt, Before, In, Past, Pace, Between

LEMMA PaceBehind ==
    ASSUME Inv, NEW p \in Party, NEW q \in Party, Roles(p, q) # <<>>,
           worker[p][q].session < worker[q][p].session
    PROVE  Pace(worker[p][q], worker[q][p])
PROOF
<1> DEFINE w == worker[p][q]
           v == worker[q][p]
<1>1. /\ Len(Roles(p, q)) \in 1..2 /\ Len(Roles(q, p)) = Len(Roles(p, q)) /\ Roles(q, p) # <<>>
      /\ \A k \in 1..Len(Roles(p, q)) : Session(p, q, k) \/ Session(q, p, k)
  BY RolesFacts DEF Session
<1>2. WorkerAt(p, q, main[p], w) /\ WorkerAt(q, p, main[q], v)
  BY DEF Inv, WorkerInv
<1>3. w.session \in 1..Len(Roles(p, q)) /\ v.session \in 1..Len(Roles(p, q))
  BY <1>1, <1>2 DEF WorkerAt
<1> DEFINE n == Len(Roles(p, q))
<1>4. w.session = 1 /\ v.session = 2 /\ n = 2
  <2>1. n \in 1..2 /\ w.session \in 1..n /\ v.session \in 1..n /\ w.session < v.session
    BY <1>1, <1>3
  <2> HIDE DEF n, w, v
  <2> QED BY <2>1
<1>5. w.at # "done" /\ v.at \notin {"none", "seed"}
  BY <1>1, <1>2, <1>4 DEF WorkerAt
<1>6. Session(p, q, 1) \/ Session(q, p, 1)
  BY <1>1, <1>4
<1>7. CASE Session(q, p, 1)
  <2>1. SessionAt(q, p, 1, v, w, omega[q][p], omega[p][q], senderOprf[q][p], receiverOprf[p][q])
    BY <1>7, SessionNow
  <2> QED BY <1>4, <1>5, <2>1 DEF SessionAt, Before, In, Past
<1>8. CASE Session(p, q, 1)
  <2>1. SessionAt(p, q, 1, w, v, omega[p][q], omega[q][p], senderOprf[p][q], receiverOprf[q][p])
    BY <1>8, SessionNow
  <2>2. w.at = "recvAPrime"
    BY <1>4, <1>5, <2>1 DEF SessionAt, Before, In, Past
  <2>3. v.at \in {"open", "done"}
    BY <1>4, <1>5, <1>8, NotAhead DEF Past
  <2>4. Session(q, p, 2)
    BY <1>1, <1>4, <1>8, SessionFacts DEF Session
  <2>5. SessionAt(q, p, 2, v, w, omega[q][p], omega[p][q], senderOprf[q][p], receiverOprf[p][q])
    BY <2>4, SessionNow
  <2>6. v.at # "done"
    BY <1>4, <1>5, <2>5 DEF SessionAt, Before, In, Past
  <2> QED BY <1>4, <2>2, <2>3, <2>6 DEF Pace
<1> QED BY <1>6, <1>7, <1>8

LEMMA Abreast ==
    ASSUME Inv, NEW p \in Party, NEW q \in Party, Roles(p, q) # <<>>
    PROVE  Pace(worker[p][q], worker[q][p])
PROOF
<1> DEFINE w == worker[p][q]
           v == worker[q][p]
<1>1. /\ Len(Roles(p, q)) \in 1..2 /\ Len(Roles(q, p)) = Len(Roles(p, q)) /\ Roles(q, p) # <<>>
      /\ \A k \in 1..Len(Roles(p, q)) : Session(p, q, k) \/ Session(q, p, k)
  BY RolesFacts DEF Session
<1>2. /\ WorkerAt(p, q, main[p], w)
      /\ w.session \in {1, 2} /\ v.session \in {1, 2}
  BY DEF Inv, WorkerInv, Types
<1>3. CASE w.session < v.session
  BY <1>3, PaceBehind
<1>4. CASE v.session < w.session
  <2>1. Pace(v, w)
    BY <1>1, <1>4, PaceBehind
  <2> QED BY <2>1 DEF Pace
<1>5. CASE w.session = v.session
  <2>1. w.session \in 1..Len(Roles(p, q))
    BY <1>2 DEF WorkerAt
  <2>2. CASE Session(p, q, w.session)
    BY <1>5, <2>2, PaceSame
  <2>3. CASE Session(q, p, w.session)
    <3>1. Pace(v, w)
      BY <1>5, <2>3, PaceSame
    <3> QED BY <3>1 DEF Pace
  <2> QED BY <1>1, <2>1, <2>2, <2>3
<1> QED BY <1>2, <1>3, <1>4, <1>5

(* Nothing comes from the peer of a worker that is about to open a session. *)
LEMMA OpenQuiet ==
    ASSUME Inv, NEW p \in Party, NEW q \in Party, worker[p][q].at = "open"
    PROVE  chan[q][p] = <<>>
PROOF
<1>1. Roles(p, q) # <<>> /\ Roles(q, p) # <<>>
  BY NoTalk, RolesFacts
<1>2. Pace(worker[p][q], worker[q][p])
  BY <1>1, Abreast
<1>3. worker[q][p].at # "done"
  BY <1>2 DEF Pace, Between
<1>4. Talk(q, p, worker[q][p], worker[p][q]) = <<>>
  BY DEF Talk
<1> QED BY <1>1, <1>3, <1>4, LineNow DEF Line

(* Until the receiver of a session has sent its omega, the sender waits    *)
(* for it and nothing is on the way.                                       *)
LEMMA StartQuiet ==
    ASSUME Inv, NEW s \in Party, NEW r \in Party, Running(r, s, "rcv", "sendOmega")
    PROVE  worker[s][r].at = "recvOmega" /\ chan[s][r] = <<>> /\ chan[r][s] = <<>>
PROOF
<1> DEFINE k == worker[r][s].session
<1>1. Session(s, r, k) /\ worker[r][s].at = "sendOmega"
  BY RunningSession DEF Steps
<1>2. ReceiverSees(s, r, k, worker[s][r], worker[r][s], omega[s][r], omega[r][s],
                   senderOprf[s][r], receiverOprf[r][s])
  BY <1>1, SessionNow, SessionFacts, ReceiverAt
<1>3. worker[s][r].at = "recvOmega"
  BY <1>1, <1>2 DEF ReceiverSees
<1>4. Roles(s, r) # <<>> /\ Roles(r, s) # <<>>
  BY <1>1, SessionFacts
<1>5. /\ Talk(s, r, worker[s][r], worker[r][s]) = <<>>
      /\ Talk(r, s, worker[r][s], worker[s][r]) = <<>>
  BY <1>1, <1>3 DEF Talk
<1> QED BY <1>1, <1>3, <1>4, <1>5, LineNow DEF Line

(* A line is a sequence of at most two messages.                           *)
LEMMA ShortLine ==
    ASSUME NEW u, NEW t
    PROVE  /\ <<>> \in Seq({t}) /\ Append(<<>>, t) \in Seq({t})
           /\ <<u>> \in Seq({u, t}) /\ Append(<<u>>, t) \in Seq({u, t})
OBVIOUS

LEMMA LineKinds ==
    ASSUME Inv, NEW p \in Party, NEW q \in Party
    PROVE  \E S : /\ chan[p][q] \in Seq(S)
                  /\ \A m \in S : m.kind \in {"seed", "omega", "aprime", "table"}
PROOF
<1> DEFINE c == chan[p][q]
           mail == Mail(p, q, worker[p][q], worker[q][p], main)
           t == Msg("table", Encode(p, values[p]))
<1>1. c = mail \/ c = Append(mail, t)
  BY DEF Inv, LineInv, Line
<1>2. mail = <<>> \/ \E b : \E k \in {"seed", "omega", "aprime"} : mail = <<Msg(k, b)>>
  BY DEF Mail, Talk
<1>3. \A k, b : Msg(k, b).kind = k
  BY DEF Msg
<1>4. CASE mail = <<>>
  <2> DEFINE S == {t}
  <2>1. c \in Seq(S)
    BY <1>1, <1>4, ShortLine
  <2>2. \A m \in S : m.kind = "table"
    BY <1>3
  <2> QED BY <2>1, <2>2
<1>5. ASSUME NEW b, NEW k \in {"seed", "omega", "aprime"}, mail = <<Msg(k, b)>>
      PROVE  \E S : c \in Seq(S) /\ \A m \in S : m.kind \in {"seed", "omega", "aprime", "table"}
  <2> DEFINE u == Msg(k, b)
             S == {u, t}
  <2>1. c \in Seq(S)
    BY <1>1, <1>5, ShortLine
  <2>2. \A m \in S : m.kind \in {"seed", "omega", "aprime", "table"}
    BY <1>3
  <2> QED BY <2>1, <2>2
<1> QED BY <1>2, <1>4, <1>5

(* A sender that is one session behind has its A' on the way.              *)
LEMMA LateAPrime ==
    ASSUME Inv, NEW p \in Party, NEW q \in Party,
           worker[p][q].at = "recvAPrime", worker[q][p].at = "open"
    PROVE  chan[q][p] # <<>>
PROOF
<1> DEFINE mail == Mail(q, p, worker[q][p], worker[p][q], main)
           u == Msg("aprime", {<<p, q>>})
           t == Msg("table", Encode(q, values[q]))
<1>1. chan[q][p] = mail \/ chan[q][p] = Append(mail, t)
  BY DEF Inv, LineInv, Line
<1>2. mail = <<u>>
  BY DEF Mail, Seeded, Talk
<1> HIDE DEF mail, u, t
<1>3. <<u>> # <<>> /\ Append(<<u>>, t) # <<>>
  OBVIOUS
<1> QED BY <1>1, <1>2, <1>3
=============================================================================
