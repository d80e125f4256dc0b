----------------------------- MODULE WireProofs -----------------------------
(***************************************************************************)
(* Proofs about Wire, for any number of parties the port scheme has room   *)
(* for (PortAssumption): the connection setup pairs the sockets, the       *)
(* handshakes bring the two ends of a session together, nobody reads a     *)
(* message that is not for it, and the whole implements Mpsi.              *)
(*                                                                         *)
(* The state of a pair is <<x, y>>, the operations of the handshake that   *)
(* one worker and its peer have done; Places lists the pairs a worker can  *)
(* be in.  What is unread in a socket follows from the pair and from what  *)
(* Mpsi has sent (LinesInv), so every lemma about a byte is a lemma about  *)
(* a finite table of places.                                               *)
(***************************************************************************)
EXTENDS Wire, SequenceTheorems, FiniteSetTheorems, TLAPS

(* The types of the connection variables, and what a port that is open and *)
(* a call that was taken say about the loop counter of the server.         *)
LinkTypes ==
    /\ dial \in [Party -> 0..N]
    /\ port \in [Party -> Nat]
    /\ caller \in [Party -> Party \cup {Nobody}]
    /\ chls \in [Party -> [Party -> Party \cup {Nobody}]]

Listening ==
    \A p \in Party : port[p] # 0 =>
        dial[p] \in (p+1)..(N-1) /\ port[p] = Port(p, dial[p])

Answered ==
    \A p \in Party : caller[p] # Nobody => port[p] # 0 /\ caller[p] = dial[p]

LinkInv == LinkTypes /\ Listening /\ Answered /\ Paired
-----------------------------------------------------------------------------
(* The ports of the pairs of a higher index are above all the ports of the *)
(* pairs of a lower one.                                                   *)
LEMMA PortsOrdered ==
    ASSUME NEW a \in Nat, NEW b \in 1..PortStep, NEW c \in Nat, NEW d \in Nat,
           a < b, b < d, c < d
    PROVE  PortBase + PortStep * b + a < PortBase + PortStep * d + c
PROOF
<1>1. PortBase \in Nat /\ PortStep \in Nat
  BY PortAssumption
<1>2. d = b + 1 + (d - b - 1) /\ d - b - 1 \in Nat /\ b \in Nat
  OBVIOUS
<1>3. PortStep * d = PortStep * b + PortStep + PortStep * (d - b - 1)
  BY <1>1, <1>2
<1>4. PortStep * (d - b - 1) \in Nat /\ PortStep * b \in Nat
  BY <1>1, <1>2
<1> QED BY <1>1, <1>3, <1>4

(* No two pairs use the same port.                                         *)
LEMMA PortsDiffer ==
    ASSUME NEW p \in Party, NEW i \in Party, NEW q \in Party, NEW j \in Party,
           i < p, q < j, Port(p, i) = Port(q, j)
    PROVE  i = q /\ p = j
PROOF
<1>1. N \in Nat /\ PortBase \in Nat /\ PortStep \in Nat /\ N <= PortStep + 2
  BY NAssumption, PortAssumption
<1>2. p \in Nat /\ i \in Nat /\ q \in Nat /\ j \in Nat /\ p \in 1..(PortStep+1) /\ j \in 1..(PortStep+1)
  BY <1>1 DEF Party
<1>3. PortBase + PortStep * p + i = PortBase + PortStep * j + q
  BY <1>2 DEF Port
<1>4. PortStep * p \in Nat /\ PortStep * j \in Nat
  BY <1>1, <1>2
<1>5. ASSUME p < j PROVE FALSE
  <2>1. PortBase + PortStep * p + i < PortBase + PortStep * j + q
    BY <1>1, <1>2, <1>5, PortsOrdered
  <2> QED BY <1>1, <1>2, <1>3, <1>4, <2>1
<1>6. ASSUME j < p PROVE FALSE
  <2>1. PortBase + PortStep * j + q < PortBase + PortStep * p + i
    BY <1>1, <1>2, <1>6, PortsOrdered
  <2> QED BY <1>1, <1>2, <1>3, <1>4, <2>1
<1>7. p = j
  BY <1>2, <1>5, <1>6
<1> QED BY <1>1, <1>2, <1>3, <1>4, <1>7

(* A port is never 0, the value that stands for not listening.             *)
LEMMA PortType ==
    ASSUME NEW p \in Party, NEW i \in Party
    PROVE  Port(p, i) \in Nat \ {0}
PROOF
<1>1. PortBase \in Nat \ {0} /\ PortStep \in Nat /\ p \in Nat /\ i \in Nat
  BY NAssumption, PortAssumption DEF Party
<1>2. PortStep * p \in Nat /\ PortStep * i \in Nat
  BY <1>1
<1> QED BY <1>1, <1>2 DEF Port

(* The loop counter stays within its range.                                *)
LEMMA AfterType ==
    ASSUME NEW p \in Party, NEW i \in -1..(N-1), i # p
    PROVE  After1(p, i) \in 0..N
BY NAssumption DEF After1, Party
-----------------------------------------------------------------------------
LEMMA InitLinks == ConnectInit => LinkInv
PROOF
<1> SUFFICES ASSUME ConnectInit PROVE LinkInv
  OBVIOUS
<1>1. \A p \in Party : After1(p, -1) \in 0..N
  BY AfterType, NAssumption DEF Party
<1> QED BY <1>1 DEF ConnectInit, LinkInv, LinkTypes, Listening, Answered, Paired, Nobody

LEMMA ListenLinks ==
    ASSUME LinkInv, NEW p \in Party, Listen(p)
    PROVE  LinkInv'
PROOF
<1> USE DEF Listen, LinkInv
<1>1. dial[p] \in Party /\ Port(p, dial[p]) \in Nat \ {0}
  BY PortType, NAssumption DEF Party
<1>2. LinkTypes'
  BY <1>1 DEF LinkTypes
<1>3. Listening'
  BY <1>1 DEF LinkTypes, Listening, Port
<1>4. Answered'
  BY <1>1 DEF LinkTypes, Answered
<1> QED BY <1>2, <1>3, <1>4 DEF Paired

(* The port says who listens: the server waits for this very caller.       *)
LEMMA CallLinks ==
    ASSUME LinkInv, NEW p \in Party, NEW q \in Party, Call(p, q)
    PROVE  LinkInv'
PROOF
<1> USE DEF Call, LinkInv
<1>1. dial[p] \in Party /\ p \in Nat
  BY NAssumption DEF LinkTypes, Party
<1>2. port[q] # 0
  BY <1>1, PortType
<1>3. dial[q] \in (q+1)..(N-1) /\ port[q] = Port(q, dial[q]) /\ dial[q] \in Party /\ q < dial[q]
  BY <1>2, NAssumption DEF Listening, Party
<1>4. dial[p] = q /\ p = dial[q]
  BY <1>1, <1>3, PortsDiffer
<1>5. After1(p, dial[p]) \in 0..N
  BY <1>1, <1>4, AfterType, NAssumption DEF Party
<1>6. LinkTypes'
  BY <1>1, <1>5 DEF LinkTypes
<1>7. port[p] = 0
  BY <1>1 DEF Listening, LinkTypes, Party
<1>8. p # q
  BY <1>1, <1>4
<1>9. Listening'
  BY <1>7, <1>8 DEF LinkTypes, Listening, Port
<1>10. Answered'
  BY <1>2, <1>4, <1>7, <1>8 DEF LinkTypes, Answered
<1>11. Paired'
  BY <1>1, <1>4 DEF LinkTypes, Paired
<1> QED BY <1>6, <1>9, <1>10, <1>11

LEMMA AcceptLinks ==
    ASSUME LinkInv, NEW p \in Party, Accept(p)
    PROVE  LinkInv'
PROOF
<1> USE DEF Accept, LinkInv
<1>1. port[p] # 0 /\ caller[p] = dial[p] /\ dial[p] \in (p+1)..(N-1)
  BY DEF Answered, Listening
<1>2. dial[p] \in Party /\ After1(p, dial[p]) \in 0..N
  BY <1>1, AfterType, NAssumption DEF Party
<1>3. LinkTypes'
  BY <1>2 DEF LinkTypes, Nobody
<1>4. Listening'
  BY DEF LinkTypes, Listening, Port
<1>5. Answered'
  BY DEF LinkTypes, Answered
<1>6. Paired'
  BY <1>1, <1>2 DEF LinkTypes, Paired
<1> QED BY <1>3, <1>4, <1>5, <1>6

(* Whatever else the processes do, they leave the sockets alone.           *)
LEMMA NextLinks == LinkInv /\ [WireNext]_wireVars => LinkInv'
PROOF
<1> SUFFICES ASSUME LinkInv, [WireNext]_wireVars PROVE LinkInv'
  OBVIOUS
<1>1. CASE UNCHANGED links
  BY <1>1 DEF links, LinkInv, LinkTypes, Listening, Answered, Paired
<1>2. CASE \E p \in Party : ConnectStep(p)
  BY <1>2, ListenLinks, CallLinks, AcceptLinks DEF ConnectStep
<1>3. UNCHANGED links \/ \E p \in Party : ConnectStep(p)
  BY DEF WireNext, WireStep, Connecting, Handshaking, Working, wireVars
<1> QED BY <1>1, <1>2, <1>3

(* Every socket leads to the party it is kept for, for any number of       *)
(* parties whose pairs have ports of their own.                            *)
THEOREM SocketsPaired == WireSpec => []Paired
PROOF
<1>1. WireInit => LinkInv
  BY InitLinks DEF WireInit
<1>2. LinkInv => Paired
  BY DEF LinkInv
<1> QED BY <1>1, <1>2, NextLinks, PTL DEF WireSpec
-----------------------------------------------------------------------------
MP == INSTANCE MpsiProofs WITH worker <- JointWorker, omega <- JointOmega, chan <- JointChan

(* What a worker has done of the handshakes and VOLEs of its sessions, six *)
(* operations in each, and how far it is in the present one.  The worker   *)
(* of a mask has none of them before it.                                   *)
Count(p, q) ==
    6 * (worker[p][q].session - 1)
      + IF worker[p][q].at = "none" THEN 0
        ELSE IF worker[p][q].at = "open" THEN prelude[p][q] ELSE 6

PeerPlace(p, q) == Count(q, p) - 6 * (worker[p][q].session - 1)

Place(p, q) == IF worker[p][q].at = "open" THEN prelude[p][q] ELSE 0

(* The places <<x, y>> of a worker in the handshake or the VOLE and of its *)
(* peer in the same session, 0 before it and 6 after it, if it is (up) or  *)
(* is not the one with the lower index and has this role.                  *)
Places(up, role) ==
    CASE up /\ role = "rcv" ->
           {<<0, 0>>, <<1, 0>>, <<1, 1>>, <<1, 2>>, <<2, 2>>, <<3, 2>>, <<3, 3>>,
            <<3, 4>>, <<4, 4>>, <<5, 4>>, <<5, 5>>, <<5, 6>>}
      [] up /\ role = "snd" ->
           {<<0, 0>>, <<1, 0>>, <<1, 1>>, <<1, 2>>, <<2, 2>>, <<3, 2>>, <<3, 3>>,
            <<3, 4>>, <<3, 5>>, <<4, 4>>, <<4, 5>>, <<5, 5>>}
      [] ~up /\ role = "rcv" ->
           {<<0, 0>>, <<0, 1>>, <<1, 1>>, <<2, 1>>, <<2, 2>>, <<2, 3>>, <<3, 3>>,
            <<4, 3>>, <<5, 3>>, <<4, 4>>, <<5, 4>>, <<5, 5>>, <<5, 6>>}
      [] OTHER ->
           {<<0, 0>>, <<0, 1>>, <<1, 1>>, <<2, 1>>, <<2, 2>>, <<2, 3>>, <<3, 3>>,
            <<4, 3>>, <<4, 4>>, <<4, 5>>, <<5, 5>>}

Byte(k) == [kind |-> k, body |-> {}]
KindAt(x) == IF x < 4 THEN "sync" ELSE "vole"

(* What a worker d operations ahead of its peer has sent and the peer, at  *)
(* place y, has not read.                                                  *)
Unread(d, y) ==
    IF d = 1 THEN <<Byte(KindAt(y))>>
    ELSE IF d = 2 THEN <<Byte("sync"), Byte("vole")>> ELSE <<>>

Hello(p, q) == Unread(Count(p, q) - Count(q, p), Place(q, p))

WireTypes ==
    /\ worker \in [Party -> [Party -> [session : {1, 2}, at : Steps]]]
    /\ prelude \in [Party -> [Party -> 0..5]]
    /\ MP!Matrix(omega) /\ MP!Matrix(chan)

LinesInv == \A p, q \in Party : chan[p][q] = JointChan[p][q] \o Hello(p, q)

Met(p, q) ==
    worker[p][q].at = "open" =>
        <<prelude[p][q], PeerPlace(p, q)>> \in Places(q > p, Role(p, q))

MeetInv == \A p, q \in Party : Met(p, q)

RestInv == \A p, q \in Party : worker[p][q].at # "open" => prelude[p][q] = 0

WireInv == WireTypes /\ MP!Inv /\ MP!MasksFirst /\ LinesInv /\ MeetInv /\ RestInv
-----------------------------------------------------------------------------
(* The instance of MpsiProofs is about the same parties and sessions.      *)
LEMMA SameParties ==
    /\ MP!Party = Party
    /\ \A p, q : MP!Roles(p, q) = Roles(p, q)
    /\ MP!Steps = Steps
BY DEF MP!Party, Party, MP!Roles, Roles, MP!LastT, LastT, MP!Steps, Steps

LEMMA SameOperators ==
    /\ \A p, s, r : MP!Fresh(p, s, r) = Fresh(p, s, r)
    /\ \A p : MP!NextHop(p) = NextHop(p) /\ MP!Preds(p) = Preds(p)
    /\ \A p, v : MP!Encode(p, v) = Encode(p, v)
    /\ \A a, b : MP!Xor(a, b) = Xor(a, b) /\ MP!Mask(a, b) = Mask(a, b)
    /\ \A s, r, b : MP!OprfValue(s, r, b) = OprfValue(s, r, b)
    /\ \A p : MP!ReceiverTerms(p) = ReceiverTerms(p) /\ MP!SenderTerms(p) = SenderTerms(p)
    /\ \A p : MP!Masked(p) <=> Masked(p)
    /\ \A I, f : MP!XorOver(I, f) = XorOver(I, f)
    /\ MP!Unborn = Unborn
PROOF
<1>1. \A p, s, r : MP!Fresh(p, s, r) = Fresh(p, s, r)
  BY DEF MP!Fresh, Fresh
<1>2. \A p : MP!NextHop(p) = NextHop(p) /\ MP!Preds(p) = Preds(p)
  BY DEF MP!NextHop, NextHop, MP!Preds, Preds
<1>3. \A p, v : MP!Encode(p, v) = Encode(p, v)
  BY DEF MP!Encode, Encode, MP!Junk, Junk
<1>4. \A a, b : MP!Xor(a, b) = Xor(a, b) /\ MP!Mask(a, b) = Mask(a, b)
  BY DEF MP!Xor, Xor, MP!Mask, Mask
<1>5. \A s, r, b : MP!OprfValue(s, r, b) = OprfValue(s, r, b)
  BY DEF MP!OprfValue, OprfValue, MP!Oprf, Oprf, MP!Fresh, Fresh
<1>6. \A p : MP!ReceiverTerms(p) = ReceiverTerms(p) /\ MP!SenderTerms(p) = SenderTerms(p)
  BY DEF MP!ReceiverTerms, ReceiverTerms, MP!SenderTerms, SenderTerms, MP!LastT, LastT, MP!Middle, Middle
<1>7. \A p : MP!Masked(p) <=> Masked(p)
  BY DEF MP!Masked, Masked, MP!MaskTerms, MaskTerms, MP!Mask, Mask
<1>8. \A I, f : MP!XorOver(I, f) = XorOver(I, f)
  BY DEF MP!XorOver, XorOver, MP!Cardinality, Cardinality
<1>9. MP!Unborn = Unborn
  BY DEF MP!Unborn, Unborn
<1> QED BY <1>1, <1>2, <1>3, <1>4, <1>5, <1>6, <1>7, <1>8, <1>9

(* The two instances of Mpsi are the same specification.                   *)
LEMMA SameConstants ==
    /\ \A p, q : MP!Roles(p, q) = M!Roles(p, q)
    /\ MP!Party = M!Party
    /\ \A p, s, r : MP!Fresh(p, s, r) = M!Fresh(p, s, r)
    /\ \A p : MP!NextHop(p) = M!NextHop(p) /\ MP!Preds(p) = M!Preds(p)
    /\ \A p, v : MP!Encode(p, v) = M!Encode(p, v)
    /\ \A a, b : MP!Xor(a, b) = M!Xor(a, b) /\ MP!Mask(a, b) = M!Mask(a, b)
    /\ \A s, r, b : MP!OprfValue(s, r, b) = M!OprfValue(s, r, b)
    /\ \A p : MP!ReceiverTerms(p) = M!ReceiverTerms(p) /\ MP!SenderTerms(p) = M!SenderTerms(p)
    /\ \A p : MP!Masked(p) <=> M!Masked(p)
    /\ \A I, f : MP!XorOver(I, f) = M!XorOver(I, f)
    /\ MP!Unborn = M!Unborn
PROOF
<1>1. \A p, s, r : MP!Fresh(p, s, r) = M!Fresh(p, s, r)
  BY DEF MP!Fresh, M!Fresh
<1>2. \A p : MP!NextHop(p) = M!NextHop(p) /\ MP!Preds(p) = M!Preds(p)
  BY DEF MP!NextHop, M!NextHop, MP!Preds, M!Preds
<1>3. \A p, v : MP!Encode(p, v) = M!Encode(p, v)
  BY DEF MP!Encode, M!Encode, MP!Junk, M!Junk
<1>4. \A a, b : MP!Xor(a, b) = M!Xor(a, b) /\ MP!Mask(a, b) = M!Mask(a, b)
  BY DEF MP!Xor, M!Xor, MP!Mask, M!Mask
<1>5. \A s, r, b : MP!OprfValue(s, r, b) = M!OprfValue(s, r, b)
  BY DEF MP!OprfValue, M!OprfValue, MP!Oprf, M!Oprf, MP!Fresh, M!Fresh
<1>6. \A p : MP!ReceiverTerms(p) = M!ReceiverTerms(p) /\ MP!SenderTerms(p) = M!SenderTerms(p)
  BY DEF MP!ReceiverTerms, M!ReceiverTerms, MP!SenderTerms, M!SenderTerms, MP!LastT, M!LastT, MP!Middle, M!Middle
<1>7. \A p : MP!Masked(p) <=> M!Masked(p)
  BY DEF MP!Masked, M!Masked, MP!MaskTerms, M!MaskTerms, MP!Mask, M!Mask
<1>8. \A I, f : MP!XorOver(I, f) = M!XorOver(I, f)
  BY DEF MP!XorOver, M!XorOver, MP!Cardinality, M!Cardinality
<1>9. MP!Unborn = M!Unborn
  BY DEF MP!Unborn, M!Unborn
<1>10. \A p, q : MP!Roles(p, q) = M!Roles(p, q)
  BY DEF MP!Roles, M!Roles, MP!LastT, M!LastT
<1>11. MP!Party = M!Party
  BY DEF MP!Party, M!Party
<1> QED BY <1>1, <1>2, <1>3, <1>4, <1>5, <1>6, <1>7, <1>8, <1>9, <1>10, <1>11

LEMMA SameMoves ==
    /\ \A p, q, k, b : MP!Send(p, q, k, b) <=> M!Send(p, q, k, b)
    /\ \A p, q, k : MP!Pending(p, q, k) <=> M!Pending(p, q, k)
    /\ \A p, q : MP!Received(p, q) = M!Received(p, q)
    /\ \A p, q : MP!Consume(p, q) <=> M!Consume(p, q)
    /\ \A p, w : MP!Spawned(p, w) = M!Spawned(p, w)
    /\ \A p, q, role, a : MP!Running(p, q, role, a) <=> M!Running(p, q, role, a)
    /\ \A p, q, a : MP!Goto(p, q, a) <=> M!Goto(p, q, a)
    /\ \A p, q : MP!Leave(p, q) <=> M!Leave(p, q)
BY SameConstants DEF MP!Send, M!Send, MP!Pending, M!Pending, MP!Received, M!Received,
       MP!Consume, M!Consume, MP!Spawned, M!Spawned, MP!Running, M!Running, MP!Goto, M!Goto,
       MP!Leave, M!Leave

LEMMA SameSteps ==
    /\ \A s, r : MP!OpenSession(s, r) <=> M!OpenSession(s, r)
    /\ \A p, q : MP!InSession(p, q) <=> M!InSession(p, q)
    /\ \A p : MP!Main(p) <=> M!Main(p)
    /\ MP!Main0 <=> M!Main0
PROOF
<1>1. \A s, r : MP!OpenSession(s, r) <=> M!OpenSession(s, r)
  BY SameConstants, SameMoves DEF MP!OpenSession, M!OpenSession
<1>2. \A r, s : MP!RcvSendOmega(r, s) <=> M!RcvSendOmega(r, s)
  BY SameConstants, SameMoves DEF MP!RcvSendOmega, M!RcvSendOmega
<1>3. \A s, r : MP!SndRecvOmega(s, r) <=> M!SndRecvOmega(s, r)
  BY SameConstants, SameMoves DEF MP!SndRecvOmega, M!SndRecvOmega
<1>4. \A s, r : MP!SndSendOmega(s, r) <=> M!SndSendOmega(s, r)
  BY SameConstants, SameMoves DEF MP!SndSendOmega, M!SndSendOmega
<1>5. \A r, s : MP!RcvRecvOmega(r, s) <=> M!RcvRecvOmega(r, s)
  BY SameConstants, SameMoves DEF MP!RcvRecvOmega, M!RcvRecvOmega
<1>6. \A r, s : MP!RcvSendAPrime(r, s) <=> M!RcvSendAPrime(r, s)
  BY SameConstants, SameMoves DEF MP!RcvSendAPrime, M!RcvSendAPrime
<1>7. \A s, r : MP!SndRecvAPrime(s, r) <=> M!SndRecvAPrime(s, r)
  BY SameConstants, SameMoves DEF MP!SndRecvAPrime, M!SndRecvAPrime
<1>8. \A p, q : MP!InSession(p, q) <=> M!InSession(p, q)
  BY <1>2, <1>3, <1>4, <1>5, <1>6, <1>7 DEF MP!InSession, M!InSession
<1>9. \A p : MP!RecvMask(p) <=> M!RecvMask(p)
  BY SameConstants, SameMoves DEF MP!RecvMask, M!RecvMask
<1>10. \A p : MP!JoinWorkers(p) <=> M!JoinWorkers(p)
  BY SameConstants, SameMoves DEF MP!JoinWorkers, M!JoinWorkers, MP!threads, M!threads
<1>11. \A p, q : MP!RecvTable(p, q) <=> M!RecvTable(p, q)
  BY SameConstants, SameMoves DEF MP!RecvTable, M!RecvTable, MP!threads, M!threads
<1>12. \A p : MP!SendTable(p) <=> M!SendTable(p)
  BY SameConstants, SameMoves DEF MP!SendTable, M!SendTable, MP!threads, M!threads
<1>13. \A p : MP!Main(p) <=> M!Main(p)
  BY <1>9, <1>10, <1>11, <1>12, SameConstants DEF MP!Main, M!Main
<1>14. \A i : MP!MaskWorker(i) <=> M!MaskWorker(i)
  BY SameConstants, SameMoves DEF MP!MaskWorker, M!MaskWorker
<1>15. MP!JoinMasks <=> M!JoinMasks
  BY SameConstants, SameMoves DEF MP!JoinMasks, M!JoinMasks
<1>16. MP!Output <=> M!Output
  BY SameConstants, SameMoves DEF MP!Output, M!Output, MP!threads, M!threads
<1>17. MP!Main0 <=> M!Main0
  BY <1>14, <1>15, <1>16 DEF MP!Main0, M!Main0
<1> QED BY <1>1, <1>8, <1>13, <1>17

LEMMA SameSpec ==
    /\ MP!Init => M!Init
    /\ [MP!Next]_MP!vars => [M!Next]_M!vars
PROOF
<1>1. MP!vars = M!vars
  BY DEF MP!vars, M!vars, MP!threads, M!threads
<1>2. MP!Quiet <=> M!Quiet
  BY SameConstants DEF MP!Quiet, M!Quiet
<1>3. MP!Idle = M!Idle
  BY SameConstants DEF MP!Idle, M!Idle
<1>4. MP!Init => M!Init
  BY <1>2, <1>3, SameConstants, SameMoves DEF MP!Init, M!Init
<1>5. \A p, q : MP!Worker(p, q) <=> M!Worker(p, q)
  BY SameSteps DEF MP!Worker, M!Worker
<1>6. \A p : MP!Step(p) <=> M!Step(p)
  BY <1>5, SameSteps, SameConstants DEF MP!Step, M!Step
<1>7. MP!vars' = M!vars'
  BY DEF MP!vars, M!vars, MP!threads, M!threads
<1>8. MP!Terminated <=> M!Terminated
  BY <1>1, <1>7, SameConstants DEF MP!Terminated, M!Terminated
<1>9. MP!Next <=> M!Next
  BY <1>6, <1>8, SameConstants DEF MP!Next, M!Next
<1> QED BY <1>1, <1>4, <1>7, <1>9
-----------------------------------------------------------------------------
(* The next operation of a worker at place x.                              *)
OpAt(up, role, x) ==
    IF x < 4 THEN IF up <=> x \in {0, 2} THEN "send" ELSE "recv"
             ELSE IF role = "rcv" <=> x = 4 THEN "send" ELSE "recv"

LEMMA NextOpAt ==
    ASSUME NEW p, NEW q, prelude[p][q] \in 0..5, Role(p, q) \in {"snd", "rcv"}
    PROVE  /\ NextOp(p, q) = OpAt(q > p, Role(p, q), prelude[p][q])
           /\ Len(Prelude(p, q)) = 6 /\ Len(SyncOps(p, q)) = 4
PROOF
<1> DEFINE s1 == SyncOps(p, q)
           s2 == VoleOps(Role(p, q))
<1>1. /\ s1 \in Seq({"send", "recv"}) /\ Len(s1) = 4
      /\ s2 \in Seq({"send", "recv"}) /\ Len(s2) = 2
  <2>1. \A a, b, c, d \in {"send", "recv"} :
          /\ <<a, b, c, d>> \in Seq({"send", "recv"}) /\ Len(<<a, b, c, d>>) = 4
          /\ <<a, b>> \in Seq({"send", "recv"}) /\ Len(<<a, b>>) = 2
    OBVIOUS
  <2> QED BY <2>1 DEF SyncOps, VoleOps
<1>2. \A i \in 1..4 : s1[i] = IF (q > p) <=> i \in {1, 3} THEN "send" ELSE "recv"
  BY DEF SyncOps
<1>3. \A i \in 1..2 : s2[i] = IF (Role(p, q) = "rcv") <=> i = 1 THEN "send" ELSE "recv"
  BY DEF VoleOps
<1> HIDE DEF s1, s2
<1> DEFINE u == s1 \o s2
<1>4. Len(u) = 6 /\ \A i \in 1..6 : u[i] = IF i <= 4 THEN s1[i] ELSE s2[i - 4]
  <2>1. /\ Len(u) = Len(s1) + Len(s2)
        /\ \A i \in 1..(Len(s1) + Len(s2)) : u[i] = IF i <= Len(s1) THEN s1[i] ELSE s2[i - Len(s1)]
    BY <1>1, ConcatProperties
  <2> HIDE DEF u
  <2> QED BY <1>1, <2>1
<1> HIDE DEF u
<1>5. ASSUME NEW z \in 0..5 PROVE u[z + 1] = OpAt(q > p, Role(p, q), z)
  <2>1. CASE z < 4
    <3>1. z + 1 \in 1..4 /\ (z \in {0, 2} <=> z + 1 \in {1, 3})
      BY <2>1
    <3>2. u[z + 1] = s1[z + 1]
      BY <1>4, <3>1
    <3> QED BY <1>2, <2>1, <3>1, <3>2 DEF OpAt
  <2>2. CASE ~(z < 4)
    <3>1. z \in 4..5 /\ z + 1 \in 5..6
      BY <2>2
    <3>2. u[z + 1] = s2[z - 3] /\ z - 3 \in 1..2 /\ (z - 3 = 1 <=> z = 4)
      BY <1>4, <3>1
    <3> QED BY <1>3, <2>2, <3>1, <3>2 DEF OpAt
  <2> QED BY <2>1, <2>2
<1> QED BY <1>1, <1>4, <1>5 DEF NextOp, Prelude, s1, s2, u

LEMMA ShortLines ==
    ASSUME NEW m, NEW u
    PROVE  Append(<<>>, m) = <<m>> /\ Append(<<m>>, u) = <<m, u>>
PROOF
<1> DEFINE s == Append(<<m>>, u)
           t == <<m, u>>
<1>1. /\ <<m>> \in Seq({m, u}) /\ u \in {m, u}
      /\ t \in Seq({m, u}) /\ Len(t) = 2 /\ t[1] = m /\ t[2] = u
  OBVIOUS
<1>2. s \in Seq({m, u}) /\ Len(s) = 2 /\ s[1] = m /\ s[2] = u
  BY <1>1, AppendProperties
<1> HIDE DEF s, t
<1>3. s = t
  BY <1>1, <1>2, SeqEqual
<1> QED BY <1>3 DEF s, t

Other(role) == IF role = "rcv" THEN "snd" ELSE "rcv"

(* Who sends has read everything, and its peer reads next.                 *)
LEMMA SendPlace ==
    ASSUME NEW up \in BOOLEAN, NEW role \in {"snd", "rcv"}, NEW x \in 0..5, NEW y \in 0..6,
           <<x, y>> \in Places(up, role), OpAt(up, role, x) = "send"
    PROVE  /\ y \in 0..5 /\ x - y \in 0..1
           /\ Unread(x + 1 - y, y) = Append(Unread(x - y, y), Byte(KindAt(x)))
           /\ x < 5 => <<x + 1, y>> \in Places(up, role)
           /\ <<y, x + 1>> \in Places(~up, Other(role))
           /\ x = 5 => role = "snd" /\ y = 5
PROOF
<1>1. <<x, y>> \in {<<0, 0>>, <<1, 1>>, <<2, 2>>, <<3, 3>>, <<4, 4>>, <<5, 5>>, <<4, 3>>}
  BY DEF Places, OpAt
<1>2. Unread(x + 1 - y, y) = Append(Unread(x - y, y), Byte(KindAt(x)))
  <2>1. CASE x = y
    <3>1. Unread(x - y, y) = <<>> /\ Unread(x + 1 - y, y) = <<Byte(KindAt(x))>>
      BY <2>1 DEF Unread
    <3> QED BY <3>1, ShortLines
  <2>2. CASE x = 4 /\ y = 3
    <3>1. /\ Unread(x - y, y) = <<Byte("sync")>> /\ Unread(x + 1 - y, y) = <<Byte("sync"), Byte("vole")>>
          /\ KindAt(x) = "vole"
      BY <2>2 DEF Unread, KindAt
    <3> QED BY <3>1, ShortLines
  <2> QED BY <1>1, <2>1, <2>2
<1>3. /\ x < 5 => <<x + 1, y>> \in Places(up, role)
      /\ <<y, x + 1>> \in Places(~up, Other(role))
      /\ x = 5 => role = "snd" /\ y = 5
  BY <1>1 DEF Places, OpAt, Other
<1> QED BY <1>1, <1>2, <1>3

(* The worker at place x reads next, and its peer at y has sent it a byte. *)
Reads(up, role, x, y) ==
    /\ up \in BOOLEAN /\ role \in {"snd", "rcv"} /\ x \in 0..5 /\ y \in 0..6
    /\ <<x, y>> \in Places(up, role) /\ OpAt(up, role, x) = "recv"
    /\ Unread(y - x, x) # <<>>

(* It finds what it expects, has left nothing unread behind it, and may    *)
(* move on.                                                                *)
ReadsRight(up, role, x, y) ==
    /\ y - x \in 1..2
    /\ Head(Unread(y - x, x)) = Byte(KindAt(x))
    /\ \A z : (x < 5 => z = x + 1) => Unread(y - x - 1, z) = Tail(Unread(y - x, x))
    /\ x < 5 => <<x + 1, y>> \in Places(up, role)
    /\ y < 6 => <<y, x + 1>> \in Places(~up, Other(role))
    /\ x = 5 => role = "rcv" /\ y = 6

LEMMA ReadPlace ==
    ASSUME NEW up, NEW role, NEW x, NEW y, Reads(up, role, x, y)
    PROVE  ReadsRight(up, role, x, y)
PROOF
<1> USE DEF Reads, ReadsRight
<1>1. CASE up /\ role = "rcv"
  <2>1. <<x, y>> \in {<<1, 2>>, <<3, 4>>, <<5, 6>>}
    BY <1>1 DEF Places, OpAt, Unread
  <2> QED BY <1>1, <2>1 DEF Places, Other, Unread, KindAt
<1>2. CASE up /\ role = "snd"
  <2>1. <<x, y>> \in {<<1, 2>>, <<3, 4>>, <<3, 5>>, <<4, 5>>}
    BY <1>2 DEF Places, OpAt, Unread
  <2> QED BY <1>2, <2>1 DEF Places, Other, Unread, KindAt
<1>3. CASE ~up /\ role = "rcv"
  <2>1. <<x, y>> \in {<<0, 1>>, <<2, 3>>, <<5, 6>>}
    BY <1>3 DEF Places, OpAt, Unread
  <2> QED BY <1>3, <2>1 DEF Places, Other, Unread, KindAt
<1>4. CASE ~up /\ role = "snd"
  <2>1. <<x, y>> \in {<<0, 1>>, <<2, 3>>, <<4, 5>>}
    BY <1>4 DEF Places, OpAt, Unread
  <2> QED BY <1>4, <2>1 DEF Places, Other, Unread, KindAt
<1> QED BY <1>1, <1>2, <1>3, <1>4

(* Counting Mpsi's messages finds the end of their prefix.                 *)
LEMMA TrimPrefix ==
    ASSUME NEW S, NEW l \in Seq(S), NEW h \in Seq(S),
           \A i \in 1..Len(l) : Payload(l[i]), \A i \in 1..Len(h) : ~Payload(h[i])
    PROVE  Trim(l \o h) = l
PROOF
<1> DEFINE c == l \o h
           A == {i \in DOMAIN c : Payload(c[i])}
<1>1. /\ c \in Seq(S) /\ Len(c) = Len(l) + Len(h)
      /\ \A i \in 1..Len(c) : c[i] = IF i <= Len(l) THEN l[i] ELSE h[i - Len(l)]
  BY ConcatProperties
<1>2. Len(l) \in Nat /\ Len(h) \in Nat /\ DOMAIN c = 1..Len(c)
  BY <1>1
<1>3. A = 1..Len(l)
  <2> HIDE DEF c
  <2>1. A = {i \in 1..Len(c) : Payload(c[i])}
    BY <1>2
  <2>2. ASSUME NEW i \in 1..Len(c) PROVE Payload(c[i]) <=> i \in 1..Len(l)
    <3>1. CASE i <= Len(l)
      <4>1. i \in 1..Len(l) /\ c[i] = l[i]
        BY <1>1, <1>2, <3>1
      <4> QED BY <4>1
    <3>2. CASE ~(i <= Len(l))
      <4>1. i - Len(l) \in 1..Len(h) /\ c[i] = h[i - Len(l)] /\ i \notin 1..Len(l)
        BY <1>1, <1>2, <3>2
      <4> QED BY <4>1
    <3> QED BY <3>1, <3>2
  <2>3. 1..Len(l) \subseteq 1..Len(c)
    BY <1>1, <1>2
  <2> HIDE DEF A
  <2> QED BY <2>1, <2>2, <2>3
<1>4. Cardinality(A) = Len(l)
  <2> HIDE DEF A
  <2>1. ASSUME NEW n \in Nat PROVE Cardinality(1..n) = n
    BY FS_Interval
  <2> QED BY <1>2, <1>3, <2>1
<1>5. Trim(c) = SubSeq(c, 1, Len(l))
  BY <1>4 DEF Trim
<1>6. SubSeq(c, 1, Len(l)) = l
  <2> DEFINE d == SubSeq(c, 1, Len(l))
  <2>1. d \in Seq(S) /\ Len(d) = Len(l) /\ \A i \in 1..Len(l) : d[i] = c[i]
    <3> HIDE DEF c
    <3> QED BY <1>1, <1>2, SubSeqProperties
  <2>2. \A i \in 1..Len(l) : d[i] = l[i]
    <3> HIDE DEF c, d
    <3> QED BY <1>1, <1>2, <2>1
  <2> HIDE DEF d
  <2> QED BY <2>1, <2>2, SeqEqual
<1> QED BY <1>5, <1>6
-----------------------------------------------------------------------------
(* What MpsiProofs says of the joint state, in the terms of this module.   *)
Between == {"sendOmega", "recvOmega", "sendAPrime", "recvAPrime"}

LEMMA PairRoles ==
    ASSUME NEW p \in Party, NEW q \in Party
    PROVE  /\ Len(Roles(p, q)) \in 0..2 /\ Len(Roles(q, p)) = Len(Roles(p, q))
           /\ Roles(p, q) = <<>> <=> Len(Roles(p, q)) = 0
           /\ Roles(q, p) = <<>> <=> Len(Roles(p, q)) = 0
           /\ Roles(p, q) # <<>> => p # q
           /\ \A k \in 1..Len(Roles(p, q)) :
                /\ Roles(p, q)[k] \in {"snd", "rcv"}
                /\ Roles(p, q)[k] = "snd" <=> Roles(q, p)[k] = "rcv"
PROOF
<1> USE NAssumption, TAssumption, TopologyAssumption, MaskPeersAssumption, PartySetAssumption,
        CapacityAssumption DEF MP!Party, Party, MP!Middle, Middle
<1>1. MP!Roles(p, q) = Roles(p, q) /\ MP!Roles(q, p) = Roles(q, p)
  BY SameParties
<1>2. /\ Len(MP!Roles(p, q)) \in 0..2 /\ Len(MP!Roles(q, p)) = Len(MP!Roles(p, q))
      /\ MP!Roles(p, q) = <<>> <=> Len(MP!Roles(p, q)) = 0
      /\ MP!Roles(q, p) = <<>> <=> Len(MP!Roles(p, q)) = 0
      /\ MP!Roles(p, q) # <<>> => p # q
      /\ \A k \in 1..Len(MP!Roles(p, q)) :
           /\ MP!Roles(p, q)[k] \in {"snd", "rcv"}
           /\ MP!Roles(p, q)[k] = "snd" <=> MP!Roles(q, p)[k] = "rcv"
  BY MP!RolesFacts
<1> QED BY <1>1, <1>2

LEMMA PairPace ==
    ASSUME MP!Inv, NEW p \in Party, NEW q \in Party, Roles(p, q) # <<>>
    PROVE  MP!Pace(JointWorker[p][q], JointWorker[q][p])
PROOF
<1> USE NAssumption, TAssumption, TopologyAssumption, MaskPeersAssumption, PartySetAssumption,
        CapacityAssumption DEF MP!Party, Party, MP!Middle, Middle
<1> QED BY MP!Abreast, SameParties

LEMMA PairQuiet ==
    ASSUME MP!Inv, NEW p \in Party, NEW q \in Party
    PROVE  /\ JointWorker[p][q].at = "open" => JointChan[q][p] = <<>>
           /\ MP!Running(p, q, "rcv", "sendOmega") =>
                /\ JointWorker[q][p].at = "recvOmega"
                /\ JointChan[p][q] = <<>> /\ JointChan[q][p] = <<>>
PROOF
<1> USE NAssumption, TAssumption, TopologyAssumption, MaskPeersAssumption, PartySetAssumption,
        CapacityAssumption DEF MP!Party, Party, MP!Middle, Middle
<1>1. JointWorker[p][q].at = "open" => JointChan[q][p] = <<>>
  BY MP!OpenQuiet
<1>2. MP!Running(p, q, "rcv", "sendOmega") =>
        JointWorker[q][p].at = "recvOmega" /\ JointChan[p][q] = <<>> /\ JointChan[q][p] = <<>>
  BY MP!StartQuiet
<1> QED BY <1>1, <1>2

LEMMA JointLine ==
    ASSUME MP!Inv, NEW p \in Party, NEW q \in Party
    PROVE  \E S : /\ JointChan[p][q] \in Seq(S)
                  /\ \A m \in S : m.kind \in {"seed", "omega", "aprime", "table"}
PROOF
<1> USE NAssumption, TAssumption, TopologyAssumption, MaskPeersAssumption, PartySetAssumption,
        CapacityAssumption DEF MP!Party, Party, MP!Middle, Middle
<1> QED BY MP!LineKinds

LEMMA JointNext ==
    /\ MP!Init => MP!Inv /\ MP!MasksFirst
    /\ MP!Inv /\ MP!MasksFirst /\ [MP!Next]_MP!vars => MP!Inv' /\ MP!MasksFirst'
    /\ MP!Inv => MP!ExpectedMessage
PROOF
<1> USE NAssumption, TAssumption, TopologyAssumption, MaskPeersAssumption, PartySetAssumption,
        CapacityAssumption DEF MP!Party, Party, MP!Middle, Middle
<1>1. MP!Init => MP!Inv /\ MP!MasksFirst
  BY MP!InitInv
<1>2. MP!Inv /\ MP!MasksFirst /\ [MP!Next]_MP!vars => MP!Inv' /\ MP!MasksFirst'
  BY MP!NextInv
<1>3. MP!Inv => MP!ExpectedMessage
  BY MP!KindExpected
<1> QED BY <1>1, <1>2, <1>3

LEMMA Places0 ==
    /\ 0 \in Party /\ N-1 \in Party
    /\ \A i \in MaskPeers : i \in Party /\ i # 0 /\ Roles(0, i) = <<>> /\ Roles(i, 0) = <<>>
    /\ \A p \in Party : NextHop(p) \in Party
PROOF
<1> USE NAssumption, TAssumption, TopologyAssumption, MaskPeersAssumption, PartySetAssumption,
        CapacityAssumption DEF MP!Party, Party, MP!Middle, Middle
<1>1. 0 \in Party /\ N-1 \in Party
  OBVIOUS
<1>2. \A i \in MaskPeers : i \in Party /\ i # 0 /\ Roles(0, i) = <<>> /\ Roles(i, 0) = <<>>
  BY MP!MaskFacts, SameParties
<1>3. \A p \in Party : NextHop(p) \in Party
  BY DEF NextHop
<1> QED BY <1>1, <1>2, <1>3

(* The joint view of one worker, one omega and one line.                   *)
LEMMA JointEntry ==
    ASSUME NEW p \in Party, NEW q \in Party
    PROVE  /\ JointWorker[p][q] = IF Behind(p, q)
                THEN [worker[p][q] EXCEPT !.at = FirstStep(Role(p, q))] ELSE worker[p][q]
           /\ JointOmega[p][q] = IF Behind(p, q) THEN Drawn(p, q) ELSE omega[p][q]
           /\ JointChan[p][q] = Trim(chan[p][q])
BY DEF JointWorker, JointOmega, JointChan

LEMMA JointFacts ==
    ASSUME WireInv, NEW p \in Party, NEW q \in Party
    PROVE  /\ worker[p][q] \in [session : {1, 2}, at : Steps]
           /\ worker[p][q].session \in 1..2
           /\ JointWorker[p][q] = [session |-> worker[p][q].session,
                 at |-> IF Behind(p, q) THEN FirstStep(Role(p, q)) ELSE worker[p][q].at]
           /\ JointWorker[p][q].session = worker[p][q].session
           /\ JointWorker[p][q].at = IF Behind(p, q) THEN FirstStep(Role(p, q)) ELSE worker[p][q].at
           /\ Behind(p, q) => worker[p][q].at = "open" /\ worker[q][p].at \in Between
                              /\ ~Behind(q, p)
           /\ FirstStep(Role(p, q)) \in Between
           /\ Past(p, q) <=> worker[p][q].at \in Between
           /\ worker[p][q].at = "open" \/ worker[p][q].at \in {"none", "seed", "done"} \cup Between
           /\ prelude[p][q] \in 0..5
PROOF
<1>1. /\ worker[p][q] \in [session : {1, 2}, at : Steps]
      /\ worker[q][p] \in [session : {1, 2}, at : Steps]
      /\ prelude[p][q] \in 0..5
  BY DEF WireInv, WireTypes
<1>2. FirstStep(Role(p, q)) \in {"sendOmega", "recvOmega"}
  BY DEF FirstStep
<1>4. worker[p][q].session \in 1..2
  BY <1>1
<1>3. JointWorker[p][q] = [session |-> worker[p][q].session,
                 at |-> IF Behind(p, q) THEN FirstStep(Role(p, q)) ELSE worker[p][q].at]
  BY <1>1, JointEntry
<1> QED BY <1>1, <1>2, <1>3, <1>4 DEF Behind, Past, Between, Steps

(* Nobody has fallen behind a worker that has its handshake before it.     *)
LEMMA BehindOne ==
    ASSUME NEW p \in Party, NEW q \in Party, worker[p][q].at = "open"
    PROVE  ~Behind(q, p)
BY DEF Behind, Past, Between

(* A worker that runs a session, and one of a pair that runs none.         *)
LEMMA AtRoles ==
    ASSUME WireInv, NEW p \in Party, NEW q \in Party
    PROVE  /\ Roles(p, q) = <<>> => worker[p][q].at \in {"none", "seed", "done"}
           /\ Roles(p, q) # <<>> =>
                /\ worker[p][q].session \in 1..Len(Roles(p, q)) /\ worker[p][q].at # "seed"
                /\ Role(p, q) \in {"snd", "rcv"}
                /\ worker[p][q].at = "done" => worker[p][q].session = Len(Roles(p, q))
                /\ worker[p][q].at = "none" => worker[p][q].session = 1
                /\ main[p] = "mask" <=> worker[p][q].at = "none"
                /\ main[p] \in {"table", "closed"} => worker[p][q].at = "done"
PROOF
<1>1. MP!WorkerAt(p, q, main[p], JointWorker[p][q])
  BY SameParties DEF WireInv, MP!Inv, MP!WorkerInv
<1>2. /\ JointWorker[p][q].session = worker[p][q].session
      /\ JointWorker[p][q].at = IF Behind(p, q) THEN FirstStep(Role(p, q)) ELSE worker[p][q].at
      /\ Behind(p, q) => worker[p][q].at = "open"
      /\ FirstStep(Role(p, q)) \in Between
  BY JointFacts
<1>3. CASE Roles(p, q) = <<>>
  BY <1>1, <1>2, <1>3, SameParties DEF MP!WorkerAt, Between
<1>4. CASE Roles(p, q) # <<>>
  <2>1. worker[p][q].session \in 1..Len(Roles(p, q)) /\ worker[p][q].at # "seed"
    BY <1>1, <1>2, <1>4, SameParties DEF MP!WorkerAt, Between
  <2>2. Role(p, q) \in {"snd", "rcv"}
    BY <2>1, PairRoles DEF Role
  <2> QED BY <1>1, <1>2, <1>4, <2>1, <2>2, SameParties DEF MP!WorkerAt, Between
<1> QED BY <1>3, <1>4
-----------------------------------------------------------------------------
(* A worker that has its session's handshake or VOLE before it, and its    *)
(* peer.                                                                   *)
LEMMA CountFacts ==
    ASSUME WireInv, NEW p \in Party, NEW q \in Party, NEW k, worker[p][q].session = k
    PROVE  /\ k \in 1..2 /\ prelude[p][q] \in 0..5
           /\ worker[p][q].at = "open" => Count(p, q) = 6 * (k - 1) + prelude[p][q]
           /\ worker[p][q].at = "none" => Count(p, q) = 6 * (k - 1)
           /\ worker[p][q].at \in {"seed", "done"} \cup Between => Count(p, q) = 6 * k
           /\ worker[p][q].at # "open" => Count(p, q) = 6 * (k - 1) \/ Count(p, q) = 6 * k
PROOF
<1>1. k \in 1..2 /\ prelude[p][q] \in 0..5
  BY JointFacts
<1>2. worker[p][q].at = "open" => Count(p, q) = 6 * (k - 1) + prelude[p][q]
  BY <1>1 DEF Count
<1>3. worker[p][q].at = "none" => Count(p, q) = 6 * (k - 1)
  BY <1>1 DEF Count
<1>4. worker[p][q].at \in {"seed", "done"} \cup Between => Count(p, q) = 6 * k
  <2>1. worker[p][q].at \in {"seed", "done"} \cup Between => Count(p, q) = 6 * (k - 1) + 6
    BY <1>1 DEF Count, Between
  <2> QED BY <1>1, <2>1
<1>5. worker[p][q].at # "open" => worker[p][q].at = "none" \/ worker[p][q].at \in {"seed", "done"} \cup Between
  BY JointFacts
<1> QED BY <1>1, <1>2, <1>3, <1>4, <1>5

LEMMA Seat ==
    ASSUME WireInv, NEW p \in Party, NEW q \in Party, worker[p][q].at = "open"
    PROVE  /\ Roles(p, q) # <<>> /\ Roles(q, p) # <<>> /\ p # q
           /\ prelude[p][q] \in 0..5 /\ PeerPlace(p, q) \in 0..6
           /\ <<prelude[p][q], PeerPlace(p, q)>> \in Places(q > p, Role(p, q))
           /\ Role(p, q) \in {"snd", "rcv"}
           /\ PeerPlace(p, q) \in 1..5 => worker[q][p].at = "open"
           /\ worker[q][p].at = "open" =>
                /\ worker[q][p].session = worker[p][q].session
                /\ PeerPlace(p, q) = prelude[q][p] /\ PeerPlace(q, p) = prelude[p][q]
                /\ Role(q, p) = Other(Role(p, q))
           /\ PeerPlace(p, q) = 6 <=> Behind(p, q)
           /\ Count(p, q) - Count(q, p) = prelude[p][q] - PeerPlace(p, q)
PROOF
<1> DEFINE k == worker[p][q].session
           c == Count(q, p)
           x == prelude[p][q]
<1>1. /\ Roles(p, q) # <<>> /\ Roles(q, p) # <<>> /\ p # q
      /\ k \in 1..Len(Roles(p, q)) /\ Role(p, q) \in {"snd", "rcv"}
  BY AtRoles, PairRoles
<1>2. <<x, PeerPlace(p, q)>> \in Places(q > p, Role(p, q))
  BY DEF WireInv, MeetInv, Met
<1>3. MP!Pace(JointWorker[p][q], JointWorker[q][p])
  BY <1>1, PairPace DEF WireInv
<1>4. k \in 1..2 /\ x \in 0..5 /\ Count(p, q) = 6 * (k - 1) + x
  BY CountFacts
<1>5. PeerPlace(p, q) = c - 6 * (k - 1)
  BY DEF PeerPlace
<1>7. /\ c \in Int
      /\ \/ Behind(p, q) /\ worker[q][p].at # "open" /\ PeerPlace(p, q) = 6
         \/ ~Behind(p, q) /\ worker[q][p].at # "open" /\ PeerPlace(p, q) = 0
         \/ /\ ~Behind(p, q) /\ worker[q][p].at = "open" /\ worker[q][p].session = k
            /\ prelude[q][p] \in 0..5 /\ PeerPlace(p, q) = prelude[q][p]
            /\ c = 6 * (k - 1) + prelude[q][p]
            /\ Role(q, p) = Other(Role(p, q))
  <2>1. CASE Behind(p, q)
    <3>1. worker[q][p].session = k /\ worker[q][p].at \in Between
      BY <2>1, JointFacts DEF Behind
    <3>2. c = 6 * k
      BY <3>1, CountFacts
    <3>3. worker[q][p].at # "open"
      BY <3>1 DEF Between
    <3>4. c \in Int /\ PeerPlace(p, q) = 6
      BY <1>4, <1>5, <3>2
    <3> QED BY <2>1, <3>3, <3>4
  <2>2. CASE ~Behind(p, q)
    <3>1. ~Behind(q, p)
      BY BehindOne
    <3>2. /\ JointWorker[p][q].at = "open" /\ JointWorker[p][q].session = k
          /\ JointWorker[q][p].at = worker[q][p].at
          /\ JointWorker[q][p].session = worker[q][p].session
      BY <2>2, <3>1, JointFacts
    <3>3. \/ worker[q][p].session = k /\ worker[q][p].at \in {"none", "open"}
          \/ k = worker[q][p].session + 1 /\ worker[q][p].at = "recvAPrime"
      BY <1>3, <3>2 DEF MP!Pace, MP!Between
    <3>4. CASE worker[q][p].session = k /\ worker[q][p].at = "open"
      <4>1. c = 6 * (k - 1) + prelude[q][p] /\ prelude[q][p] \in 0..5
        BY <3>4, CountFacts
      <4>2. Role(q, p) = Other(Role(p, q))
        BY <1>1, <3>4, PairRoles DEF Role, Other
      <4>3. c \in Int /\ PeerPlace(p, q) = prelude[q][p]
        BY <1>4, <1>5, <4>1
      <4> QED BY <2>2, <3>4, <4>1, <4>2, <4>3
    <3>5. CASE worker[q][p].session = k /\ worker[q][p].at = "none"
      <4>1. c = 6 * (k - 1)
        BY <3>5, CountFacts
      <4> QED BY <1>4, <1>5, <2>2, <3>5, <4>1
    <3>6. CASE k = worker[q][p].session + 1 /\ worker[q][p].at = "recvAPrime"
      <4>1. c = 6 * worker[q][p].session /\ worker[q][p].session \in 1..2
        BY <3>6, CountFacts DEF Between
      <4>2. c \in Int /\ PeerPlace(p, q) = 0
        BY <1>4, <1>5, <3>6, <4>1
      <4> QED BY <2>2, <3>6, <4>2
    <3> QED BY <3>3, <3>4, <3>5, <3>6
  <2> QED BY <2>1, <2>2
<1>8. Count(p, q) - c = x - PeerPlace(p, q) /\ PeerPlace(p, q) \in 0..6
  <2> HIDE DEF c, k, x
  <2>1. PeerPlace(p, q) \in 0..6
    BY <1>7
  <2> QED BY <1>4, <1>5, <1>7, <2>1
<1>9. worker[q][p].at = "open" => PeerPlace(q, p) = x
  <2> SUFFICES ASSUME worker[q][p].at = "open" PROVE PeerPlace(q, p) = x
    OBVIOUS
  <2>1. worker[q][p].session = k
    BY <1>7
  <2> QED BY <1>4, <2>1 DEF PeerPlace
<1>10. PeerPlace(p, q) \in 1..5 => worker[q][p].at = "open"
  BY <1>7
<1>11. PeerPlace(p, q) = 6 <=> Behind(p, q)
  BY <1>7
<1>12. worker[q][p].at = "open" =>
         /\ worker[q][p].session = k /\ PeerPlace(p, q) = prelude[q][p]
         /\ Role(q, p) = Other(Role(p, q))
  BY <1>7
<1> HIDE DEF c, k, x
<1> QED BY <1>1, <1>2, <1>4, <1>8, <1>9, <1>10, <1>11, <1>12 DEF c, k, x

(* Only the receiver can be behind, with the last message of the VOLE.     *)
LEMMA BehindFacts ==
    ASSUME WireInv, NEW p \in Party, NEW q \in Party, Behind(p, q)
    PROVE  /\ prelude[p][q] = 5 /\ Role(p, q) = "rcv"
           /\ worker[q][p].at = "recvOmega"
           /\ JointChan[p][q] = <<>> /\ JointChan[q][p] = <<>>
           /\ Hello(p, q) = <<>>
PROOF
<1>1. worker[p][q].at = "open" /\ ~Behind(q, p)
  BY JointFacts
<1>2. /\ PeerPlace(p, q) = 6 /\ prelude[p][q] \in 0..5 /\ Role(p, q) \in {"snd", "rcv"}
      /\ <<prelude[p][q], PeerPlace(p, q)>> \in Places(q > p, Role(p, q))
      /\ Count(p, q) - Count(q, p) = prelude[p][q] - PeerPlace(p, q)
  BY <1>1, Seat
<1>3. prelude[p][q] = 5 /\ Role(p, q) = "rcv"
  BY <1>2 DEF Places
<1>4. JointWorker[p][q].at = "sendOmega" /\ JointWorker[p][q].session = worker[p][q].session
  BY <1>3, JointFacts DEF FirstStep
<1>5. MP!Running(p, q, "rcv", "sendOmega")
  BY <1>3, <1>4, SameParties DEF MP!Running, Role
<1>6. JointWorker[q][p].at = "recvOmega" /\ JointChan[p][q] = <<>> /\ JointChan[q][p] = <<>>
  BY <1>5, PairQuiet DEF WireInv
<1>7. worker[q][p].at = "recvOmega"
  BY <1>1, <1>6, JointFacts
<1>8. Hello(p, q) = <<>>
  BY <1>2, <1>3 DEF Hello, Unread
<1> QED BY <1>3, <1>6, <1>7, <1>8

(* A worker outside the handshakes has nothing of them left unread.        *)
LEMMA NothingUnread ==
    ASSUME WireInv, NEW p \in Party, NEW q \in Party, worker[p][q].at # "open", ~Behind(q, p)
    PROVE  Hello(p, q) = <<>>
PROOF
<1> DEFINE k == worker[p][q].session
           l == worker[q][p].session
<1>1. k \in 1..2 /\ (Count(p, q) = 6 * (k - 1) \/ Count(p, q) = 6 * k)
  BY CountFacts
<1>2. Count(p, q) - Count(q, p) \notin {1, 2}
  <2>1. CASE worker[q][p].at = "open"
    <3>1. /\ PeerPlace(q, p) \in 0..6 /\ prelude[q][p] \in 0..5
          /\ PeerPlace(q, p) \notin 1..5 /\ PeerPlace(q, p) # 6
          /\ Count(q, p) - Count(p, q) = prelude[q][p] - PeerPlace(q, p)
      <4> HIDE DEF k, l
      <4> QED BY <2>1, Seat
    <3>2. PeerPlace(q, p) = 0
      BY <3>1
    <3>3. l \in 1..2 /\ Count(q, p) = 6 * (l - 1) + prelude[q][p]
      BY <2>1, CountFacts
    <3> HIDE DEF k, l
    <3> QED BY <1>1, <3>1, <3>2, <3>3
  <2>2. CASE worker[q][p].at # "open"
    <3>1. l \in 1..2 /\ (Count(q, p) = 6 * (l - 1) \/ Count(q, p) = 6 * l)
      BY <2>2, CountFacts
    <3> HIDE DEF k, l
    <3> QED BY <1>1, <3>1
  <2> QED BY <2>1, <2>2
<1> QED BY <1>2 DEF Hello, Unread

(* The reader of a handshake or a VOLE finds nothing of Mpsi in its socket. *)
LEMMA NoPayload ==
    ASSUME WireInv, NEW p \in Party, NEW q \in Party, worker[p][q].at = "open"
    PROVE  JointChan[q][p] = <<>>
PROOF
<1>1. CASE Behind(p, q)
  BY <1>1, BehindFacts
<1>2. CASE ~Behind(p, q)
  <2>1. JointWorker[p][q].at = "open"
    BY <1>2, JointFacts
  <2> QED BY <2>1, PairQuiet DEF WireInv
<1> QED BY <1>1, <1>2
-----------------------------------------------------------------------------
(* What a send and a receive do to a line whose payload Mpsi sees.         *)
Bytes == {Byte("sync"), Byte("vole")}
Kinds == {"seed", "omega", "aprime", "table"}

LEMMA UnreadType ==
    ASSUME NEW d, NEW y
    PROVE  Unread(d, y) \in Seq(Bytes)
PROOF
<1>1. \A u, v \in Bytes : <<u>> \in Seq(Bytes) /\ <<u, v>> \in Seq(Bytes)
  OBVIOUS
<1>2. Byte("sync") \in Bytes /\ Byte("vole") \in Bytes /\ Byte(KindAt(y)) \in Bytes
  BY DEF Bytes, KindAt
<1> QED BY <1>1, <1>2 DEF Unread

(* The part of a line that Mpsi sees.                                      *)
LEMMA TrimLine ==
    ASSUME NEW S, \A m \in S : m.kind \in Kinds, NEW l \in Seq(S), NEW h \in Seq(Bytes)
    PROVE  Trim(l \o h) = l
PROOF
<1> DEFINE W == S \cup Bytes
<1>1. l \in Seq(W) /\ h \in Seq(W)
  BY SeqMonotonic
<1>2. ASSUME NEW i \in 1..Len(l) PROVE Payload(l[i])
  <2>1. l[i] \in S
    BY ElementOfSeq
  <2> QED BY <2>1 DEF Payload, Kinds
<1>3. ASSUME NEW i \in 1..Len(h) PROVE ~Payload(h[i])
  <2>1. h[i] \in Bytes
    BY ElementOfSeq
  <2> QED BY <2>1 DEF Payload, Bytes, Byte
<1> HIDE DEF W
<1> QED BY <1>1, <1>2, <1>3, TrimPrefix

LEMMA LineSplit ==
    ASSUME WireInv, NEW p \in Party, NEW q \in Party
    PROVE  /\ chan[p][q] = JointChan[p][q] \o Hello(p, q)
           /\ Hello(p, q) \in Seq(Bytes)
           /\ JointChan'[p][q] = Trim(chan'[p][q])
           /\ JointChan[p][q] = Trim(chan[p][q])
           /\ \E S : JointChan[p][q] \in Seq(S) /\ \A m \in S : m.kind \in Kinds
PROOF
<1>1. Hello(p, q) \in Seq(Bytes)
  BY UnreadType DEF Hello
<1>2. JointChan'[p][q] = Trim(chan'[p][q])
  BY DEF JointChan
<1>3. \E S : JointChan[p][q] \in Seq(S) /\ \A m \in S : m.kind \in Kinds
  BY JointLine DEF WireInv, Kinds
<1> QED BY <1>1, <1>2, <1>3, JointEntry DEF WireInv, LinesInv

LEMMA SendByte ==
    ASSUME WireInv, NEW p \in Party, NEW q \in Party, NEW m \in Bytes,
           chan'[p][q] = Append(chan[p][q], m)
    PROVE  /\ JointChan'[p][q] = JointChan[p][q]
           /\ chan'[p][q] = JointChan[p][q] \o Append(Hello(p, q), m)
PROOF
<1> DEFINE l == JointChan[p][q]
           h == Hello(p, q)
<1>1. PICK S : l \in Seq(S) /\ \A u \in S : u.kind \in Kinds
  BY LineSplit
<1>2. chan[p][q] = l \o h /\ h \in Seq(Bytes)
  BY LineSplit
<1>3. JointChan'[p][q] = Trim(chan'[p][q])
  BY LineSplit
<1> HIDE DEF l, h
<1> DEFINE W == S \cup Bytes
<1>4. l \in Seq(W) /\ h \in Seq(W) /\ m \in W
  BY <1>1, <1>2, SeqMonotonic
<1>5. Append(h, m) \in Seq(Bytes)
  BY <1>2, AppendProperties
<1>6. Append(l \o h, m) = l \o Append(h, m)
  <2>1. <<m>> \in Seq(W) /\ l \o h \in Seq(W)
    BY <1>4, ConcatProperties
  <2>2. (l \o h) \o <<m>> = l \o (h \o <<m>>)
    BY <1>4, <2>1, ConcatAssociative
  <2>3. Append(l \o h, m) = (l \o h) \o <<m>> /\ Append(h, m) = h \o <<m>>
    BY <1>4, <2>1, AppendIsConcat
  <2> QED BY <2>2, <2>3
<1>7. Trim(l \o Append(h, m)) = l
  BY <1>1, <1>5, TrimLine
<1> QED BY <1>2, <1>3, <1>6, <1>7 DEF l, h

LEMMA ReadByte ==
    ASSUME WireInv, NEW p \in Party, NEW q \in Party, JointChan[q][p] = <<>>,
           chan[q][p] # <<>>, chan'[q][p] = Tail(chan[q][p])
    PROVE  /\ chan[q][p] = Hello(q, p)
           /\ JointChan'[q][p] = JointChan[q][p]
           /\ chan'[q][p] = JointChan[q][p] \o Tail(Hello(q, p))
PROOF
<1> DEFINE h == Hello(q, p)
           none == JointChan[q][p]
<1>1. chan[q][p] = none \o h /\ h \in Seq(Bytes) /\ none = <<>>
  BY LineSplit
<1>2. JointChan'[q][p] = Trim(chan'[q][p])
  BY LineSplit
<1> HIDE DEF h, none
<1>3. chan[q][p] = h /\ Tail(h) \in Seq(Bytes)
  BY <1>1, ConcatEmptySeq, HeadTailProperties
<1>4. <<>> \o Tail(h) = Tail(h)
  BY <1>3, ConcatEmptySeq
<1>5. Trim(<<>> \o Tail(h)) = <<>>
  <2>1. <<>> \in Seq({}) /\ \A m \in {} : m.kind \in Kinds
    OBVIOUS
  <2> QED BY <1>3, <2>1, TrimLine
<1> QED BY <1>1, <1>2, <1>3, <1>4, <1>5 DEF h, none

LEMMA SendPayload ==
    ASSUME WireInv, NEW p \in Party, NEW q \in Party, Hello(p, q) = <<>>,
           NEW m, m.kind \in Kinds, chan'[p][q] = Append(chan[p][q], m)
    PROVE  /\ JointChan[p][q] = chan[p][q]
           /\ JointChan'[p][q] = Append(JointChan[p][q], m)
           /\ chan'[p][q] = JointChan'[p][q] \o Hello(p, q)
PROOF
<1> DEFINE l == JointChan[p][q]
<1>1. PICK S : l \in Seq(S) /\ \A u \in S : u.kind \in Kinds
  BY LineSplit
<1>2. chan[p][q] = l \o <<>>
  BY LineSplit
<1>3. JointChan'[p][q] = Trim(chan'[p][q])
  BY LineSplit
<1> HIDE DEF l
<1>4. chan[p][q] = l
  BY <1>1, <1>2, ConcatEmptySeq
<1> DEFINE W == S \cup {m}
<1>5. l \in Seq(W) /\ m \in W /\ \A u \in W : u.kind \in Kinds
  BY <1>1, SeqMonotonic
<1> HIDE DEF W
<1>6. Append(l, m) \in Seq(W)
  BY <1>5, AppendProperties
<1>7. Append(l, m) \o <<>> = Append(l, m) /\ <<>> \in Seq(Bytes)
  BY <1>6, ConcatEmptySeq
<1>8. Trim(Append(l, m)) = Append(l, m)
  BY <1>5, <1>6, <1>7, TrimLine
<1> QED BY <1>3, <1>4, <1>7, <1>8 DEF l

LEMMA ReadPayload ==
    ASSUME WireInv, NEW p \in Party, NEW q \in Party,
           chan[q][p] # <<>>, Head(chan[q][p]).kind \in Kinds
    PROVE  /\ JointChan[q][p] # <<>> /\ Head(JointChan[q][p]) = Head(chan[q][p])
           /\ chan'[q][p] = Tail(chan[q][p]) =>
                /\ JointChan'[q][p] = Tail(JointChan[q][p])
                /\ chan'[q][p] = JointChan'[q][p] \o Hello(q, p)
PROOF
<1> DEFINE l == JointChan[q][p]
           h == Hello(q, p)
<1>1. PICK S : l \in Seq(S) /\ \A u \in S : u.kind \in Kinds
  BY LineSplit
<1>2. chan[q][p] = l \o h /\ h \in Seq(Bytes)
  BY LineSplit
<1>3. JointChan'[q][p] = Trim(chan'[q][p])
  BY LineSplit
<1> HIDE DEF l, h
<1>4. l # <<>>
  <2> SUFFICES ASSUME l = <<>> PROVE FALSE
    OBVIOUS
  <2>1. chan[q][p] = h
    BY <1>2, ConcatEmptySeq
  <2>2. Head(chan[q][p]) \in Bytes
    BY <1>2, <2>1, HeadTailProperties
  <2> QED BY <2>2 DEF Bytes, Byte, Kinds
<1> DEFINE W == S \cup Bytes
           t == Tail(l) \o h
<1>5. l \in Seq(W) /\ h \in Seq(W)
  BY <1>1, <1>2, SeqMonotonic
<1>6. Tail(l) \in Seq(S) /\ Tail(l) \in Seq(W) /\ Len(Tail(l)) = Len(l) - 1
      /\ \A i \in 1..Len(Tail(l)) : Tail(l)[i] = l[i + 1]
  BY <1>1, <1>4, <1>5, HeadTailProperties
<1>7. Head(l \o h) = Head(l) /\ Tail(l \o h) = Tail(l) \o h
  <2> HIDE DEF W, t
  <2> DEFINE c == l \o h
  <2>1. /\ c \in Seq(W) /\ Len(c) = Len(l) + Len(h) /\ Len(l) \in Nat \ {0} /\ Len(h) \in Nat
        /\ \A i \in 1..(Len(l) + Len(h)) : c[i] = IF i <= Len(l) THEN l[i] ELSE h[i - Len(l)]
    BY <1>4, <1>5, ConcatProperties
  <2>2. /\ t \in Seq(W) /\ Len(t) = Len(Tail(l)) + Len(h)
        /\ \A i \in 1..(Len(Tail(l)) + Len(h)) :
             t[i] = IF i <= Len(Tail(l)) THEN Tail(l)[i] ELSE h[i - Len(Tail(l))]
    BY <1>5, <1>6, ConcatProperties DEF t
  <2> HIDE DEF c
  <2>3. c # <<>> /\ Head(c) = c[1] /\ Head(l) = l[1] /\ c[1] = l[1]
    BY <2>1
  <2>4. /\ Tail(c) \in Seq(W) /\ Len(Tail(c)) = Len(c) - 1
        /\ \A i \in 1..Len(Tail(c)) : Tail(c)[i] = c[i + 1]
    BY <2>1, <2>3, HeadTailProperties
  <2>5. Len(Tail(c)) = Len(t)
    BY <1>6, <2>1, <2>2, <2>4
  <2>6. ASSUME NEW i \in 1..Len(t) PROVE Tail(c)[i] = t[i]
    <3>1. i \in Nat /\ i + 1 \in 1..(Len(l) + Len(h)) /\ i \in 1..(Len(Tail(l)) + Len(h))
          /\ Tail(c)[i] = c[i + 1]
      BY <1>6, <2>1, <2>2, <2>4, <2>5
    <3>2. CASE i <= Len(Tail(l))
      <4>1. t[i] = Tail(l)[i] /\ Tail(l)[i] = l[i + 1]
        BY <1>6, <2>1, <2>2, <3>1, <3>2
      <4>2. c[i + 1] = l[i + 1]
        BY <1>6, <2>1, <3>1, <3>2
      <4> QED BY <3>1, <4>1, <4>2
    <3>3. CASE ~(i <= Len(Tail(l)))
      <4>1. t[i] = h[i - Len(Tail(l))]
        BY <2>2, <3>1, <3>3
      <4>2. c[i + 1] = h[i + 1 - Len(l)]
        BY <1>6, <2>1, <3>1, <3>3
      <4>3. i + 1 - Len(l) = i - Len(Tail(l))
        BY <1>6, <2>1, <3>1
      <4> QED BY <3>1, <4>1, <4>2, <4>3
    <3> QED BY <3>2, <3>3
  <2>7. Tail(c) = t
    BY <2>2, <2>4, <2>5, <2>6, SeqEqual
  <2> QED BY <2>3, <2>7 DEF c, t
<1>8. Trim(Tail(l) \o h) = Tail(l)
  BY <1>1, <1>2, <1>6, TrimLine
<1> QED BY <1>2, <1>3, <1>4, <1>7, <1>8 DEF l, h
-----------------------------------------------------------------------------
(* A step of a handshake or of a VOLE in terms of the place it is at.      *)
LEMMA HandshakeStep ==
    ASSUME WireInv, NEW p \in Party, NEW q \in Party, Sync(p, q) \/ Vole(p, q)
    PROVE  /\ worker[p][q].at = "open"
           /\ \/ /\ OpAt(q > p, Role(p, q), prelude[p][q]) = "send"
                 /\ chan' = [chan EXCEPT ![p][q] = Append(@, Byte(KindAt(prelude[p][q])))]
              \/ /\ OpAt(q > p, Role(p, q), prelude[p][q]) = "recv"
                 /\ chan[q][p] # <<>>
                 /\ chan' = [chan EXCEPT ![q][p] = Tail(@)]
           /\ \/ /\ prelude[p][q] < 5 /\ UNCHANGED <<worker, omega>>
                 /\ prelude' = [prelude EXCEPT ![p][q] = prelude[p][q] + 1]
              \/ prelude[p][q] = 5 /\ Enter(p, q)
           /\ UNCHANGED <<main, senderOprf, receiverOprf, mask, values, heard, result>>
PROOF
<1> DEFINE x == prelude[p][q]
<1>1. worker[p][q].at = "open"
  BY DEF Sync, InSync, Vole, InVole
<1>2. x \in 0..5 /\ Role(p, q) \in {"snd", "rcv"}
  BY <1>1, Seat
<1>3. NextOp(p, q) = OpAt(q > p, Role(p, q), x) /\ Len(Prelude(p, q)) = 6 /\ Len(SyncOps(p, q)) = 4
  BY <1>2, NextOpAt
<1>4. ASSUME NEW k, k = KindAt(x), Transfer(p, q, k)
      PROVE  \/ /\ OpAt(q > p, Role(p, q), x) = "send"
                /\ chan' = [chan EXCEPT ![p][q] = Append(@, Byte(KindAt(x)))]
             \/ /\ OpAt(q > p, Role(p, q), x) = "recv"
                /\ chan[q][p] # <<>>
                /\ chan' = [chan EXCEPT ![q][p] = Tail(@)]
  BY <1>3, <1>4 DEF Transfer, Send, Pending, Consume, Byte
<1>5. CASE Sync(p, q)
  <2>1. x < 4 /\ Transfer(p, q, "sync") /\ KindAt(x) = "sync"
    BY <1>3, <1>5 DEF Sync, InSync, KindAt
  <2>2. prelude' = [prelude EXCEPT ![p][q] = prelude[p][q] + 1] /\ x < 5
    BY <1>2, <1>5, <2>1 DEF Sync
  <2> QED BY <1>1, <1>4, <1>5, <2>1, <2>2 DEF Sync, threads
<1>6. CASE Vole(p, q)
  <2>1. x >= 4 /\ Transfer(p, q, "vole") /\ KindAt(x) = "vole"
    BY <1>2, <1>3, <1>6 DEF Vole, InVole, KindAt
  <2>2. \/ /\ x < 5 /\ UNCHANGED <<worker, omega>>
           /\ prelude' = [prelude EXCEPT ![p][q] = prelude[p][q] + 1]
        \/ x = 5 /\ Enter(p, q)
    BY <1>2, <1>3, <1>6 DEF Vole
  <2> QED BY <1>1, <1>4, <1>6, <2>1, <2>2 DEF Vole
<1> QED BY <1>5, <1>6

(* It is one more operation of this worker and of nobody else.             *)
LEMMA HandshakeCounts ==
    ASSUME WireInv, NEW p \in Party, NEW q \in Party, Sync(p, q) \/ Vole(p, q)
    PROVE  /\ p # q
           /\ Count(p, q)' = Count(p, q) + 1
           /\ prelude[p][q] < 5 => Place(p, q)' = prelude[p][q] + 1
           /\ \A r, s \in Party : <<r, s>> # <<p, q>> =>
                /\ Count(r, s)' = Count(r, s) /\ Place(r, s)' = Place(r, s)
                /\ worker'[r][s] = worker[r][s] /\ prelude'[r][s] = prelude[r][s]
           /\ worker'[p][q].session = worker[p][q].session
           /\ prelude[p][q] < 5 => worker' = worker /\ prelude'[p][q] = prelude[p][q] + 1
           /\ prelude[p][q] = 5 =>
                /\ worker' = [worker EXCEPT ![p][q].at = FirstStep(Role(p, q))]
                /\ worker'[p][q].at \in Between /\ prelude'[p][q] = 0
PROOF
<1> DEFINE k == worker[p][q].session
           x == prelude[p][q]
<1>1. /\ worker[p][q].at = "open"
      /\ \/ /\ x < 5 /\ worker' = worker
            /\ prelude' = [prelude EXCEPT ![p][q] = x + 1]
         \/ x = 5 /\ Enter(p, q)
  BY HandshakeStep
<1>2. /\ worker \in [Party -> [Party -> [session : {1, 2}, at : Steps]]]
      /\ prelude \in [Party -> [Party -> 0..5]]
  BY DEF WireInv, WireTypes
<1>3. p # q /\ x \in 0..5
  <2>1. worker[p][q].at = "open"
    BY <1>1
  <2>2. p # q
    BY <2>1, Seat
  <2> QED BY <1>2, <2>2
<1>4. k \in 1..2 /\ Count(p, q) = 6 * (k - 1) + x
  BY <1>1, CountFacts
<1>5. CASE x < 5
  <2>1. worker' = worker /\ prelude' = [prelude EXCEPT ![p][q] = x + 1]
    BY <1>1, <1>5
  <2>2. prelude'[p][q] = x + 1 /\ \A r, s \in Party : <<r, s>> # <<p, q>> => prelude'[r][s] = prelude[r][s]
    BY <1>2, <2>1
  <2>3. Count(p, q)' = 6 * (k - 1) + (x + 1)
    BY <1>1, <2>1, <2>2 DEF Count
  <2>4. Place(p, q)' = x + 1
    BY <1>1, <2>1, <2>2 DEF Place
  <2>5. \A r, s \in Party : <<r, s>> # <<p, q>> =>
          Count(r, s)' = Count(r, s) /\ Place(r, s)' = Place(r, s) /\ worker'[r][s] = worker[r][s]
    BY <2>1, <2>2 DEF Count, Place
  <2>6. Count(p, q)' = Count(p, q) + 1
    <3> HIDE DEF k, x
    <3> QED BY <1>3, <1>4, <2>3
  <2> QED BY <1>3, <1>5, <2>1, <2>2, <2>4, <2>5, <2>6
<1>6. CASE x = 5
  <2>1. /\ worker' = [worker EXCEPT ![p][q].at = FirstStep(Role(p, q))]
        /\ prelude' = [prelude EXCEPT ![p][q] = 0]
    BY <1>1, <1>6 DEF Enter, Goto
  <2>2. /\ worker'[p][q].session = k /\ worker'[p][q].at = FirstStep(Role(p, q))
        /\ prelude'[p][q] = 0
        /\ \A r, s \in Party : <<r, s>> # <<p, q>> =>
             worker'[r][s] = worker[r][s] /\ prelude'[r][s] = prelude[r][s]
    BY <1>2, <2>1
  <2>3. worker'[p][q].at \in Between
    BY <2>2 DEF FirstStep, Between
  <2>4. Count(p, q)' = 6 * (k - 1) + 6
    BY <2>2, <2>3 DEF Count, Between
  <2>5. \A r, s \in Party : <<r, s>> # <<p, q>> =>
          Count(r, s)' = Count(r, s) /\ Place(r, s)' = Place(r, s)
    BY <2>2 DEF Count, Place
  <2>6. Count(p, q)' = Count(p, q) + 1
    <3> HIDE DEF k, x
    <3> QED BY <1>4, <1>6, <2>4
  <2> QED BY <1>3, <1>6, <2>1, <2>2, <2>3, <2>5, <2>6
<1> QED BY <1>3, <1>5, <1>6

(* One worker moves, and the workers remain workers.                       *)
LEMMA EntryType ==
    ASSUME NEW w \in [Party -> [Party -> [session : {1, 2}, at : Steps]]],
           NEW p \in Party, NEW q \in Party, NEW a \in Steps
    PROVE  [w EXCEPT ![p][q].at = a] \in [Party -> [Party -> [session : {1, 2}, at : Steps]]]
PROOF
<1> DEFINE W == [session : {1, 2}, at : Steps]
           u == [w[p][q] EXCEPT !.at = a]
<1>1. w[p][q] \in W
  OBVIOUS
<1>2. u \in W
  BY <1>1
<1>3. [w EXCEPT ![p][q].at = a] = [w EXCEPT ![p][q] = u]
  OBVIOUS
<1> HIDE DEF W, u
<1>4. ASSUME NEW f \in [Party -> [Party -> W]], NEW v \in W
      PROVE  [f EXCEPT ![p][q] = v] \in [Party -> [Party -> W]]
  OBVIOUS
<1> QED BY <1>2, <1>3, <1>4 DEF W

(* A line that nobody uses stays as it is.                                 *)
LEMMA LineKept ==
    ASSUME WireInv, NEW r \in Party, NEW s \in Party, chan'[r][s] = chan[r][s],
           Hello(r, s)' = Hello(r, s)
    PROVE  JointChan'[r][s] = JointChan[r][s] /\ chan'[r][s] = JointChan'[r][s] \o Hello(r, s)'
PROOF
<1>1. JointChan'[r][s] = Trim(chan'[r][s]) /\ JointChan[r][s] = Trim(chan[r][s])
  BY LineSplit
<1>2. chan[r][s] = JointChan[r][s] \o Hello(r, s)
  BY LineSplit
<1> QED BY <1>1, <1>2

(* Its byte goes through the socket behind or before Mpsi's messages.      *)
LEMMA HandshakeLines ==
    ASSUME WireInv, NEW p \in Party, NEW q \in Party, Sync(p, q) \/ Vole(p, q)
    PROVE  LinesInv' /\ JointChan' = JointChan /\ MP!Matrix(chan)'
PROOF
<1> DEFINE x == prelude[p][q]
           y == PeerPlace(p, q)
           up == q > p
           role == Role(p, q)
<1>1. /\ worker[p][q].at = "open"
      /\ \/ OpAt(up, role, x) = "send" /\ chan' = [chan EXCEPT ![p][q] = Append(@, Byte(KindAt(x)))]
         \/ /\ OpAt(up, role, x) = "recv" /\ chan[q][p] # <<>>
            /\ chan' = [chan EXCEPT ![q][p] = Tail(@)]
  BY HandshakeStep
<1>2. /\ p # q /\ Count(p, q)' = Count(p, q) + 1
      /\ x < 5 => Place(p, q)' = x + 1
      /\ \A r, s \in Party : <<r, s>> # <<p, q>> =>
           Count(r, s)' = Count(r, s) /\ Place(r, s)' = Place(r, s)
  BY HandshakeCounts
<1>3. /\ x \in 0..5 /\ y \in 0..6 /\ <<x, y>> \in Places(up, role) /\ role \in {"snd", "rcv"}
      /\ Count(p, q) - Count(q, p) = x - y
      /\ y \in 1..5 => worker[q][p].at = "open"
      /\ worker[q][p].at = "open" => y = prelude[q][p]
  BY <1>1, Seat
<1>4. Place(p, q) = x /\ (y # 6 => Place(q, p) = y)
  BY <1>1, <1>3 DEF Place
<1>5. MP!Matrix(chan)'
  BY <1>1 DEF WireInv, WireTypes, MP!Matrix, MP!Party, Party
<1>6. /\ DOMAIN chan = Party /\ \A r \in Party : DOMAIN chan[r] = Party
  BY SameParties DEF WireInv, WireTypes, MP!Matrix
<1>7. up \in BOOLEAN
  OBVIOUS
<1>8. Count(p, q) \in Int /\ Count(q, p) \in Int
  BY CountFacts
<1>9. ASSUME NEW r \in Party, NEW s \in Party, <<r, s>> # <<p, q>>, <<r, s>> # <<q, p>>
      PROVE  JointChan'[r][s] = JointChan[r][s] /\ chan'[r][s] = JointChan'[r][s] \o Hello(r, s)'
  <2>1. chan'[r][s] = chan[r][s]
    BY <1>1, <1>6, <1>9
  <2>2. <<s, r>> # <<p, q>>
    BY <1>9
  <2>3. /\ Count(r, s)' = Count(r, s) /\ Count(s, r)' = Count(s, r)
        /\ Place(s, r)' = Place(s, r)
    BY <1>2, <1>9, <2>2
  <2>4. Hello(r, s)' = Hello(r, s)
    BY <2>3 DEF Hello, Unread, Byte, KindAt
  <2> QED BY <2>1, <2>4, LineKept
<1>10. Count(q, p)' = Count(q, p) /\ Place(q, p)' = Place(q, p)
  BY <1>2
<1>11. CASE OpAt(up, role, x) = "send"
  <2>1. /\ y \in 0..5 /\ x - y \in 0..1
        /\ Unread(x + 1 - y, y) = Append(Unread(x - y, y), Byte(KindAt(x)))
    BY <1>3, <1>7, <1>11, SendPlace
  <2>2. chan' = [chan EXCEPT ![p][q] = Append(@, Byte(KindAt(x)))]
    BY <1>1, <1>11
  <2>3. chan'[p][q] = Append(chan[p][q], Byte(KindAt(x))) /\ chan'[q][p] = chan[q][p]
    BY <1>2, <1>6, <2>2
  <2>4. Byte(KindAt(x)) \in Bytes
    BY DEF Bytes, KindAt
  <2>5. /\ JointChan'[p][q] = JointChan[p][q]
        /\ chan'[p][q] = JointChan[p][q] \o Append(Hello(p, q), Byte(KindAt(x)))
    BY <2>3, <2>4, SendByte
  <2>6. Place(q, p) = y
    BY <1>4, <2>1
  <2>7. Hello(p, q) = Unread(x - y, y)
    BY <1>3, <2>6 DEF Hello
  <2>8. Hello(p, q)' = Unread(x + 1 - y, y)
    <3>1. Count(p, q)' - Count(q, p)' = x + 1 - y
      <4> HIDE DEF x, y
      <4> QED BY <1>2, <1>3, <1>8, <1>10
    <3> QED BY <1>10, <2>6, <3>1 DEF Hello
  <2>9. Hello(q, p) = <<>> /\ Hello(q, p)' = <<>>
    <3>1. Count(q, p) - Count(p, q) \notin {1, 2}
      <4> HIDE DEF x, y
      <4> QED BY <1>3, <1>8, <2>1
    <3>2. Count(q, p)' - Count(p, q)' \notin {1, 2}
      <4> HIDE DEF x, y
      <4> QED BY <1>2, <1>3, <1>8, <1>10, <2>1
    <3> QED BY <3>1, <3>2 DEF Hello, Unread
  <2>10. JointChan'[q][p] = JointChan[q][p] /\ chan'[q][p] = JointChan'[q][p] \o Hello(q, p)'
    BY <2>3, <2>9, LineKept
  <2>11. \A r, s \in Party :
           JointChan'[r][s] = JointChan[r][s] /\ chan'[r][s] = JointChan'[r][s] \o Hello(r, s)'
    BY <1>9, <2>1, <2>5, <2>7, <2>8, <2>10
  <2>12. LinesInv'
    BY <2>11 DEF LinesInv
  <2>13. JointChan' = JointChan
    BY <2>11 DEF JointChan
  <2> QED BY <1>5, <2>12, <2>13
<1>12. CASE OpAt(up, role, x) = "recv"
  <2>1. chan[q][p] # <<>> /\ chan' = [chan EXCEPT ![q][p] = Tail(@)]
    BY <1>1, <1>12
  <2>2. chan'[q][p] = Tail(chan[q][p]) /\ chan'[p][q] = chan[p][q]
    BY <1>2, <1>6, <2>1
  <2>3. JointChan[q][p] = <<>>
    BY <1>1, NoPayload
  <2>4. /\ chan[q][p] = Hello(q, p)
        /\ JointChan'[q][p] = JointChan[q][p]
        /\ chan'[q][p] = JointChan[q][p] \o Tail(Hello(q, p))
    BY <2>1, <2>2, <2>3, ReadByte
  <2>5. Count(q, p) - Count(p, q) = y - x
    <3> HIDE DEF x, y
    <3> QED BY <1>3, <1>8
  <2>6. Hello(q, p) = Unread(y - x, x)
    BY <1>4, <2>5 DEF Hello
  <2>7. Unread(y - x, x) # <<>>
    BY <2>1, <2>4, <2>6
  <2>8. /\ y - x \in 1..2
        /\ \A z : (x < 5 => z = x + 1) => Unread(y - x - 1, z) = Tail(Unread(y - x, x))
    <3> HIDE DEF x, y, up, role
    <3>1. Reads(up, role, x, y)
      BY <1>3, <1>7, <1>12, <2>7 DEF Reads
    <3>2. ReadsRight(up, role, x, y)
      BY <3>1, ReadPlace
    <3> QED BY <3>2 DEF ReadsRight
  <2>9. Hello(q, p)' = Tail(Hello(q, p))
    <3>1. Count(q, p)' - Count(p, q)' = y - x - 1
      <4> HIDE DEF x, y
      <4> QED BY <1>2, <1>3, <1>8, <1>10, <2>5
    <3>2. Hello(q, p)' = Unread(y - x - 1, Place(p, q)')
      BY <3>1 DEF Hello
    <3> QED BY <1>2, <2>6, <2>8, <3>2
  <2>10. Hello(p, q) = <<>> /\ Hello(p, q)' = <<>>
    <3>1. Count(p, q) - Count(q, p) \notin {1, 2}
      <4> HIDE DEF x, y
      <4> QED BY <1>3, <1>8, <2>8
    <3>2. Count(p, q)' - Count(q, p)' \notin {1, 2}
      <4> HIDE DEF x, y
      <4> QED BY <1>2, <1>3, <1>8, <1>10, <2>8
    <3> QED BY <3>1, <3>2 DEF Hello, Unread
  <2>11. JointChan'[p][q] = JointChan[p][q] /\ chan'[p][q] = JointChan'[p][q] \o Hello(p, q)'
    BY <2>2, <2>10, LineKept
  <2>12. \A r, s \in Party :
           JointChan'[r][s] = JointChan[r][s] /\ chan'[r][s] = JointChan'[r][s] \o Hello(r, s)'
    BY <1>9, <2>4, <2>9, <2>11
  <2>13. LinesInv'
    BY <2>12 DEF LinesInv
  <2>14. JointChan' = JointChan
    BY <2>12 DEF JointChan
  <2> QED BY <1>5, <2>13, <2>14
<1> QED BY <1>1, <1>11, <1>12

(* The two are at places that belong together, as before.                  *)
LEMMA HandshakeMet ==
    ASSUME WireInv, NEW p \in Party, NEW q \in Party, Sync(p, q) \/ Vole(p, q)
    PROVE  MeetInv' /\ RestInv' /\ WireTypes'
PROOF
<1> DEFINE x == prelude[p][q]
           y == PeerPlace(p, q)
           up == q > p
           role == Role(p, q)
<1>1. /\ worker[p][q].at = "open"
      /\ \/ OpAt(up, role, x) = "send"
         \/ OpAt(up, role, x) = "recv" /\ chan[q][p] # <<>>
      /\ (x < 5 /\ omega' = omega) \/ (x = 5 /\ Enter(p, q))
  BY HandshakeStep
<1>2. /\ p # q /\ Count(p, q)' = Count(p, q) + 1
      /\ \A r, s \in Party : <<r, s>> # <<p, q>> =>
           /\ Count(r, s)' = Count(r, s)
           /\ worker'[r][s] = worker[r][s] /\ prelude'[r][s] = prelude[r][s]
      /\ worker'[p][q].session = worker[p][q].session
      /\ x < 5 => worker' = worker /\ prelude'[p][q] = x + 1
      /\ x = 5 => worker'[p][q].at \in Between /\ prelude'[p][q] = 0
      /\ x = 5 => worker' = [worker EXCEPT ![p][q].at = FirstStep(role)]
  BY HandshakeCounts
<1>3. /\ x \in 0..5 /\ y \in 0..6 /\ <<x, y>> \in Places(up, role) /\ role \in {"snd", "rcv"}
      /\ Count(p, q) - Count(q, p) = x - y
      /\ y \in 1..5 => worker[q][p].at = "open"
      /\ worker[q][p].at = "open" =>
           y = prelude[q][p] /\ PeerPlace(q, p) = x /\ Role(q, p) = Other(role)
      /\ y = 6 <=> Behind(p, q)
  BY <1>1, Seat
<1>4. up \in BOOLEAN /\ ~up = (p > q)
  <2>1. p \in Int /\ q \in Int
    BY NAssumption DEF Party
  <2> QED BY <1>2, <2>1
<1>5. /\ x < 5 => <<x + 1, y>> \in Places(up, role)
      /\ y < 6 => <<y, x + 1>> \in Places(~up, Other(role))
  <2>1. CASE OpAt(up, role, x) = "send"
    BY <1>3, <1>4, <2>1, SendPlace
  <2>2. CASE OpAt(up, role, x) = "recv" /\ chan[q][p] # <<>>
    <3>1. JointChan[q][p] = <<>>
      BY <1>1, NoPayload
    <3>2. chan[q][p] = Hello(q, p)
      <4>1. chan[q][p] = JointChan[q][p] \o Hello(q, p)
        BY LineSplit
      <4>2. Hello(q, p) \in Seq(Bytes)
        BY LineSplit
      <4> QED BY <3>1, <4>1, <4>2, ConcatEmptySeq
    <3>3. Count(q, p) - Count(p, q) = y - x
      <4>1. Count(p, q) \in Int /\ Count(q, p) \in Int
        BY CountFacts
      <4> HIDE DEF x, y
      <4> QED BY <1>3, <4>1
    <3>4. Hello(q, p) = Unread(y - x, x)
      BY <1>1, <3>3 DEF Hello, Place
    <3> HIDE DEF x, y, up, role
    <3>5. Reads(up, role, x, y)
      BY <1>3, <1>4, <2>2, <3>2, <3>4 DEF Reads
    <3>6. ReadsRight(up, role, x, y)
      BY <3>5, ReadPlace
    <3> QED BY <3>6 DEF ReadsRight
  <2> QED BY <1>1, <2>1, <2>2
<1>6. PeerPlace(p, q)' = y
  BY <1>2 DEF PeerPlace
<1>7. PeerPlace(q, p)' = PeerPlace(q, p) + 1
  <2>1. Count(p, q) \in Int
    BY CountFacts
  <2>2. worker[q][p].session \in 1..2
    BY JointFacts
  <2>3. worker'[q][p] = worker[q][p]
    BY <1>2
  <2> QED BY <1>2, <2>1, <2>2, <2>3 DEF PeerPlace
<1>8. Role(p, q)' = role /\ \A r, s \in Party : <<r, s>> # <<p, q>> => Role(r, s)' = Role(r, s)
  BY <1>2 DEF Role
<1>9. Met(p, q)'
  <2>1. CASE x < 5
    BY <1>2, <1>5, <1>6, <1>8, <2>1 DEF Met
  <2>2. CASE x = 5
    BY <1>2, <2>2 DEF Met, Between
  <2> QED BY <1>3, <2>1, <2>2
<1>10. Met(q, p)'
  <2> SUFFICES ASSUME worker[q][p].at = "open"
               PROVE  <<prelude'[q][p], PeerPlace(q, p)'>> \in Places(p > q, Role(q, p)')
    BY <1>2 DEF Met
  <2>1. ~Behind(p, q)
    BY BehindOne
  <2>2. y < 6 /\ prelude'[q][p] = y /\ PeerPlace(q, p)' = x + 1 /\ Role(q, p)' = Other(role)
    <3>1. y \in 0..6 /\ y # 6
      BY <1>3, <2>1
    <3>2. y < 6
      BY <3>1
    <3> QED BY <1>2, <1>3, <1>7, <1>8, <3>2
  <2> HIDE DEF x, y, up, role
  <2> QED BY <1>4, <1>5, <2>2 DEF up
<1>11. MeetInv'
  <2>1. ASSUME NEW r \in Party, NEW s \in Party, <<r, s>> # <<p, q>>, <<r, s>> # <<q, p>>
        PROVE  Met(r, s)'
    <3>1. <<s, r>> # <<p, q>> /\ Met(r, s)
      BY <2>1 DEF WireInv, MeetInv
    <3>2. PeerPlace(r, s)' = PeerPlace(r, s)
      BY <1>2, <2>1, <3>1 DEF PeerPlace
    <3> QED BY <1>2, <1>8, <2>1, <3>1, <3>2 DEF Met
  <2> QED BY <1>9, <1>10, <2>1 DEF MeetInv
<1>12. RestInv'
  <2>1. x < 5 => worker'[p][q].at = "open"
    BY <1>1, <1>2
  <2> QED BY <1>2, <1>3, <2>1 DEF WireInv, RestInv
<1>13. WireTypes'
  <2>1. MP!Matrix(chan)'
    BY HandshakeLines
  <2>2. MP!Matrix(omega)'
    BY <1>1 DEF WireInv, WireTypes, MP!Matrix, Enter, MP!Party, Party
  <2>3. worker' \in [Party -> [Party -> [session : {1, 2}, at : Steps]]]
    <3>1. worker' = worker \/ worker' = [worker EXCEPT ![p][q].at = FirstStep(role)]
      BY <1>2, <1>3
    <3>2. FirstStep(role) \in Steps
      BY DEF FirstStep, Steps
    <3>3. worker \in [Party -> [Party -> [session : {1, 2}, at : Steps]]]
      BY DEF WireInv, WireTypes
    <3> HIDE DEF role
    <3>4. [worker EXCEPT ![p][q].at = FirstStep(role)]
            \in [Party -> [Party -> [session : {1, 2}, at : Steps]]]
      BY <3>2, <3>3, EntryType
    <3> QED BY <3>1, <3>3, <3>4
  <2>4. prelude' \in [Party -> [Party -> 0..5]]
    <3>1. \/ prelude' = [prelude EXCEPT ![p][q] = x + 1] /\ x < 5
          \/ prelude' = [prelude EXCEPT ![p][q] = 0]
      BY HandshakeStep DEF Enter
    <3> DEFINE z == IF x < 5 THEN x + 1 ELSE 0
    <3>2. z \in 0..5
      BY <1>3
    <3>3. prelude' = [prelude EXCEPT ![p][q] = z] \/ prelude' = [prelude EXCEPT ![p][q] = 0]
      BY <3>1
    <3>4. prelude \in [Party -> [Party -> 0..5]] /\ 0 \in 0..5
      BY DEF WireInv, WireTypes
    <3> HIDE DEF x, z
    <3> QED BY <3>2, <3>3, <3>4
  <2> QED BY <2>1, <2>2, <2>3, <2>4 DEF WireTypes
<1> QED BY <1>11, <1>12, <1>13

(* Two matrices that agree but for one entry, or for two.                  *)
LEMMA OneEntry ==
    ASSUME NEW f, NEW g, f = [r \in Party |-> [s \in Party |-> f[r][s]]],
           g = [r \in Party |-> [s \in Party |-> g[r][s]]],
           NEW p \in Party, NEW q \in Party,
           \A r, s \in Party : <<r, s>> # <<p, q>> => g[r][s] = f[r][s]
    PROVE  g = [f EXCEPT ![p][q] = g[p][q]]
PROOF
<1> DEFINE h == [f EXCEPT ![p][q] = g[p][q]]
<1>1. /\ h = [r \in Party |-> [s \in Party |-> h[r][s]]]
      /\ \A r, s \in Party : h[r][s] = IF r = p /\ s = q THEN g[p][q] ELSE f[r][s]
  OBVIOUS
<1> HIDE DEF h
<1>2. \A r, s \in Party : h[r][s] = g[r][s]
  BY <1>1
<1>3. [r \in Party |-> [s \in Party |-> h[r][s]]] = [r \in Party |-> [s \in Party |-> g[r][s]]]
  BY <1>2
<1>4. h = g
  BY <1>1, <1>3
<1> QED BY <1>4 DEF h

LEMMA TwoEntries ==
    ASSUME NEW f, NEW g, f = [r \in Party |-> [s \in Party |-> f[r][s]]],
           g = [r \in Party |-> [s \in Party |-> g[r][s]]],
           NEW p \in Party, NEW q \in Party, p # q,
           \A r, s \in Party : <<r, s>> # <<p, q>> /\ <<r, s>> # <<q, p>> => g[r][s] = f[r][s]
    PROVE  g = [f EXCEPT ![p][q] = g[p][q], ![q][p] = g[q][p]]
PROOF
<1> DEFINE h == [f EXCEPT ![p][q] = g[p][q]]
<1>1. /\ h = [r \in Party |-> [s \in Party |-> h[r][s]]]
      /\ \A r, s \in Party : h[r][s] = IF r = p /\ s = q THEN g[p][q] ELSE f[r][s]
  OBVIOUS
<1> DEFINE e == [h EXCEPT ![q][p] = g[q][p]]
<1>2. [f EXCEPT ![p][q] = g[p][q], ![q][p] = g[q][p]] = e
  OBVIOUS
<1> HIDE DEF h
<1>3. /\ e = [r \in Party |-> [s \in Party |-> e[r][s]]]
      /\ \A r, s \in Party : e[r][s] = IF r = q /\ s = p THEN g[q][p] ELSE h[r][s]
  <2>1. DOMAIN h = Party /\ \A r \in Party : h[r] = [s \in Party |-> h[r][s]]
    BY <1>1
  <2>2. e = [r \in Party |-> [s \in Party |-> e[r][s]]]
    BY <2>1
  <2>3. \A r, s \in Party : e[r][s] = IF r = q /\ s = p THEN g[q][p] ELSE h[r][s]
    BY <2>1
  <2> QED BY <2>2, <2>3
<1> HIDE DEF e
<1>4. \A r, s \in Party : e[r][s] = g[r][s]
  BY <1>1, <1>3
<1>5. [r \in Party |-> [s \in Party |-> e[r][s]]] = [r \in Party |-> [s \in Party |-> g[r][s]]]
  BY <1>4
<1>6. e = g
  BY <1>3, <1>5
<1> QED BY <1>2, <1>6

LEMMA JointMatrix ==
    /\ JointWorker = [r \in Party |-> [s \in Party |-> JointWorker[r][s]]]
    /\ JointOmega = [r \in Party |-> [s \in Party |-> JointOmega[r][s]]]
    /\ JointChan = [r \in Party |-> [s \in Party |-> JointChan[r][s]]]
    /\ JointWorker' = [r \in Party |-> [s \in Party |-> JointWorker'[r][s]]]
    /\ JointOmega' = [r \in Party |-> [s \in Party |-> JointOmega'[r][s]]]
    /\ JointChan' = [r \in Party |-> [s \in Party |-> JointChan'[r][s]]]
BY DEF JointWorker, JointOmega, JointChan

(* A pair that does not move looks to Mpsi as before.                      *)
LEMMA PairKept ==
    ASSUME NEW r \in Party, NEW s \in Party,
           worker'[r][s] = worker[r][s], worker'[s][r] = worker[s][r]
    PROVE  /\ Behind(r, s)' = Behind(r, s)
           /\ JointWorker'[r][s] = JointWorker[r][s]
           /\ omega'[r][s] = omega[r][s] => JointOmega'[r][s] = JointOmega[r][s]
PROOF
<1>1. Role(r, s)' = Role(r, s)
  BY DEF Role
<1>2. Behind(r, s)' = Behind(r, s)
  BY DEF Behind, Past
<1>3. Drawn(r, s)' = Drawn(r, s)
  BY <1>1 DEF Drawn, Fresh
<1>4. JointWorker'[r][s] = IF Behind(r, s)'
        THEN [worker'[r][s] EXCEPT !.at = FirstStep(Role(r, s)')] ELSE worker'[r][s]
  BY DEF JointWorker
<1>5. JointOmega'[r][s] = IF Behind(r, s)' THEN Drawn(r, s)' ELSE omega'[r][s]
  BY DEF JointOmega
<1> QED BY <1>1, <1>2, <1>3, <1>4, <1>5, JointEntry

(* The last step of a VOLE: the sender's is the joint step of Mpsi, the    *)
(* receiver's follows it.                                                  *)
LEMMA LastPlaces ==
    ASSUME WireInv, NEW p \in Party, NEW q \in Party, Vole(p, q), prelude[p][q] = 5
    PROVE  \/ Role(p, q) = "snd" /\ PeerPlace(p, q) = 5
           \/ Role(p, q) = "rcv" /\ PeerPlace(p, q) = 6
PROOF
<1> DEFINE y == PeerPlace(p, q)
           up == q > p
           role == Role(p, q)
<1>1. /\ worker[p][q].at = "open"
      /\ \/ OpAt(up, role, 5) = "send"
         \/ OpAt(up, role, 5) = "recv" /\ chan[q][p] # <<>>
  BY HandshakeStep
<1>2. /\ y \in 0..6 /\ <<5, y>> \in Places(up, role) /\ role \in {"snd", "rcv"}
      /\ Count(p, q) - Count(q, p) = 5 - y
  BY <1>1, Seat
<1>3. up \in BOOLEAN /\ 5 \in 0..5
  OBVIOUS
<1>4. CASE OpAt(up, role, 5) = "send"
  <2> HIDE DEF y, up, role
  <2>1. role = "snd" /\ y = 5
    BY <1>2, <1>3, <1>4, SendPlace
  <2> QED BY <2>1 DEF y, role
<1>5. CASE OpAt(up, role, 5) = "recv" /\ chan[q][p] # <<>>
  <2>1. JointChan[q][p] = <<>> /\ Hello(q, p) \in Seq(Bytes)
    BY <1>1, NoPayload, LineSplit
  <2>2. chan[q][p] = Hello(q, p)
    <3>1. chan[q][p] = JointChan[q][p] \o Hello(q, p)
      BY LineSplit
    <3> QED BY <2>1, <3>1, ConcatEmptySeq
  <2>3. Count(q, p) - Count(p, q) = y - 5
    <3>1. Count(p, q) \in Int /\ Count(q, p) \in Int
      BY CountFacts
    <3> HIDE DEF y
    <3> QED BY <1>2, <3>1
  <2>4. Hello(q, p) = Unread(y - 5, 5)
    BY <1>1, <2>3 DEF Hello, Place
  <2>5. Unread(y - 5, 5) # <<>>
    BY <1>5, <2>2, <2>4
  <2> HIDE DEF y, up, role
  <2>6. role = "rcv" /\ y = 6
    <3>1. Reads(up, role, 5, y)
      BY <1>2, <1>3, <1>5, <2>5 DEF Reads
    <3>2. ReadsRight(up, role, 5, y)
      BY <3>1, ReadPlace
    <3> QED BY <3>2 DEF ReadsRight
  <2> QED BY <2>6 DEF y, role
<1> QED BY <1>1, <1>4, <1>5

LEMMA HandshakeJoint ==
    ASSUME WireInv, NEW p \in Party, NEW q \in Party, Sync(p, q) \/ Vole(p, q)
    PROVE  [MP!Next]_MP!vars
PROOF
<1>1. /\ worker[p][q].at = "open"
      /\ \/ prelude[p][q] < 5 /\ UNCHANGED <<worker, omega>>
         \/ prelude[p][q] = 5 /\ Enter(p, q)
      /\ UNCHANGED <<main, senderOprf, receiverOprf, mask, values, heard, result>>
  BY HandshakeStep
<1>2. JointChan' = JointChan
  BY HandshakeLines
<1>3. CASE prelude[p][q] < 5
  <2>1. UNCHANGED <<worker, omega>>
    BY <1>1, <1>3
  <2>2. JointWorker' = JointWorker
    BY <2>1, PairKept DEF JointWorker
  <2>3. JointOmega' = JointOmega
    BY <2>1, PairKept DEF JointOmega
  <2> QED BY <1>1, <1>2, <2>2, <2>3 DEF MP!vars, MP!threads
<1>4. CASE prelude[p][q] = 5 /\ Enter(p, q)
  <2>1. Vole(p, q)
    <3>1. prelude[p][q] = 5 /\ Role(p, q) \in {"snd", "rcv"}
      BY <1>1, <1>4, Seat
    <3>2. Len(SyncOps(p, q)) = 4
      BY <3>1, NextOpAt
    <3>3. ~Sync(p, q)
      BY <3>1, <3>2 DEF Sync, InSync
    <3> QED BY <3>3
  <2>2. /\ DOMAIN omega = Party /\ \A r \in Party : DOMAIN omega[r] = Party
        /\ worker \in [Party -> [Party -> [session : {1, 2}, at : Steps]]]
    BY SameParties DEF WireInv, WireTypes, MP!Matrix
  <2>3. /\ worker' = [worker EXCEPT ![p][q].at = FirstStep(Role(p, q))]
        /\ omega' = [omega EXCEPT ![p][q] = Drawn(p, q)]
    BY <1>4 DEF Enter, Goto
  <2>4. /\ p # q
        /\ worker[q][p].at = "open" =>
             /\ worker[q][p].session = worker[p][q].session
             /\ PeerPlace(p, q) = prelude[q][p] /\ Role(q, p) = Other(Role(p, q))
        /\ PeerPlace(p, q) \in 1..5 => worker[q][p].at = "open"
        /\ PeerPlace(p, q) = 6 <=> Behind(p, q)
    <3>1. worker[p][q].at = "open"
      BY <1>1
    <3> QED BY <3>1, Seat
  <2>5. /\ worker'[p][q].at = FirstStep(Role(p, q)) /\ worker'[p][q].session = worker[p][q].session
        /\ omega'[p][q] = Drawn(p, q)
        /\ \A r, s \in Party : <<r, s>> # <<p, q>> =>
             worker'[r][s] = worker[r][s] /\ omega'[r][s] = omega[r][s]
    BY <2>2, <2>3
  <2>6. \A r, s \in Party : <<r, s>> # <<p, q>> /\ <<r, s>> # <<q, p>> =>
          JointWorker'[r][s] = JointWorker[r][s] /\ JointOmega'[r][s] = JointOmega[r][s]
    <3> SUFFICES ASSUME NEW r \in Party, NEW s \in Party, <<r, s>> # <<p, q>>, <<r, s>> # <<q, p>>
                 PROVE  JointWorker'[r][s] = JointWorker[r][s] /\ JointOmega'[r][s] = JointOmega[r][s]
      OBVIOUS
    <3>1. <<s, r>> # <<p, q>>
      OBVIOUS
    <3> QED BY <2>5, <3>1, PairKept
  <2>7. /\ JointWorker'[p][q] = worker'[p][q] /\ JointOmega'[p][q] = omega'[p][q]
        /\ Behind(p, q)' = FALSE
    <3>1. worker'[p][q].at # "open"
      BY <2>5 DEF FirstStep
    <3>2. ~Behind(p, q)'
      BY <3>1 DEF Behind
    <3> QED BY <3>2 DEF JointWorker, JointOmega
  <2>8. CASE Role(p, q) = "rcv" /\ PeerPlace(p, q) = 6
    <3>1. Behind(p, q)
      BY <2>4, <2>8
    <3>2. worker[q][p].at # "open" /\ ~Behind(q, p)
      BY <3>1, JointFacts DEF Between
    <3>3. JointWorker'[p][q] = JointWorker[p][q] /\ JointOmega'[p][q] = JointOmega[p][q]
      <4>1. worker'[p][q] = [worker[p][q] EXCEPT !.at = FirstStep(Role(p, q))]
        BY <2>2, <2>3
      <4> QED BY <2>5, <2>7, <3>1, <4>1, JointEntry
    <3>4. JointWorker'[q][p] = JointWorker[q][p] /\ JointOmega'[q][p] = JointOmega[q][p]
      <4>1. worker'[q][p] = worker[q][p] /\ omega'[q][p] = omega[q][p]
        BY <2>4, <2>5
      <4>2. ~Behind(q, p)'
        BY <3>2, <4>1 DEF Behind
      <4>3. JointWorker'[q][p] = worker'[q][p] /\ JointOmega'[q][p] = omega'[q][p]
        BY <4>2 DEF JointWorker, JointOmega
      <4> QED BY <3>2, <4>1, <4>3, JointEntry
    <3>5. JointWorker' = JointWorker
      BY <2>6, <3>3, <3>4 DEF JointWorker
    <3>6. JointOmega' = JointOmega
      BY <2>6, <3>3, <3>4 DEF JointOmega
    <3> QED BY <1>1, <1>2, <3>5, <3>6 DEF MP!vars, MP!threads
  <2>9. CASE Role(p, q) = "snd" /\ PeerPlace(p, q) = 5
    <3>1. /\ worker[q][p].at = "open" /\ worker[q][p].session = worker[p][q].session
          /\ Role(q, p) = "rcv" /\ ~Behind(p, q)
      BY <2>4, <2>9 DEF Other
    <3>2. ~Behind(q, p)
      BY <1>1 DEF Behind, Past
    <3>3. /\ JointWorker[p][q] = worker[p][q] /\ JointWorker[q][p] = worker[q][p]
          /\ JointOmega[p][q] = omega[p][q] /\ JointOmega[q][p] = omega[q][p]
      BY <3>1, <3>2, JointEntry
    <3>4. worker'[q][p] = worker[q][p] /\ Role(q, p)' = "rcv"
      BY <2>4, <2>5, <3>1 DEF Role
    <3>5. Behind(q, p)'
      <4>1. Past(p, q)'
        BY <2>5, <2>9 DEF Past, FirstStep
      <4> QED BY <2>5, <3>1, <3>4, <4>1 DEF Behind
    <3>6. /\ JointWorker'[q][p] = [worker[q][p] EXCEPT !.at = "sendOmega"]
          /\ JointOmega'[q][p] = {Fresh(q, p, q)}
      <4>1. FirstStep(Role(q, p)') = "sendOmega" /\ Drawn(q, p)' = {Fresh(q, p, q)}
        BY <3>4 DEF FirstStep, Drawn, Fresh
      <4> QED BY <3>4, <3>5, <4>1 DEF JointWorker, JointOmega
    <3>7. /\ JointWorker'[p][q] = [worker[p][q] EXCEPT !.at = "recvOmega"]
          /\ JointOmega'[p][q] = {Fresh(p, p, q)}
      <4>1. worker'[p][q] = [worker[p][q] EXCEPT !.at = "recvOmega"]
        BY <2>2, <2>3, <2>9 DEF FirstStep
      <4> QED BY <2>5, <2>7, <2>9, <4>1 DEF Drawn
    <3>8. JointWorker' = [JointWorker EXCEPT ![p][q].at = "recvOmega", ![q][p].at = "sendOmega"]
      <4> DEFINE a == [JointWorker[p][q] EXCEPT !.at = "recvOmega"]
                 b == [JointWorker[q][p] EXCEPT !.at = "sendOmega"]
      <4>1. JointWorker'[p][q] = a /\ JointWorker'[q][p] = b
        BY <3>3, <3>6, <3>7
      <4>2. [JointWorker EXCEPT ![p][q].at = "recvOmega", ![q][p].at = "sendOmega"]
              = [JointWorker EXCEPT ![p][q] = a, ![q][p] = b]
        BY <2>4, JointMatrix
      <4> HIDE DEF a, b
      <4>3. JointWorker' = [JointWorker EXCEPT ![p][q] = a, ![q][p] = b]
        BY <2>4, <2>6, <4>1, JointMatrix, TwoEntries
      <4> QED BY <4>2, <4>3
    <3>9. JointOmega' = [JointOmega EXCEPT ![p][q] = {Fresh(p, p, q)}, ![q][p] = {Fresh(q, p, q)}]
      BY <2>4, <2>6, <3>6, <3>7, JointMatrix, TwoEntries
    <3>10. MP!Running(p, q, "snd", "open") /\ MP!Running(q, p, "rcv", "open")
      BY <1>1, <2>9, <3>1, <3>3, SameParties DEF MP!Running, Role
    <3>11. MP!OpenSession(p, q)
      BY <1>1, <1>2, <3>8, <3>9, <3>10, SameOperators DEF MP!OpenSession
    <3> QED BY <3>11, SameParties DEF MP!Next, MP!Step, MP!Worker
  <2> QED BY <2>1, <1>4, <2>8, <2>9, LastPlaces
<1> QED BY <1>1, <1>3, <1>4

LEMMA HandshakeInv ==
    ASSUME WireInv, NEW p \in Party, NEW q \in Party, Sync(p, q) \/ Vole(p, q)
    PROVE  WireInv' /\ [MP!Next]_MP!vars
PROOF
<1>1. [MP!Next]_MP!vars
  BY HandshakeJoint
<1>2. MP!Inv' /\ MP!MasksFirst'
  BY <1>1, JointNext DEF WireInv
<1>3. MeetInv' /\ RestInv' /\ WireTypes' /\ LinesInv'
  BY HandshakeLines, HandshakeMet
<1> QED BY <1>1, <1>2, <1>3 DEF WireInv
-----------------------------------------------------------------------------
(* Steps that are none of a handshake leave its bytes where they are.      *)
Resting ==
    \A r, s \in Party : Count(r, s)' = Count(r, s) /\ Place(r, s)' = Place(r, s)

LEMMA BytesRest ==
    ASSUME Resting, NEW r \in Party, NEW s \in Party
    PROVE  Hello(r, s)' = Hello(r, s)
PROOF
<1>1. /\ Count(r, s)' = Count(r, s) /\ Count(s, r)' = Count(s, r)
      /\ Place(s, r)' = Place(s, r)
  BY DEF Resting
<1> QED BY <1>1 DEF Hello, Unread, Byte, KindAt

LEMMA LinesRest ==
    ASSUME WireInv, Resting, chan' = chan
    PROVE  JointChan' = JointChan /\ LinesInv' /\ MP!Matrix(chan)'
PROOF
<1>1. \A r, s \in Party :
        JointChan'[r][s] = JointChan[r][s] /\ chan'[r][s] = JointChan'[r][s] \o Hello(r, s)'
  BY BytesRest, LineKept
<1>2. JointChan' = JointChan
  BY <1>1, JointMatrix
<1>3. MP!Matrix(chan)'
  BY DEF WireInv, WireTypes, MP!Matrix, MP!Party
<1> QED BY <1>1, <1>2, <1>3 DEF LinesInv

LEMMA WireSend ==
    ASSUME WireInv, Resting, NEW p \in Party, NEW q \in Party, Hello(p, q) = <<>>,
           NEW k \in Kinds, NEW b, Send(p, q, k, b)
    PROVE  MP!Send(p, q, k, b) /\ LinesInv' /\ MP!Matrix(chan)'
PROOF
<1> DEFINE m == [kind |-> k, body |-> b]
<1>1. Len(chan[p][q]) < Capacity /\ chan' = [chan EXCEPT ![p][q] = Append(@, m)]
  BY DEF Send
<1>2. DOMAIN chan = Party /\ \A r \in Party : DOMAIN chan[r] = Party
  BY SameParties DEF WireInv, WireTypes, MP!Matrix
<1>3. chan'[p][q] = Append(chan[p][q], m) /\ m.kind \in Kinds
  BY <1>1, <1>2
<1>4. /\ JointChan[p][q] = chan[p][q] /\ JointChan'[p][q] = Append(JointChan[p][q], m)
      /\ chan'[p][q] = JointChan'[p][q] \o Hello(p, q)
  <2> HIDE DEF m
  <2> QED BY <1>3, SendPayload
<1>5. ASSUME NEW r \in Party, NEW s \in Party, <<r, s>> # <<p, q>>
      PROVE  JointChan'[r][s] = JointChan[r][s] /\ chan'[r][s] = JointChan'[r][s] \o Hello(r, s)'
  <2>1. chan'[r][s] = chan[r][s]
    BY <1>1, <1>2, <1>5
  <2> QED BY <2>1, BytesRest, LineKept
<1>6. LinesInv'
  <2>1. Hello(p, q)' = Hello(p, q)
    BY BytesRest
  <2>2. \A r, s \in Party : chan'[r][s] = JointChan'[r][s] \o Hello(r, s)'
    BY <1>4, <1>5, <2>1
  <2> QED BY <2>2 DEF LinesInv
<1>7. JointChan' = [JointChan EXCEPT ![p][q] = Append(@, m)]
  <2> HIDE DEF m
  <2>1. JointChan' = [JointChan EXCEPT ![p][q] = JointChan'[p][q]]
    BY <1>5, JointMatrix, OneEntry
  <2> QED BY <1>4, <2>1
<1>8. MP!Matrix(chan)'
  BY <1>1, <1>2, SameParties DEF MP!Matrix
<1>9. MP!Send(p, q, k, b)
  BY <1>1, <1>4, <1>7 DEF MP!Send
<1> QED BY <1>6, <1>8, <1>9

LEMMA WireReceive ==
    ASSUME WireInv, Resting, NEW p \in Party, NEW q \in Party,
           NEW k \in Kinds, Pending(p, q, k), Consume(p, q)
    PROVE  /\ MP!Pending(p, q, k) /\ MP!Consume(p, q) /\ MP!Received(p, q) = Received(p, q)
           /\ LinesInv' /\ MP!Matrix(chan)'
PROOF
<1>1. chan[q][p] # <<>> /\ Head(chan[q][p]).kind = k /\ chan' = [chan EXCEPT ![q][p] = Tail(@)]
  BY DEF Pending, Consume
<1>2. DOMAIN chan = Party /\ \A r \in Party : DOMAIN chan[r] = Party
  BY SameParties DEF WireInv, WireTypes, MP!Matrix
<1>3. chan'[q][p] = Tail(chan[q][p])
  BY <1>1, <1>2
<1>4. /\ JointChan[q][p] # <<>> /\ Head(JointChan[q][p]) = Head(chan[q][p])
      /\ JointChan'[q][p] = Tail(JointChan[q][p])
      /\ chan'[q][p] = JointChan'[q][p] \o Hello(q, p)
  BY <1>1, <1>3, ReadPayload
<1>5. ASSUME NEW r \in Party, NEW s \in Party, <<r, s>> # <<q, p>>
      PROVE  JointChan'[r][s] = JointChan[r][s] /\ chan'[r][s] = JointChan'[r][s] \o Hello(r, s)'
  <2>1. chan'[r][s] = chan[r][s]
    BY <1>1, <1>2, <1>5
  <2> QED BY <2>1, BytesRest, LineKept
<1>6. LinesInv'
  <2>1. Hello(q, p)' = Hello(q, p)
    BY BytesRest
  <2>2. \A r, s \in Party : chan'[r][s] = JointChan'[r][s] \o Hello(r, s)'
    BY <1>4, <1>5, <2>1
  <2> QED BY <2>2 DEF LinesInv
<1>7. JointChan' = [JointChan EXCEPT ![q][p] = Tail(@)]
  <2>1. JointChan' = [JointChan EXCEPT ![q][p] = JointChan'[q][p]]
    BY <1>5, JointMatrix, OneEntry
  <2> QED BY <1>4, <2>1
<1>8. MP!Matrix(chan)'
  BY <1>1, <1>2, SameParties DEF MP!Matrix
<1>9. MP!Pending(p, q, k) /\ MP!Consume(p, q) /\ MP!Received(p, q) = Received(p, q)
  BY <1>1, <1>4, <1>7 DEF MP!Pending, MP!Consume, MP!Received, Received
<1> QED BY <1>6, <1>8, <1>9
-----------------------------------------------------------------------------
(* A worker in a session is level with its peer: what it does, Mpsi's      *)
(* worker does.                                                            *)
LEMMA SessionNow ==
    ASSUME WireInv, NEW p \in Party, NEW q \in Party, InSession(p, q)
    PROVE  /\ worker[p][q].at \in Between /\ Roles(p, q) # <<>> /\ p # q
           /\ worker[p][q].session \in 1..Len(Roles(p, q))
           /\ ~Behind(p, q) /\ ~Behind(q, p) /\ Hello(p, q) = <<>>
           /\ JointWorker[p][q] = worker[p][q] /\ JointOmega[p][q] = omega[p][q]
           /\ \A role, a : Running(p, q, role, a) <=> MP!Running(p, q, role, a)
PROOF
<1>1. worker[p][q].at \in Between
  BY DEF InSession, RcvSendOmega, SndRecvOmega, SndSendOmega, RcvRecvOmega, RcvSendAPrime,
         SndRecvAPrime, Running, Between
<1>2. worker[p][q].at # "open" /\ ~Behind(p, q)
  BY <1>1 DEF Between, Behind
<1>3. Roles(p, q) # <<>>
  BY <1>1, AtRoles DEF Between
<1>4. p # q /\ worker[p][q].session \in 1..Len(Roles(p, q))
  BY <1>3, PairRoles, AtRoles
<1>5. ~Behind(q, p)
  <2> SUFFICES ASSUME Behind(q, p) PROVE FALSE
    OBVIOUS
  <2>1. /\ Role(q, p) = "rcv" /\ worker[p][q].at = "recvOmega"
        /\ JointChan[q][p] = <<>> /\ Hello(q, p) = <<>>
    BY BehindFacts
  <2>2. worker[p][q].session = worker[q][p].session
    BY DEF Behind
  <2>3. Role(p, q) = "snd"
    BY <1>4, <2>1, <2>2, PairRoles DEF Role
  <2>4. chan[q][p] # <<>>
    BY <2>1, <2>3 DEF InSession, RcvSendOmega, SndRecvOmega, SndSendOmega, RcvRecvOmega,
         RcvSendAPrime, SndRecvAPrime, Running, Role, Pending
  <2>5. chan[q][p] = JointChan[q][p] \o Hello(q, p)
    BY LineSplit
  <2>6. <<>> \o <<>> = <<>>
    BY ConcatEmptySeq
  <2> QED BY <2>1, <2>4, <2>5, <2>6
<1>6. Hello(p, q) = <<>>
  BY <1>2, <1>5, NothingUnread
<1>7. JointWorker[p][q] = worker[p][q] /\ JointOmega[p][q] = omega[p][q]
  BY <1>2, JointEntry
<1>8. \A role, a : Running(p, q, role, a) <=> MP!Running(p, q, role, a)
  BY <1>7, SameParties DEF Running, MP!Running
<1> QED BY <1>1, <1>2, <1>3, <1>4, <1>5, <1>6, <1>7, <1>8

(* Where the worker goes.                                                  *)
LEMMA SessionGoes ==
    ASSUME WireInv, NEW p \in Party, NEW q \in Party, InSession(p, q)
    PROVE  \E w \in [session : {1, 2}, at : Steps] :
             /\ worker' = [worker EXCEPT ![p][q] = w]
             /\ \/ w.session = worker[p][q].session /\ w.at \in {"done"} \cup Between
                \/ /\ w.session = worker[p][q].session + 1 /\ w.at = "open"
                   /\ w.session <= Len(Roles(p, q))
                   /\ worker[p][q].at \in {"sendAPrime", "recvAPrime"}
PROOF
<1>1. worker[p][q] \in [session : {1, 2}, at : Steps]
  BY JointFacts
<1>2. worker[p][q].session \in 1..Len(Roles(p, q)) /\ Len(Roles(p, q)) \in 0..2
  BY SessionNow, PairRoles
<1>3. ASSUME NEW a \in Between, Goto(p, q, a)
      PROVE  /\ [worker[p][q] EXCEPT !.at = a] \in [session : {1, 2}, at : Steps]
             /\ worker' = [worker EXCEPT ![p][q] = [worker[p][q] EXCEPT !.at = a]]
             /\ [worker[p][q] EXCEPT !.at = a].session = worker[p][q].session
             /\ [worker[p][q] EXCEPT !.at = a].at = a
  BY <1>1, <1>3 DEF Goto, Between, Steps
<1>4. CASE \E a \in Between : Goto(p, q, a)
  BY <1>3, <1>4
<1>5. CASE Leave(p, q) /\ worker[p][q].at \in {"sendAPrime", "recvAPrime"}
  <2>1. CASE worker[p][q].session < Len(Roles(p, q))
    <3> DEFINE w == [session |-> worker[p][q].session + 1, at |-> "open"]
    <3>1. worker' = [worker EXCEPT ![p][q] = w]
      BY <1>5, <2>1 DEF Leave
    <3>2. worker[p][q].session + 1 \in {1, 2} /\ worker[p][q].session + 1 <= Len(Roles(p, q))
      <4>1. \A n \in 0..2 : \A a \in 1..n : a < n => a + 1 \in {1, 2} /\ a + 1 <= n
        OBVIOUS
      <4> QED BY <1>2, <2>1, <4>1
    <3>3. /\ w \in [session : {1, 2}, at : Steps] /\ w.at = "open"
          /\ w.session = worker[p][q].session + 1
      BY <3>2 DEF Steps
    <3> HIDE DEF w
    <3> QED BY <1>5, <3>1, <3>2, <3>3
  <2>2. CASE ~(worker[p][q].session < Len(Roles(p, q)))
    <3> DEFINE w == [worker[p][q] EXCEPT !.at = "done"]
    <3>1. worker' = [worker EXCEPT ![p][q] = w]
      BY <1>5, <2>2 DEF Leave
    <3>2. /\ w \in [session : {1, 2}, at : Steps] /\ w.at = "done"
          /\ w.session = worker[p][q].session
      BY <1>1 DEF Steps
    <3> HIDE DEF w
    <3> QED BY <3>1, <3>2
  <2> QED BY <2>1, <2>2
<1> QED BY <1>4, <1>5 DEF InSession, RcvSendOmega, SndRecvOmega, SndSendOmega, RcvRecvOmega,
         RcvSendAPrime, SndRecvAPrime, Running, Between

LEMMA SessionMoves ==
    ASSUME WireInv, NEW p \in Party, NEW q \in Party, InSession(p, q), prelude' = prelude
    PROVE  /\ Resting /\ MeetInv' /\ RestInv'
           /\ worker' \in [Party -> [Party -> [session : {1, 2}, at : Steps]]]
           /\ \A a : Goto(p, q, a) => MP!Goto(p, q, a)
           /\ Leave(p, q) => MP!Leave(p, q)
           /\ omega' = omega => JointOmega' = JointOmega
           /\ \A o : omega' = [omega EXCEPT ![p][q] = o]
                 => JointOmega' = [JointOmega EXCEPT ![p][q] = o]
PROOF
<1> DEFINE k == worker[p][q].session
<1>1. /\ worker[p][q].at \in Between /\ Roles(p, q) # <<>> /\ p # q /\ k \in 1..Len(Roles(p, q))
      /\ ~Behind(p, q) /\ ~Behind(q, p)
      /\ JointWorker[p][q] = worker[p][q] /\ JointOmega[p][q] = omega[p][q]
  BY SessionNow
<1>2. PICK w \in [session : {1, 2}, at : Steps] :
        /\ worker' = [worker EXCEPT ![p][q] = w]
        /\ \/ w.session = k /\ w.at \in {"done"} \cup Between
           \/ /\ w.session = k + 1 /\ w.at = "open" /\ w.session <= Len(Roles(p, q))
              /\ worker[p][q].at \in {"sendAPrime", "recvAPrime"}
  BY SessionGoes
<1>3. /\ worker \in [Party -> [Party -> [session : {1, 2}, at : Steps]]]
      /\ prelude \in [Party -> [Party -> 0..5]]
      /\ DOMAIN omega = Party /\ \A r \in Party : DOMAIN omega[r] = Party
  BY SameParties DEF WireInv, WireTypes, MP!Matrix
<1>4. /\ worker' \in [Party -> [Party -> [session : {1, 2}, at : Steps]]]
      /\ worker'[p][q] = w
      /\ \A r, s \in Party : <<r, s>> # <<p, q>> => worker'[r][s] = worker[r][s]
  BY <1>2, <1>3
<1>5. prelude[p][q] = 0 /\ prelude'[p][q] = 0
  BY <1>1 DEF WireInv, RestInv, Between
<1>6. k \in 1..2 /\ Count(p, q) = 6 * k
  BY <1>1, CountFacts
<1>7. Count(p, q)' = Count(p, q) /\ Place(p, q)' = Place(p, q)
  <2>1. CASE w.session = k /\ w.at \in {"done"} \cup Between
    <3>1. Count(p, q)' = 6 * (k - 1) + 6
      BY <1>4, <2>1 DEF Count, Between
    <3> HIDE DEF k
    <3>2. Count(p, q)' = Count(p, q)
      BY <1>6, <3>1
    <3> QED BY <1>1, <1>4, <2>1, <3>2 DEF Place, Between
  <2>2. CASE w.session = k + 1 /\ w.at = "open"
    <3>1. Count(p, q)' = 6 * (w.session - 1) + 0
      BY <1>4, <1>5, <2>2 DEF Count
    <3> HIDE DEF k
    <3>2. Count(p, q)' = Count(p, q)
      BY <1>6, <2>2, <3>1
    <3> QED BY <1>1, <1>4, <1>5, <2>2, <3>2 DEF Place, Between
  <2> QED BY <1>2, <2>1, <2>2
<1>8. Resting
  <2>1. ASSUME NEW r \in Party, NEW s \in Party
        PROVE  Count(r, s)' = Count(r, s) /\ Place(r, s)' = Place(r, s)
    <3>1. CASE <<r, s>> = <<p, q>>
      BY <1>7, <3>1
    <3>2. CASE <<r, s>> # <<p, q>>
      BY <1>4, <3>2 DEF Count, Place
    <3> QED BY <3>1, <3>2
  <2> QED BY <2>1 DEF Resting
<1>9. MP!Pace(JointWorker[p][q], JointWorker[q][p])
  BY <1>1, PairPace DEF WireInv
<1>10. JointWorker[q][p] = worker[q][p]
  BY <1>1, JointEntry
(* The peer of a worker that begins its second session is not past it.     *)
<1>11. ASSUME w.session = k + 1, w.at = "open"
       PROVE  \/ worker[q][p].session = k /\ worker[q][p].at \in {"done"} \cup Between
              \/ worker[q][p].session = k + 1 /\ worker[q][p].at = "open"
  <2>1. worker[p][q].at \in {"sendAPrime", "recvAPrime"} /\ k + 1 <= Len(Roles(p, q))
    BY <1>2, <1>6, <1>11 DEF Between
  <2> QED BY <1>1, <1>6, <1>9, <1>10, <2>1 DEF MP!Pace, MP!Between, Between
<1>12. ~Behind(p, q)' /\ ~Behind(q, p)'
  <2>1. worker'[q][p] = worker[q][p]
    BY <1>1, <1>4
  <2>2. CASE w.session = k /\ w.at \in {"done"} \cup Between
    <3>1. ~Behind(p, q)'
      BY <1>4, <2>2 DEF Behind, Between
    <3>2. ~Behind(q, p)'
      BY <1>1, <1>4, <2>1, <2>2 DEF Behind, Past, Between
    <3> QED BY <3>1, <3>2
  <2>3. CASE w.session = k + 1 /\ w.at = "open"
    <3>1. ~Behind(q, p)'
      BY <1>4, <2>3 DEF Behind, Past
    <3>2. ~Behind(p, q)'
      BY <1>4, <1>6, <1>11, <2>1, <2>3 DEF Behind, Past
    <3> QED BY <3>1, <3>2
  <2> QED BY <1>2, <2>2, <2>3
<1>13. JointWorker'[p][q] = worker'[p][q] /\ JointOmega'[p][q] = omega'[p][q]
  BY <1>12 DEF JointWorker, JointOmega
<1>14. ASSUME NEW r \in Party, NEW s \in Party, <<r, s>> # <<p, q>>
       PROVE  /\ JointWorker'[r][s] = JointWorker[r][s]
              /\ omega'[r][s] = omega[r][s] => JointOmega'[r][s] = JointOmega[r][s]
  <2>1. CASE <<r, s>> # <<q, p>>
    <3>1. worker'[r][s] = worker[r][s] /\ worker'[s][r] = worker[s][r]
      BY <1>4, <1>14, <2>1
    <3> QED BY <3>1, PairKept
  <2>2. CASE r = q /\ s = p
    <3>1. worker'[q][p] = worker[q][p]
      BY <1>1, <1>4
    <3>2. /\ JointWorker'[q][p] = worker'[q][p] /\ JointOmega'[q][p] = omega'[q][p]
          /\ JointWorker[q][p] = worker[q][p] /\ JointOmega[q][p] = omega[q][p]
      BY <1>1, <1>12, JointEntry DEF JointWorker, JointOmega
    <3> QED BY <2>2, <3>1, <3>2
  <2> QED BY <2>1, <2>2
<1>15. JointWorker' = [JointWorker EXCEPT ![p][q] = worker'[p][q]]
  <2>1. JointWorker' = [JointWorker EXCEPT ![p][q] = JointWorker'[p][q]]
    BY <1>14, JointMatrix, OneEntry
  <2> QED BY <1>13, <2>1
<1>16. ASSUME NEW a, Goto(p, q, a) PROVE MP!Goto(p, q, a)
  <2>1. worker'[p][q] = [worker[p][q] EXCEPT !.at = a]
    BY <1>3, <1>16 DEF Goto
  <2>2. JointWorker' = [JointWorker EXCEPT ![p][q] = [JointWorker[p][q] EXCEPT !.at = a]]
    BY <1>1, <1>15, <2>1
  <2> QED BY <2>2, JointMatrix DEF MP!Goto
<1>17. ASSUME Leave(p, q) PROVE MP!Leave(p, q)
  <2>1. worker'[p][q] = IF worker[p][q].session < Len(Roles(p, q))
                          THEN [session |-> worker[p][q].session + 1, at |-> "open"]
                          ELSE [worker[p][q] EXCEPT !.at = "done"]
    BY <1>3, <1>17 DEF Leave
  <2>2. JointWorker' = [JointWorker EXCEPT ![p][q] =
                          IF JointWorker[p][q].session < Len(MP!Roles(p, q))
                            THEN [session |-> JointWorker[p][q].session + 1, at |-> "open"]
                            ELSE [JointWorker[p][q] EXCEPT !.at = "done"]]
    <3>1. MP!Roles(p, q) = Roles(p, q)
      BY SameParties
    <3> QED BY <1>1, <1>15, <2>1, <3>1
  <2> QED BY <2>2, JointMatrix DEF MP!Leave
<1>18. omega' = omega => JointOmega' = JointOmega
  <2> SUFFICES ASSUME omega' = omega PROVE JointOmega' = JointOmega
    OBVIOUS
  <2>1. JointOmega'[p][q] = JointOmega[p][q]
    BY <1>1, <1>13
  <2>2. \A r, s \in Party : JointOmega'[r][s] = JointOmega[r][s]
    BY <1>14, <2>1
  <2> QED BY <2>2, JointMatrix
<1>19. ASSUME NEW o, omega' = [omega EXCEPT ![p][q] = o]
       PROVE  JointOmega' = [JointOmega EXCEPT ![p][q] = o]
  <2>1. omega'[p][q] = o /\ \A r, s \in Party : <<r, s>> # <<p, q>> => omega'[r][s] = omega[r][s]
    BY <1>3, <1>19
  <2>2. JointOmega' = [JointOmega EXCEPT ![p][q] = JointOmega'[p][q]]
    BY <1>14, <2>1, JointMatrix, OneEntry
  <2> QED BY <1>13, <2>1, <2>2
<1>20. Met(p, q)'
  <2> SUFFICES ASSUME worker'[p][q].at = "open"
               PROVE  <<prelude'[p][q], PeerPlace(p, q)'>> \in Places(q > p, Role(p, q)')
    BY DEF Met
  <2>1. w.session = k + 1 /\ w.at = "open" /\ worker'[p][q].session = k + 1
    BY <1>2, <1>4 DEF Between
  <2>2. Count(q, p)' = Count(q, p) /\ PeerPlace(p, q)' = Count(q, p) - 6 * k
    <3>1. Count(q, p)' = Count(q, p) /\ PeerPlace(p, q)' = Count(q, p)' - 6 * ((k + 1) - 1)
      BY <1>8, <2>1 DEF Resting, PeerPlace
    <3>2. 6 * ((k + 1) - 1) = 6 * k
      BY <1>6
    <3> QED BY <3>1, <3>2
  <2>3. CASE worker[q][p].session = k /\ worker[q][p].at \in {"done"} \cup Between
    <3>1. Count(q, p) = 6 * k
      BY <2>3, CountFacts
    <3>2. PeerPlace(p, q)' = 0
      <4> HIDE DEF k
      <4> QED BY <1>6, <2>2, <3>1
    <3> QED BY <1>5, <3>2 DEF Places
  <2>4. CASE worker[q][p].session = k + 1 /\ worker[q][p].at = "open"
    <3>1. /\ PeerPlace(q, p) \in 0..6 /\ PeerPlace(q, p) \notin 1..5 /\ PeerPlace(q, p) # 6
          /\ <<prelude[q][p], PeerPlace(q, p)>> \in Places(p > q, Role(q, p))
          /\ Role(q, p) \in {"snd", "rcv"} /\ prelude[q][p] \in 0..5
      <4>1. worker[p][q].at # "open"
        BY <1>1 DEF Between
      <4> HIDE DEF k
      <4> QED BY <1>1, <2>4, <4>1, Seat
    <3>2. PeerPlace(q, p) = 0
      BY <3>1
    <3>3. Role(p, q)' = Other(Role(q, p))
      <4>1. k + 1 \in 1..Len(Roles(p, q))
        BY <1>2, <1>6, <2>1
      <4> QED BY <2>1, <2>4, <4>1, PairRoles DEF Role, Other
    <3>4. (q > p) = ~(p > q)
      <4>1. p \in Int /\ q \in Int
        BY NAssumption DEF Party
      <4> QED BY <1>1, <4>1
    <3>5. Count(q, p) = 6 * ((k + 1) - 1) + prelude[q][p]
      BY <2>4, CountFacts
    <3>6. PeerPlace(p, q)' = prelude[q][p]
      <4> HIDE DEF k
      <4> QED BY <1>6, <2>2, <3>1, <3>5
    <3>7. <<0, prelude[q][p]>> \in Places(q > p, Other(Role(q, p)))
      <4>1. ASSUME NEW up \in BOOLEAN, NEW role \in {"snd", "rcv"}, NEW z \in 0..5,
                   <<z, 0>> \in Places(up, role)
            PROVE  <<0, z>> \in Places(~up, Other(role))
        BY <4>1 DEF Places, Other
      <4>2. <<prelude[q][p], 0>> \in Places(p > q, Role(q, p))
        BY <3>1, <3>2
      <4>3. (p > q) \in BOOLEAN
        OBVIOUS
      <4>4. <<0, prelude[q][p]>> \in Places(~(p > q), Other(Role(q, p)))
        BY <3>1, <4>1, <4>2, <4>3
      <4> QED BY <3>4, <4>4
    <3> QED BY <1>5, <3>3, <3>6, <3>7
  <2> QED BY <1>11, <2>1, <2>3, <2>4
<1>21. MeetInv'
  <2>1. ASSUME NEW r \in Party, NEW s \in Party, <<r, s>> # <<p, q>>
        PROVE  Met(r, s)'
    <3>1. /\ worker'[r][s] = worker[r][s] /\ prelude'[r][s] = prelude[r][s]
          /\ Count(s, r)' = Count(s, r)
      BY <1>4, <1>8, <2>1 DEF Resting
    <3>2. PeerPlace(r, s)' = PeerPlace(r, s) /\ Role(r, s)' = Role(r, s)
      BY <3>1 DEF PeerPlace, Role
    <3>3. Met(r, s)
      BY DEF WireInv, MeetInv
    <3> QED BY <3>1, <3>2, <3>3 DEF Met
  <2> QED BY <1>20, <2>1 DEF MeetInv
<1>22. RestInv'
  <2>1. ASSUME NEW r \in Party, NEW s \in Party, worker'[r][s].at # "open"
        PROVE  prelude'[r][s] = 0
    <3>1. CASE <<r, s>> = <<p, q>>
      BY <1>5, <3>1
    <3>2. CASE <<r, s>> # <<p, q>>
      <4>1. worker[r][s].at # "open"
        BY <1>4, <2>1, <3>2
      <4> QED BY <4>1 DEF WireInv, RestInv
    <3> QED BY <3>1, <3>2
  <2> QED BY <2>1 DEF RestInv
<1> QED BY <1>4, <1>8, <1>16, <1>17, <1>18, <1>19, <1>21, <1>22

(* Every step of a session is the same step of Mpsi's.                     *)
LEMMA SessionJoint ==
    ASSUME WireInv, NEW p \in Party, NEW q \in Party, InSession(p, q), prelude' = prelude
    PROVE  MP!InSession(p, q) /\ LinesInv' /\ MP!Matrix(chan)' /\ MP!Matrix(omega)'
PROOF
<1>1. /\ Resting
      /\ \A a : Goto(p, q, a) => MP!Goto(p, q, a)
      /\ Leave(p, q) => MP!Leave(p, q)
      /\ omega' = omega => JointOmega' = JointOmega
      /\ \A o : omega' = [omega EXCEPT ![p][q] = o]
            => JointOmega' = [JointOmega EXCEPT ![p][q] = o]
  BY SessionMoves
<1>2. /\ Hello(p, q) = <<>> /\ JointOmega[p][q] = omega[p][q]
      /\ \A role, a : Running(p, q, role, a) <=> MP!Running(p, q, role, a)
  BY SessionNow
<1>3. /\ DOMAIN omega = Party /\ \A r \in Party : DOMAIN omega[r] = Party
      /\ DOMAIN JointOmega = Party /\ \A r \in Party : DOMAIN JointOmega[r] = Party
  BY SameParties DEF WireInv, WireTypes, MP!Matrix, JointOmega
<1>4. {"omega", "aprime"} \subseteq Kinds
  BY DEF Kinds
<1>5. omega' = omega => MP!Matrix(omega)'
  BY DEF WireInv, WireTypes, MP!Matrix, MP!Party
<1>6. ASSUME NEW o, omega' = [omega EXCEPT ![p][q] = o] PROVE MP!Matrix(omega)'
  BY <1>3, <1>6, SameParties DEF MP!Matrix
<1>7. ASSUME NEW k \in {"omega", "aprime"}, NEW b, Send(p, q, k, b)
      PROVE  MP!Send(p, q, k, b) /\ LinesInv' /\ MP!Matrix(chan)'
  BY <1>1, <1>2, <1>4, <1>7, WireSend
<1>8. ASSUME NEW k \in {"omega", "aprime"}, Pending(p, q, k), Consume(p, q)
      PROVE  /\ MP!Pending(p, q, k) /\ MP!Consume(p, q) /\ MP!Received(p, q) = Received(p, q)
             /\ LinesInv' /\ MP!Matrix(chan)'
  BY <1>1, <1>4, <1>8, WireReceive
<1>9. CASE RcvSendOmega(p, q)
  <2> USE DEF RcvSendOmega
  <2>1. MP!Send(p, q, "omega", JointOmega[p][q]) /\ LinesInv' /\ MP!Matrix(chan)'
    BY <1>2, <1>7, <1>9
  <2>2. MP!RcvSendOmega(p, q)
    BY <1>1, <1>2, <1>9, <2>1 DEF MP!RcvSendOmega
  <2> QED BY <1>5, <1>9, <2>1, <2>2 DEF MP!InSession
<1>10. CASE SndRecvOmega(p, q)
  <2> USE DEF SndRecvOmega
  <2>1. /\ MP!Pending(p, q, "omega") /\ MP!Consume(p, q) /\ MP!Received(p, q) = Received(p, q)
        /\ LinesInv' /\ MP!Matrix(chan)'
    BY <1>8, <1>10
  <2>2. omega' = [omega EXCEPT ![p][q] = Xor(omega[p][q], Received(p, q))]
    BY <1>10
  <2>3. JointOmega' = [JointOmega EXCEPT ![p][q] = MP!Xor(@, MP!Received(p, q))]
    BY <1>1, <1>2, <1>3, <2>1, <2>2, SameOperators
  <2>4. MP!SndRecvOmega(p, q)
    BY <1>1, <1>2, <1>10, <2>1, <2>3 DEF MP!SndRecvOmega
  <2> QED BY <1>6, <2>1, <2>2, <2>4 DEF MP!InSession
<1>11. CASE SndSendOmega(p, q)
  <2> USE DEF SndSendOmega
  <2>1. MP!Send(p, q, "omega", {MP!Fresh(p, p, q)}) /\ LinesInv' /\ MP!Matrix(chan)'
    BY <1>7, <1>11, SameOperators
  <2>2. MP!SndSendOmega(p, q)
    BY <1>1, <1>2, <1>11, <2>1 DEF MP!SndSendOmega
  <2> QED BY <1>5, <1>11, <2>1, <2>2 DEF MP!InSession
<1>12. CASE RcvRecvOmega(p, q)
  <2> USE DEF RcvRecvOmega
  <2>1. /\ MP!Pending(p, q, "omega") /\ MP!Consume(p, q) /\ MP!Received(p, q) = Received(p, q)
        /\ LinesInv' /\ MP!Matrix(chan)'
    BY <1>8, <1>12
  <2>2. omega' = [omega EXCEPT ![p][q] = Xor(omega[p][q], Received(p, q))]
    BY <1>12
  <2>3. JointOmega' = [JointOmega EXCEPT ![p][q] = MP!Xor(@, MP!Received(p, q))]
    BY <1>1, <1>2, <1>3, <2>1, <2>2, SameOperators
  <2>4. MP!RcvRecvOmega(p, q)
    BY <1>1, <1>2, <1>12, <2>1, <2>3 DEF MP!RcvRecvOmega
  <2> QED BY <1>6, <2>1, <2>2, <2>4 DEF MP!InSession
<1>13. CASE RcvSendAPrime(p, q)
  <2> USE DEF RcvSendAPrime
  <2>1. MP!Send(p, q, "aprime", {<<q, p>>}) /\ LinesInv' /\ MP!Matrix(chan)'
    BY <1>7, <1>13
  <2>2. receiverOprf' = [receiverOprf EXCEPT ![p][q] = MP!OprfValue(q, p, JointOmega[p][q])]
    BY <1>2, <1>13, SameOperators
  <2>3. MP!RcvSendAPrime(p, q)
    BY <1>1, <1>2, <1>13, <2>1, <2>2 DEF MP!RcvSendAPrime
  <2> QED BY <1>5, <1>13, <2>1, <2>3 DEF MP!InSession
<1>14. CASE SndRecvAPrime(p, q)
  <2> USE DEF SndRecvAPrime
  <2>1. /\ MP!Pending(p, q, "aprime") /\ MP!Consume(p, q)
        /\ LinesInv' /\ MP!Matrix(chan)'
    BY <1>8, <1>14
  <2>2. senderOprf' = [senderOprf EXCEPT ![p][q] = MP!OprfValue(p, q, JointOmega[p][q])]
    BY <1>2, <1>14, SameOperators
  <2>3. MP!SndRecvAPrime(p, q)
    BY <1>1, <1>2, <1>14, <2>1, <2>2 DEF MP!SndRecvAPrime
  <2> QED BY <1>5, <1>14, <2>1, <2>3 DEF MP!InSession
<1> QED BY <1>9, <1>10, <1>11, <1>12, <1>13, <1>14 DEF InSession

LEMMA SessionInv ==
    ASSUME WireInv, NEW p \in Party, NEW q \in Party, InSession(p, q), prelude' = prelude
    PROVE  WireInv' /\ [MP!Next]_MP!vars
PROOF
<1>1. MP!InSession(p, q) /\ LinesInv' /\ MP!Matrix(chan)' /\ MP!Matrix(omega)'
  BY SessionJoint
<1>2. MP!Next
  BY <1>1, SameParties DEF MP!Next, MP!Step, MP!Worker
<1>3. MP!Inv' /\ MP!MasksFirst'
  BY <1>2, JointNext DEF WireInv
<1>4. /\ MeetInv' /\ RestInv'
      /\ worker' \in [Party -> [Party -> [session : {1, 2}, at : Steps]]]
  BY SessionMoves
<1>5. WireTypes'
  BY <1>1, <1>4 DEF WireInv, WireTypes
<1> QED BY <1>1, <1>2, <1>3, <1>4, <1>5 DEF WireInv
-----------------------------------------------------------------------------
(* What the steps of the main threads leave to show: the workers and the   *)
(* handshakes stay as they belong together.                                *)
Settled ==
    /\ Resting /\ MeetInv' /\ RestInv'
    /\ worker' \in [Party -> [Party -> [session : {1, 2}, at : Steps]]]
    /\ prelude' \in [Party -> [Party -> 0..5]]
    /\ MP!Matrix(omega)'

LEMMA StepInv ==
    ASSUME WireInv, Settled, LinesInv', MP!Matrix(chan)', [MP!Next]_MP!vars
    PROVE  WireInv' /\ [MP!Next]_MP!vars
PROOF
<1>1. MP!Inv' /\ MP!MasksFirst'
  BY JointNext DEF WireInv
<1>2. WireTypes'
  BY DEF Settled, WireTypes
<1> QED BY <1>1, <1>2 DEF Settled, WireInv

LEMMA MovedWorker ==
    ASSUME NEW w \in [session : {1, 2}, at : Steps], NEW a \in Steps
    PROVE  /\ [w EXCEPT !.at = a] \in [session : {1, 2}, at : Steps]
           /\ [w EXCEPT !.at = a].session = w.session /\ [w EXCEPT !.at = a].at = a
OBVIOUS

LEMMA StillMoves ==
    ASSUME WireInv, worker' = worker, omega' = omega, prelude' = prelude
    PROVE  Settled /\ JointWorker' = JointWorker /\ JointOmega' = JointOmega
PROOF
<1>1. \A r, s \in Party :
        JointWorker'[r][s] = JointWorker[r][s] /\ JointOmega'[r][s] = JointOmega[r][s]
  BY PairKept
<1>2. JointWorker' = JointWorker /\ JointOmega' = JointOmega
  BY <1>1, JointMatrix
<1>3. Resting
  BY DEF Resting, Count, Place
<1>4. MeetInv'
  <2>1. ASSUME NEW r \in Party, NEW s \in Party PROVE Met(r, s)'
    <3>1. PeerPlace(r, s)' = PeerPlace(r, s) /\ Role(r, s)' = Role(r, s)
      BY <1>3 DEF Resting, PeerPlace, Role
    <3>2. Met(r, s)
      BY DEF WireInv, MeetInv
    <3> QED BY <3>1, <3>2 DEF Met
  <2> QED BY <2>1 DEF MeetInv
<1>5. RestInv'
  BY DEF WireInv, RestInv
<1>6. /\ worker' \in [Party -> [Party -> [session : {1, 2}, at : Steps]]]
      /\ prelude' \in [Party -> [Party -> 0..5]]
  BY DEF WireInv, WireTypes
<1>7. MP!Matrix(omega)'
  BY DEF WireInv, WireTypes, MP!Matrix, MP!Party
<1> QED BY <1>2, <1>3, <1>4, <1>5, <1>6, <1>7 DEF Settled

(* The mask workers take no part in a session.                             *)
LEMMA MaskMoves ==
    ASSUME WireInv, NEW p \in Party, NEW q \in Party, Roles(p, q) = <<>>, Roles(q, p) = <<>>,
           worker[p][q].at = "seed", worker' = [worker EXCEPT ![p][q].at = "done"],
           omega' = omega, prelude' = prelude
    PROVE  /\ Settled /\ JointWorker' = [JointWorker EXCEPT ![p][q].at = "done"]
           /\ JointOmega' = JointOmega
PROOF
<1>1. worker \in [Party -> [Party -> [session : {1, 2}, at : Steps]]]
  BY DEF WireInv, WireTypes
<1>2. /\ worker'[p][q] = [worker[p][q] EXCEPT !.at = "done"]
      /\ worker'[p][q].session = worker[p][q].session /\ worker'[p][q].at = "done"
      /\ \A r, s \in Party : <<r, s>> # <<p, q>> => worker'[r][s] = worker[r][s]
  <2>1. worker'[p][q] = [worker[p][q] EXCEPT !.at = "done"]
    BY <1>1
  <2>2. worker[p][q] \in [session : {1, 2}, at : Steps] /\ "done" \in Steps
    BY <1>1 DEF Steps
  <2>3. \A r, s \in Party : <<r, s>> # <<p, q>> => worker'[r][s] = worker[r][s]
    BY <1>1
  <2> QED BY <2>1, <2>2, <2>3, MovedWorker
<1>3. worker' \in [Party -> [Party -> [session : {1, 2}, at : Steps]]]
  <2>1. "done" \in Steps
    BY DEF Steps
  <2> QED BY <1>1, <2>1, EntryType
<1>4. Resting
  <2>1. Count(p, q)' = Count(p, q) /\ Place(p, q)' = Place(p, q)
    BY <1>2 DEF Count, Place
  <2>2. \A r, s \in Party : <<r, s>> # <<p, q>> =>
          Count(r, s)' = Count(r, s) /\ Place(r, s)' = Place(r, s)
    BY <1>2 DEF Count, Place
  <2> QED BY <2>1, <2>2 DEF Resting
<1>5. worker[q][p].at # "open" /\ worker'[q][p].at # "open"
  <2>1. worker[q][p].at # "open"
    BY AtRoles
  <2> QED BY <1>2, <2>1
<1>6. /\ ~Behind(p, q) /\ ~Behind(q, p) /\ ~Behind(p, q)' /\ ~Behind(q, p)'
  BY <1>2, <1>5 DEF Behind
<1>7. /\ JointWorker[p][q] = worker[p][q] /\ JointWorker'[p][q] = worker'[p][q]
      /\ JointOmega'[p][q] = JointOmega[p][q]
  <2>1. JointWorker'[p][q] = worker'[p][q] /\ JointOmega'[p][q] = omega'[p][q]
    BY <1>6 DEF JointWorker, JointOmega
  <2> QED BY <1>6, <2>1, JointEntry
<1>8. \A r, s \in Party : <<r, s>> # <<p, q>> =>
        JointWorker'[r][s] = JointWorker[r][s] /\ JointOmega'[r][s] = JointOmega[r][s]
  <2> SUFFICES ASSUME NEW r \in Party, NEW s \in Party, <<r, s>> # <<p, q>>
               PROVE  JointWorker'[r][s] = JointWorker[r][s] /\ JointOmega'[r][s] = JointOmega[r][s]
    OBVIOUS
  <2>1. CASE <<s, r>> # <<p, q>>
    <3>1. worker'[r][s] = worker[r][s] /\ worker'[s][r] = worker[s][r]
      BY <1>2, <2>1
    <3> QED BY <3>1, PairKept
  <2>2. CASE r = q /\ s = p
    <3>1. worker'[q][p] = worker[q][p]
      BY <1>2, <2>2
    <3>2. JointWorker'[q][p] = worker'[q][p] /\ JointOmega'[q][p] = omega'[q][p]
      BY <1>6 DEF JointWorker, JointOmega
    <3>3. JointWorker[q][p] = worker[q][p] /\ JointOmega[q][p] = omega[q][p]
      BY <1>6, JointEntry
    <3> QED BY <2>2, <3>1, <3>2, <3>3
  <2> QED BY <2>1, <2>2
<1>9. JointWorker' = [JointWorker EXCEPT ![p][q].at = "done"]
  <2>1. JointWorker' = [JointWorker EXCEPT ![p][q] = JointWorker'[p][q]]
    BY <1>8, JointMatrix, OneEntry
  <2>2. JointWorker'[p][q] = [JointWorker[p][q] EXCEPT !.at = "done"]
    BY <1>2, <1>7
  <2> QED BY <2>1, <2>2, JointMatrix
<1>10. JointOmega' = JointOmega
  <2>1. \A r, s \in Party : JointOmega'[r][s] = JointOmega[r][s]
    BY <1>7, <1>8
  <2> QED BY <2>1, JointMatrix
<1>11. MeetInv'
  <2>1. ASSUME NEW r \in Party, NEW s \in Party, <<r, s>> # <<p, q>> PROVE Met(r, s)'
    <3>1. worker'[r][s] = worker[r][s]
      BY <1>2, <2>1
    <3>2. PeerPlace(r, s)' = PeerPlace(r, s) /\ Role(r, s)' = Role(r, s)
      BY <1>4, <3>1 DEF Resting, PeerPlace, Role
    <3>3. Met(r, s)
      BY DEF WireInv, MeetInv
    <3> QED BY <3>1, <3>2, <3>3 DEF Met
  <2>2. Met(p, q)'
    BY <1>2 DEF Met
  <2> QED BY <2>1, <2>2 DEF MeetInv
<1>12. RestInv'
  <2>1. prelude[p][q] = 0
    BY DEF WireInv, RestInv
  <2>2. \A r, s \in Party : <<r, s>> # <<p, q>> =>
          (worker'[r][s].at # "open" => prelude'[r][s] = 0)
    BY <1>2 DEF WireInv, RestInv
  <2> QED BY <2>1, <2>2 DEF RestInv
<1>13. prelude' \in [Party -> [Party -> 0..5]] /\ MP!Matrix(omega)'
  BY DEF WireInv, WireTypes, MP!Matrix, MP!Party
<1> QED BY <1>3, <1>4, <1>9, <1>10, <1>11, <1>12, <1>13 DEF Settled

(* A process creates its workers: they begin at the first byte of their    *)
(* first handshake, behind peers that wait for it there.                   *)
LEMMA SpawnMoves ==
    ASSUME WireInv, NEW p \in Party, main[p] = "mask",
           worker' = [worker EXCEPT ![p] = Spawned(p, @)], omega' = omega, prelude' = prelude
    PROVE  /\ Settled /\ JointWorker' = [JointWorker EXCEPT ![p] = MP!Spawned(p, @)]
           /\ JointOmega' = JointOmega
PROOF
<1>1. worker \in [Party -> [Party -> [session : {1, 2}, at : Steps]]]
  BY DEF WireInv, WireTypes
<1>2. /\ \A q \in Party : worker'[p][q] =
           IF Roles(p, q) = <<>> THEN worker[p][q] ELSE [worker[p][q] EXCEPT !.at = "open"]
      /\ \A r, s \in Party : r # p => worker'[r][s] = worker[r][s]
      /\ DOMAIN worker' = Party /\ \A r \in Party : DOMAIN worker'[r] = Party
  BY <1>1 DEF Spawned
<1>3. ASSUME NEW q \in Party, Roles(p, q) # <<>>
      PROVE  /\ worker[p][q].at = "none" /\ worker[p][q].session = 1 /\ p # q
             /\ worker'[p][q].at = "open" /\ worker'[p][q].session = 1
             /\ prelude[p][q] = 0
  <2>1. worker[p][q].at = "none" /\ worker[p][q].session = 1 /\ p # q
    BY <1>3, AtRoles, PairRoles
  <2>2. worker'[p][q].at = "open" /\ worker'[p][q].session = 1
    <3>1. worker'[p][q] = [worker[p][q] EXCEPT !.at = "open"]
      BY <1>2, <1>3
    <3>2. worker[p][q] \in [session : {1, 2}, at : Steps] /\ "open" \in Steps
      BY <1>1 DEF Steps
    <3> QED BY <2>1, <3>1, <3>2, MovedWorker
  <2>3. prelude[p][q] = 0
    BY <2>1 DEF WireInv, RestInv
  <2> QED BY <2>1, <2>2, <2>3
<1>4. ASSUME NEW q \in Party, Roles(p, q) = <<>>
      PROVE  worker'[p][q] = worker[p][q] /\ worker[p][q].at \in {"none", "seed", "done"}
  BY <1>2, <1>4, AtRoles
<1>5. worker' \in [Party -> [Party -> [session : {1, 2}, at : Steps]]]
  <2>1. \A q \in Party : worker'[p][q] \in [session : {1, 2}, at : Steps]
    <3> SUFFICES ASSUME NEW q \in Party
                 PROVE  worker'[p][q] \in [session : {1, 2}, at : Steps]
      OBVIOUS
    <3>1. worker[p][q] \in [session : {1, 2}, at : Steps] /\ "open" \in Steps
      BY <1>1 DEF Steps
    <3>2. [worker[p][q] EXCEPT !.at = "open"] \in [session : {1, 2}, at : Steps]
      BY <3>1, MovedWorker
    <3>3. \/ worker'[p][q] = worker[p][q]
          \/ worker'[p][q] = [worker[p][q] EXCEPT !.at = "open"]
      BY <1>2
    <3> QED BY <3>1, <3>2, <3>3
  <2>2. worker'[p] = Spawned(p, worker[p])
    BY <1>1
  <2>3. worker'[p] \in [Party -> [session : {1, 2}, at : Steps]]
    BY <2>1, <2>2 DEF Spawned
  <2> QED BY <1>1, <2>3
<1>6. Resting
  <2>1. ASSUME NEW q \in Party PROVE Count(p, q)' = Count(p, q) /\ Place(p, q)' = Place(p, q)
    <3>1. CASE Roles(p, q) = <<>>
      BY <1>4, <3>1 DEF Count, Place
    <3>2. CASE Roles(p, q) # <<>>
      BY <1>3, <3>2 DEF Count, Place
    <3> QED BY <3>1, <3>2
  <2>2. \A r, s \in Party : r # p => Count(r, s)' = Count(r, s) /\ Place(r, s)' = Place(r, s)
    BY <1>2 DEF Count, Place
  <2> QED BY <2>1, <2>2 DEF Resting
(* The peer of a new worker waits in the same session, or does not run.    *)
<1>7. ASSUME NEW q \in Party, Roles(p, q) # <<>>
      PROVE  /\ worker[q][p].session = 1 /\ worker[q][p].at \in {"none", "open"}
             /\ worker'[q][p] = worker[q][p]
  <2>1. MP!Pace(JointWorker[p][q], JointWorker[q][p])
    BY <1>7, PairPace DEF WireInv
  <2>2. worker[p][q].at = "none" /\ worker[p][q].session = 1 /\ p # q
    BY <1>3, <1>7
  <2>3. ~Behind(p, q) /\ ~Behind(q, p)
    BY <2>2 DEF Behind, Past
  <2>4. JointWorker[p][q] = worker[p][q] /\ JointWorker[q][p] = worker[q][p]
    BY <2>3, JointEntry
  <2> QED BY <1>2, <2>1, <2>2, <2>4 DEF MP!Pace, MP!Between
<1>8. ASSUME NEW q \in Party
      PROVE  ~Behind(p, q) /\ ~Behind(q, p) /\ ~Behind(p, q)' /\ ~Behind(q, p)'
  <2>1. CASE Roles(p, q) = <<>>
    <3>1. /\ worker'[p][q] = worker[p][q] /\ worker[p][q].at # "open"
          /\ ~Past(p, q) /\ ~Past(p, q)'
      BY <1>4, <2>1 DEF Past
    <3> QED BY <3>1 DEF Behind
  <2>2. CASE Roles(p, q) # <<>>
    <3>1. ~Past(p, q) /\ ~Past(p, q)' /\ worker[p][q].at # "open"
      BY <1>3, <2>2 DEF Past
    <3>2. ~Past(q, p)'
      BY <1>7, <2>2 DEF Past
    <3> QED BY <3>1, <3>2 DEF Behind
  <2> QED BY <2>1, <2>2
<1>9. /\ \A q \in Party : JointWorker'[p][q] = worker'[p][q] /\ JointWorker[p][q] = worker[p][q]
      /\ \A r, s \in Party : r # p => JointWorker'[r][s] = JointWorker[r][s]
      /\ \A r, s \in Party : JointOmega'[r][s] = JointOmega[r][s]
  <2>1. ASSUME NEW r \in Party, NEW s \in Party, r # p, s # p
        PROVE  JointWorker'[r][s] = JointWorker[r][s] /\ JointOmega'[r][s] = JointOmega[r][s]
    <3>1. worker'[r][s] = worker[r][s] /\ worker'[s][r] = worker[s][r]
      BY <1>2, <2>1
    <3> QED BY <3>1, PairKept
  <2>2. ASSUME NEW r \in Party, NEW s \in Party, r = p \/ s = p
        PROVE  /\ JointWorker'[r][s] = worker'[r][s] /\ JointWorker[r][s] = worker[r][s]
               /\ JointOmega'[r][s] = JointOmega[r][s]
    <3>1. ~Behind(r, s) /\ ~Behind(r, s)'
      BY <1>8, <2>2
    <3>2. JointWorker'[r][s] = worker'[r][s] /\ JointOmega'[r][s] = omega'[r][s]
      BY <3>1 DEF JointWorker, JointOmega
    <3> QED BY <3>1, <3>2, JointEntry
  <2>3. ASSUME NEW r \in Party, r # p PROVE JointWorker'[r][p] = JointWorker[r][p]
    BY <1>2, <2>2, <2>3
  <2> QED BY <2>1, <2>2, <2>3
<1>10. JointWorker' = [JointWorker EXCEPT ![p] = MP!Spawned(p, @)]
  <2> DEFINE g == [JointWorker EXCEPT ![p] = MP!Spawned(p, @)]
  <2>1. \A q \in Party : MP!Spawned(p, JointWorker[p])[q] =
           IF Roles(p, q) = <<>> THEN JointWorker[p][q] ELSE [JointWorker[p][q] EXCEPT !.at = "open"]
    BY SameParties DEF MP!Spawned
  <2>2. MP!Spawned(p, JointWorker[p]) = [q \in Party |-> MP!Spawned(p, JointWorker[p])[q]]
    BY SameParties DEF MP!Spawned
  <2> DEFINE u == MP!Spawned(p, JointWorker[p])
  <2>3. g = [JointWorker EXCEPT ![p] = u]
    BY JointMatrix
  <2>4. \A q \in Party : u[q] = JointWorker'[p][q]
    <3> SUFFICES ASSUME NEW q \in Party PROVE u[q] = JointWorker'[p][q]
      OBVIOUS
    <3>1. JointWorker'[p][q] = worker'[p][q] /\ JointWorker[p][q] = worker[p][q]
      BY <1>9
    <3>2. worker'[p][q] = IF Roles(p, q) = <<>> THEN worker[p][q]
                                               ELSE [worker[p][q] EXCEPT !.at = "open"]
      BY <1>2
    <3>3. u[q] = IF Roles(p, q) = <<>> THEN JointWorker[p][q]
                                      ELSE [JointWorker[p][q] EXCEPT !.at = "open"]
      BY <2>1
    <3> HIDE DEF u
    <3> QED BY <3>1, <3>2, <3>3
  <2>5. u = [q \in Party |-> JointWorker'[p][q]]
    BY <2>2, <2>4
  <2> HIDE DEF g, u
  <2>6. g = [r \in Party |-> IF r = p THEN u ELSE JointWorker[r]]
    BY <2>3, JointMatrix
  <2>7. \A r \in Party : JointWorker'[r] = [s \in Party |-> JointWorker'[r][s]]
    BY JointMatrix
  <2>8. \A r \in Party : JointWorker[r] = [s \in Party |-> JointWorker[r][s]]
    BY JointMatrix
  <2>9. \A r \in Party : r # p => JointWorker'[r] = JointWorker[r]
    <3> SUFFICES ASSUME NEW r \in Party, r # p PROVE JointWorker'[r] = JointWorker[r]
      OBVIOUS
    <3>1. \A s \in Party : JointWorker'[r][s] = JointWorker[r][s]
      BY <1>9
    <3>2. JointWorker'[r] = [s \in Party |-> JointWorker'[r][s]]
      BY <2>7
    <3>3. JointWorker[r] = [s \in Party |-> JointWorker[r][s]]
      BY <2>8
    <3>4. [s \in Party |-> JointWorker'[r][s]] = [s \in Party |-> JointWorker[r][s]]
      BY <3>1
    <3> QED BY <3>2, <3>3, <3>4
  <2>10. JointWorker'[p] = u
    BY <2>5, <2>7
  <2>11. JointWorker' = [r \in Party |-> JointWorker'[r]]
    BY DEF JointWorker
  <2>12. JointWorker' = g
    BY <2>6, <2>9, <2>10, <2>11
  <2> QED BY <2>12 DEF g
<1>11. JointOmega' = JointOmega
  BY <1>9, JointMatrix
<1>12. ASSUME NEW q \in Party PROVE Met(p, q)'
  <2> SUFFICES ASSUME worker'[p][q].at = "open"
               PROVE  <<prelude'[p][q], PeerPlace(p, q)'>> \in Places(q > p, Role(p, q)')
    BY DEF Met
  <2>1. Roles(p, q) # <<>>
    BY <1>4
  <2>2. /\ worker[q][p].session = 1 /\ worker[q][p].at \in {"none", "open"}
        /\ prelude'[p][q] = 0 /\ worker'[p][q].session = 1 /\ p # q
        /\ worker[p][q].at = "none" /\ worker[p][q].session = 1
    BY <1>3, <1>7, <2>1
  <2>3. Count(q, p)' = Count(q, p) /\ Count(p, q) = 0
    <3>1. Count(p, q) = 6 * (1 - 1)
      BY <2>2, CountFacts
    <3> QED BY <1>6, <3>1 DEF Resting
  <2>4. PeerPlace(p, q)' = Count(q, p) /\ PeerPlace(q, p) = 0
    <3>1. Count(q, p) \in Int
      BY CountFacts
    <3>2. PeerPlace(p, q)' = Count(q, p) - 6 * (1 - 1) /\ PeerPlace(q, p) = 0 - 6 * (1 - 1)
      BY <2>2, <2>3 DEF PeerPlace
    <3> QED BY <3>1, <3>2
  <2>5. CASE worker[q][p].at = "none"
    <3>1. Count(q, p) = 6 * (1 - 1)
      BY <2>2, <2>5, CountFacts
    <3>2. PeerPlace(p, q)' = 0
      BY <2>4, <3>1
    <3> QED BY <2>2, <3>2 DEF Places
  <2>6. CASE worker[q][p].at = "open"
    <3>1. /\ <<prelude[q][p], 0>> \in Places(p > q, Role(q, p))
          /\ Role(q, p) \in {"snd", "rcv"} /\ prelude[q][p] \in 0..5
      BY <2>4, <2>6, Seat
    <3>2. Role(p, q)' = Other(Role(q, p))
      <4>1. 1 \in 1..Len(Roles(p, q))
        BY <2>1, PairRoles
      <4> QED BY <2>2, <4>1, PairRoles DEF Role, Other
    <3>3. (q > p) = ~(p > q) /\ (p > q) \in BOOLEAN
      <4>1. p \in Int /\ q \in Int
        BY NAssumption DEF Party
      <4> QED BY <2>2, <4>1
    <3>4. Count(q, p) = 6 * (1 - 1) + prelude[q][p]
      BY <2>2, <2>6, CountFacts
    <3>5. PeerPlace(p, q)' = prelude[q][p]
      BY <2>4, <3>1, <3>4
    <3>6. <<0, prelude[q][p]>> \in Places(~(p > q), Other(Role(q, p)))
      <4>1. ASSUME NEW up \in BOOLEAN, NEW role \in {"snd", "rcv"}, NEW z \in 0..5,
                   <<z, 0>> \in Places(up, role)
            PROVE  <<0, z>> \in Places(~up, Other(role))
        BY <4>1 DEF Places, Other
      <4> QED BY <3>1, <3>3, <4>1
    <3> QED BY <2>2, <3>2, <3>3, <3>5, <3>6
  <2> QED BY <2>2, <2>5, <2>6
<1>13. MeetInv'
  <2>1. ASSUME NEW r \in Party, NEW s \in Party, r # p PROVE Met(r, s)'
    <3>1. worker'[r][s] = worker[r][s]
      BY <1>2, <2>1
    <3>2. PeerPlace(r, s)' = PeerPlace(r, s) /\ Role(r, s)' = Role(r, s)
      BY <1>6, <3>1 DEF Resting, PeerPlace, Role
    <3>3. Met(r, s)
      BY DEF WireInv, MeetInv
    <3> QED BY <3>1, <3>2, <3>3 DEF Met
  <2> QED BY <1>12, <2>1 DEF MeetInv
<1>14. RestInv'
  <2>1. ASSUME NEW r \in Party, NEW s \in Party, worker'[r][s].at # "open" PROVE prelude'[r][s] = 0
    <3>1. worker[r][s].at # "open"
      <4>1. CASE r = p
        BY <1>3, <1>4, <2>1, <4>1
      <4>2. CASE r # p
        BY <1>2, <2>1, <4>2
      <4> QED BY <4>1, <4>2
    <3> QED BY <3>1 DEF WireInv, RestInv
  <2> QED BY <2>1 DEF RestInv
<1>15. prelude' \in [Party -> [Party -> 0..5]] /\ MP!Matrix(omega)'
  BY DEF WireInv, WireTypes, MP!Matrix, MP!Party
<1> QED BY <1>5, <1>6, <1>10, <1>11, <1>13, <1>14, <1>15 DEF Settled
-----------------------------------------------------------------------------
(* Outside the sessions a worker has nothing of a handshake on its line.   *)
LEMMA IdleLine ==
    ASSUME WireInv, NEW p \in Party, NEW q \in Party,
           worker[p][q].at \notin {"open"} \cup Between
    PROVE  Hello(p, q) = <<>> /\ JointWorker[p][q] = worker[p][q]
PROOF
<1>1. ~Behind(q, p) /\ ~Behind(p, q)
  BY JointFacts
<1>2. Hello(p, q) = <<>>
  BY <1>1, NothingUnread
<1> QED BY <1>1, <1>2, JointEntry

(* The steps of the main threads are the same steps of Mpsi.               *)
LEMMA MaskWorkerJoint ==
    ASSUME WireInv, NEW i \in MaskPeers, MaskWorker(i), prelude' = prelude
    PROVE  WireInv' /\ [MP!Next]_MP!vars
PROOF
<1>1. 0 \in Party /\ i \in Party /\ Roles(0, i) = <<>> /\ Roles(i, 0) = <<>>
  BY Places0
<1>2. worker[0][i].at = "seed"
  BY DEF MaskWorker
<1>3. /\ Settled /\ JointWorker' = [JointWorker EXCEPT ![0][i].at = "done"]
      /\ JointOmega' = JointOmega
  BY <1>1, <1>2, MaskMoves DEF MaskWorker
<1>4. Hello(0, i) = <<>> /\ JointWorker[0][i].at = "seed"
  BY <1>1, <1>2, IdleLine DEF Between
<1>5. MP!Send(0, i, "seed", {Mask(0, i)}) /\ LinesInv' /\ MP!Matrix(chan)'
  <2>1. "seed" \in Kinds /\ Resting /\ Send(0, i, "seed", {Mask(0, i)})
    BY <1>3 DEF Kinds, Settled, MaskWorker
  <2> QED BY <1>1, <1>4, <2>1, WireSend
<1>6. MP!MaskWorker(i)
  BY <1>3, <1>4, <1>5, SameOperators DEF MP!MaskWorker, MaskWorker
<1>7. MP!Next
  BY <1>1, <1>6, SameParties DEF MP!Next, MP!Step, MP!Main0
<1> QED BY <1>3, <1>5, <1>7, StepInv

LEMMA JoinMasksJoint ==
    ASSUME WireInv, JoinMasks, prelude' = prelude
    PROVE  WireInv' /\ [MP!Next]_MP!vars
PROOF
<1>1. 0 \in Party /\ \A i \in MaskPeers : i \in Party
  BY Places0
<1>2. /\ Settled /\ JointWorker' = [JointWorker EXCEPT ![0] = MP!Spawned(0, @)]
      /\ JointOmega' = JointOmega
  BY <1>1, SpawnMoves DEF JoinMasks
<1>3. JointChan' = JointChan /\ LinesInv' /\ MP!Matrix(chan)'
  BY <1>2, LinesRest DEF Settled, JoinMasks
<1>4. \A i \in MaskPeers : JointWorker[0][i].at = "done"
  <2>1. \A i \in MaskPeers : worker[0][i].at = "done"
    BY DEF JoinMasks
  <2> QED BY <1>1, <2>1, IdleLine DEF Between
<1>5. MP!JoinMasks
  BY <1>2, <1>3, <1>4, SameOperators DEF MP!JoinMasks, JoinMasks
<1>6. MP!Next
  BY <1>1, <1>5, SameParties DEF MP!Next, MP!Step, MP!Main0
<1> QED BY <1>2, <1>3, <1>6, StepInv

LEMMA RecvMaskJoint ==
    ASSUME WireInv, NEW p \in Party, RecvMask(p), prelude' = prelude
    PROVE  WireInv' /\ [MP!Next]_MP!vars
PROOF
<1>1. 0 \in Party
  BY Places0
<1>2. /\ Settled /\ JointWorker' = [JointWorker EXCEPT ![p] = MP!Spawned(p, @)]
      /\ JointOmega' = JointOmega
  BY SpawnMoves DEF RecvMask
<1>3. /\ MP!Pending(p, 0, "seed") /\ MP!Consume(p, 0) /\ MP!Received(p, 0) = Received(p, 0)
      /\ LinesInv' /\ MP!Matrix(chan)'
  <2>1. "seed" \in Kinds /\ Resting /\ Pending(p, 0, "seed") /\ Consume(p, 0)
    BY <1>2 DEF Kinds, Settled, RecvMask
  <2> QED BY <1>1, <2>1, WireReceive
<1>4. MP!RecvMask(p)
  BY <1>2, <1>3 DEF MP!RecvMask, RecvMask
<1>5. MP!Next
  BY <1>4, SameParties DEF MP!Next, MP!Step, MP!Main
<1> QED BY <1>2, <1>3, <1>5, StepInv

LEMMA JoinWorkersJoint ==
    ASSUME WireInv, NEW p \in Party, JoinWorkers(p), prelude' = prelude
    PROVE  WireInv' /\ [MP!Next]_MP!vars
PROOF
<1>1. Settled /\ JointWorker' = JointWorker /\ JointOmega' = JointOmega
  BY StillMoves DEF JoinWorkers, threads
<1>2. JointChan' = JointChan /\ LinesInv' /\ MP!Matrix(chan)'
  BY <1>1, LinesRest DEF Settled, JoinWorkers
<1>3. \A q \in MP!Party : MP!Roles(p, q) # <<>> => JointWorker[p][q].at = "done"
  <2>1. \A q \in Party : Roles(p, q) # <<>> => worker[p][q].at = "done"
    BY DEF JoinWorkers
  <2> QED BY <2>1, IdleLine, SameParties DEF Between
<1>4. MP!JoinWorkers(p)
  BY <1>1, <1>2, <1>3, SameOperators DEF MP!JoinWorkers, JoinWorkers, MP!threads, threads
<1>5. MP!Next
  BY <1>4, SameParties DEF MP!Next, MP!Step, MP!Main
<1> QED BY <1>1, <1>2, <1>5, StepInv

LEMMA RecvTableJoint ==
    ASSUME WireInv, NEW p \in Party, NEW q \in Party, RecvTable(p, q), prelude' = prelude
    PROVE  WireInv' /\ [MP!Next]_MP!vars
PROOF
<1>1. Settled /\ JointWorker' = JointWorker /\ JointOmega' = JointOmega
  BY StillMoves DEF RecvTable, threads
<1>2. /\ MP!Pending(p, q, "table") /\ MP!Consume(p, q) /\ MP!Received(p, q) = Received(p, q)
      /\ LinesInv' /\ MP!Matrix(chan)'
  <2>1. "table" \in Kinds /\ Resting /\ Pending(p, q, "table") /\ Consume(p, q)
    BY <1>1 DEF Kinds, Settled, RecvTable
  <2> QED BY <2>1, WireReceive
<1>3. MP!RecvTable(p, q)
  BY <1>1, <1>2, SameOperators DEF MP!RecvTable, RecvTable, MP!threads, threads
<1>4. MP!Next
  BY <1>3, SameParties DEF MP!Next, MP!Step, MP!Main
<1> QED BY <1>1, <1>2, <1>4, StepInv

LEMMA SendTableJoint ==
    ASSUME WireInv, NEW p \in Party, SendTable(p), prelude' = prelude
    PROVE  WireInv' /\ [MP!Next]_MP!vars
PROOF
<1> DEFINE q == NextHop(p)
           b == Encode(p, values[p])
<1>1. Settled /\ JointWorker' = JointWorker /\ JointOmega' = JointOmega
  BY StillMoves DEF SendTable, threads
<1>2. q \in Party
  BY Places0
<1>3. worker[p][q].at \in {"none", "seed", "done"}
  BY <1>2, AtRoles DEF SendTable
<1>4. Hello(p, q) = <<>>
  BY <1>2, <1>3, IdleLine DEF Between
<1>5. MP!Send(p, q, "table", b) /\ LinesInv' /\ MP!Matrix(chan)'
  <2>1. "table" \in Kinds /\ Resting /\ Send(p, q, "table", b)
    BY <1>1 DEF Kinds, Settled, SendTable
  <2> QED BY <1>2, <1>4, <2>1, WireSend
<1>6. MP!SendTable(p)
  BY <1>1, <1>5, SameOperators DEF MP!SendTable, SendTable, MP!threads, threads
<1>7. MP!Next
  BY <1>6, SameParties DEF MP!Next, MP!Step, MP!Main
<1> QED BY <1>1, <1>5, <1>7, StepInv

LEMMA OutputJoint ==
    ASSUME WireInv, Output, prelude' = prelude
    PROVE  WireInv' /\ [MP!Next]_MP!vars
PROOF
<1>1. Settled /\ JointWorker' = JointWorker /\ JointOmega' = JointOmega
  BY StillMoves DEF Output, threads
<1>2. 0 \in Party /\ N-1 \in Party
  BY Places0
<1>3. /\ MP!Pending(0, N-1, "table") /\ MP!Consume(0, N-1)
      /\ MP!Received(0, N-1) = Received(0, N-1) /\ LinesInv' /\ MP!Matrix(chan)'
  <2>1. "table" \in Kinds /\ Resting /\ Pending(0, N-1, "table") /\ Consume(0, N-1)
    BY <1>1 DEF Kinds, Settled, Output
  <2> QED BY <1>2, <2>1, WireReceive
<1>4. MP!Output
  BY <1>1, <1>3 DEF MP!Output, Output, MP!threads, threads
<1>5. MP!Next
  BY <1>2, <1>4, SameParties DEF MP!Next, MP!Step, MP!Main0
<1> QED BY <1>1, <1>3, <1>5, StepInv
-----------------------------------------------------------------------------
(* Connecting is no step of Mpsi's.                                        *)
LEMMA ConnectingJoint ==
    ASSUME WireInv, UNCHANGED <<vars, prelude>>
    PROVE  WireInv' /\ [MP!Next]_MP!vars
PROOF
<1>1. Settled /\ JointWorker' = JointWorker /\ JointOmega' = JointOmega
  BY StillMoves DEF vars, threads
<1>2. JointChan' = JointChan /\ LinesInv' /\ MP!Matrix(chan)'
  BY <1>1, LinesRest DEF Settled, vars
<1>3. UNCHANGED MP!vars
  BY <1>1, <1>2 DEF vars, threads, MP!vars, MP!threads
<1> QED BY <1>1, <1>2, <1>3, StepInv

(* Every step of the processes is a step of Mpsi's or none.                *)
LEMMA NextWire ==
    ASSUME WireInv, [WireNext]_wireVars
    PROVE  WireInv' /\ [MP!Next]_MP!vars
PROOF
<1>1. CASE UNCHANGED wireVars
  BY <1>1, ConnectingJoint DEF wireVars
<1>2. ASSUME NEW p \in Party, Connecting(p) PROVE WireInv' /\ [MP!Next]_MP!vars
  BY <1>2, ConnectingJoint DEF Connecting
<1>3. ASSUME NEW p \in Party, Handshaking(p) PROVE WireInv' /\ [MP!Next]_MP!vars
  BY <1>3, HandshakeInv DEF Handshaking
<1>4. ASSUME NEW p \in Party, Working(p) PROVE WireInv' /\ [MP!Next]_MP!vars
  <2>1. prelude' = prelude
    BY <1>4 DEF Working
  <2>2. CASE \E q \in Party : InSession(p, q)
    BY <2>1, <2>2, SessionInv
  <2>3. CASE Main(p)
    BY <2>1, <2>3, RecvMaskJoint, JoinWorkersJoint, RecvTableJoint, SendTableJoint DEF Main
  <2>4. CASE Main0
    BY <2>1, <2>4, MaskWorkerJoint, JoinMasksJoint, OutputJoint DEF Main0
  <2> QED BY <1>4, <2>2, <2>3, <2>4 DEF Working
<1> QED BY <1>1, <1>2, <1>3, <1>4 DEF WireNext, WireStep
-----------------------------------------------------------------------------
(* In the beginning no worker is past a handshake.                         *)
LEMMA InitWorkers ==
    ASSUME Init
    PROVE  /\ worker \in [Party -> [Party -> [session : {1, 2}, at : Steps]]]
           /\ \A p, q \in Party :
                /\ worker[p][q].session = 1 /\ worker[p][q].at \in {"none", "open", "seed"}
                /\ worker[p][q].at = "open" => Roles(p, q) # <<>>
                /\ worker[p][q].at = "seed" => Roles(p, q) = <<>> /\ Roles(q, p) = <<>>
PROOF
<1>1. /\ Unborn \in [session : {1, 2}, at : Steps] /\ Unborn.at = "none" /\ Unborn.session = 1
      /\ "open" \in Steps /\ "seed" \in Steps
  BY DEF Unborn, Steps
<1> DEFINE open == [Unborn EXCEPT !.at = "open"]
           seed == [Unborn EXCEPT !.at = "seed"]
<1>2. /\ open \in [session : {1, 2}, at : Steps] /\ open.at = "open" /\ open.session = 1
      /\ seed \in [session : {1, 2}, at : Steps] /\ seed.at = "seed" /\ seed.session = 1
  BY <1>1, MovedWorker
<1>3. /\ DOMAIN worker = Party /\ \A p \in Party : DOMAIN worker[p] = Party
      /\ worker = [p \in Party |-> [q \in Party |-> worker[p][q]]]
      /\ \A p, q \in Party : worker[p][q] =
           IF ~Masked(p) THEN IF Roles(p, q) = <<>> THEN Unborn ELSE open
           ELSE IF p = 0 /\ q \in MaskPeers THEN seed ELSE Unborn
  <2>1. /\ DOMAIN worker = Party
        /\ \A p \in Party : worker[p] =
             IF ~Masked(p)
               THEN [q \in Party |-> IF Roles(p, q) = <<>> THEN Idle[q] ELSE [Idle[q] EXCEPT !.at = "open"]]
               ELSE IF p = 0
                 THEN [q \in Party |-> [Unborn EXCEPT !.at = IF q \in MaskPeers THEN "seed" ELSE @]]
                 ELSE Idle
    BY DEF Init, Spawned
  <2>2. \A q \in Party : Idle[q] = Unborn
    BY DEF Idle
  <2>3. [Unborn EXCEPT !.at = @] = Unborn
    BY DEF Unborn
  <2>4. ASSUME NEW p \in Party
        PROVE  /\ worker[p] = [q \in Party |-> worker[p][q]]
               /\ \A q \in Party : worker[p][q] =
                    IF ~Masked(p) THEN IF Roles(p, q) = <<>> THEN Unborn ELSE open
                    ELSE IF p = 0 /\ q \in MaskPeers THEN seed ELSE Unborn
    <3>1. CASE ~Masked(p)
      BY <2>1, <2>2, <3>1
    <3>2. CASE Masked(p) /\ p = 0
      BY <2>1, <2>3, <3>2
    <3>3. CASE Masked(p) /\ p # 0
      BY <2>1, <2>2, <3>3 DEF Idle
    <3> QED BY <3>1, <3>2, <3>3
  <2>5. worker = [p \in Party |-> worker[p]]
    BY DEF Init
  <2> HIDE DEF open, seed
  <2> QED BY <2>1, <2>4, <2>5
<1> HIDE DEF open, seed
<1>4. \A p, q \in Party : worker[p][q] \in [session : {1, 2}, at : Steps]
  BY <1>1, <1>2, <1>3
<1>5. worker \in [Party -> [Party -> [session : {1, 2}, at : Steps]]]
  BY <1>3, <1>4
<1>6. \A q \in MaskPeers : Roles(0, q) = <<>> /\ Roles(q, 0) = <<>>
  BY Places0
<1>7. \A p, q \in Party :
        worker[p][q] = Unborn \/ worker[p][q] = open \/ worker[p][q] = seed
  BY <1>3
<1>8. ASSUME NEW p \in Party, NEW q \in Party
      PROVE  worker[p][q].session = 1 /\ worker[p][q].at \in {"none", "open", "seed"}
  BY <1>1, <1>2, <1>7
<1>9. ASSUME NEW p \in Party, NEW q \in Party, worker[p][q].at = "open"
      PROVE  Roles(p, q) # <<>>
  <2>1. worker[p][q] = open
    BY <1>1, <1>2, <1>7, <1>9
  <2>2. open # Unborn /\ open # seed
    BY <1>1, <1>2
  <2> QED BY <1>3, <2>1, <2>2
<1>10. ASSUME NEW p \in Party, NEW q \in Party, worker[p][q].at = "seed"
       PROVE  Roles(p, q) = <<>> /\ Roles(q, p) = <<>>
  <2>1. worker[p][q] = seed
    BY <1>1, <1>2, <1>7, <1>10
  <2>2. seed # Unborn /\ seed # open
    BY <1>1, <1>2
  <2>3. p = 0 /\ q \in MaskPeers
    BY <1>3, <2>1, <2>2
  <2> QED BY <1>6, <2>3
<1> QED BY <1>5, <1>8, <1>9, <1>10

LEMMA InitJoint ==
    ASSUME WireInit
    PROVE  /\ JointWorker = worker /\ JointOmega = omega /\ JointChan = chan
           /\ \A p, q \in Party : chan[p][q] = <<>> /\ omega[p][q] = {} /\ prelude[p][q] = 0
           /\ MP!Matrix(omega) /\ MP!Matrix(chan)
           /\ prelude \in [Party -> [Party -> 0..5]]
PROOF
<1>1. \A p, q \in Party : ~Behind(p, q)
  BY InitWorkers DEF WireInit, Behind, Past
<1>2. /\ chan = [p \in Party |-> [q \in Party |-> <<>>]]
      /\ omega = [p \in Party |-> [q \in Party |-> {}]]
      /\ prelude = [p \in Party |-> [q \in Party |-> 0]]
  BY DEF WireInit, Init, Quiet
<1>3. Trim(<<>>) = <<>>
  <2>1. <<>> \in Seq({}) /\ <<>> \in Seq(Bytes) /\ <<>> \o <<>> = <<>>
    BY ConcatEmptySeq
  <2> QED BY <2>1, TrimLine
<1>4. JointChan = chan
  <2>1. \A p, q \in Party : JointChan[p][q] = <<>>
    BY <1>2, <1>3, JointEntry
  <2> QED BY <1>2, <2>1, JointMatrix
<1>5. JointOmega = omega
  <2>1. \A p, q \in Party : JointOmega[p][q] = {}
    BY <1>1, <1>2, JointEntry
  <2> QED BY <1>2, <2>1, JointMatrix
<1>6. JointWorker = worker
  <2>1. \A p, q \in Party : JointWorker[p][q] = worker[p][q]
    BY <1>1, JointEntry
  <2>2. worker \in [Party -> [Party -> [session : {1, 2}, at : Steps]]]
    BY InitWorkers DEF WireInit
  <2> QED BY <2>1, <2>2, JointMatrix
<1> QED BY <1>2, <1>4, <1>5, <1>6, SameParties DEF MP!Matrix

LEMMA InitWire ==
    ASSUME WireInit
    PROVE  MP!Init /\ WireInv
PROOF
<1>1. /\ JointWorker = worker /\ JointOmega = omega /\ JointChan = chan
      /\ \A p, q \in Party : chan[p][q] = <<>> /\ omega[p][q] = {} /\ prelude[p][q] = 0
      /\ MP!Matrix(omega) /\ MP!Matrix(chan)
      /\ prelude \in [Party -> [Party -> 0..5]]
  BY InitJoint
<1>2. /\ worker \in [Party -> [Party -> [session : {1, 2}, at : Steps]]]
      /\ \A p, q \in Party :
           /\ worker[p][q].session = 1 /\ worker[p][q].at \in {"none", "open", "seed"}
           /\ worker[p][q].at = "open" => Roles(p, q) # <<>>
           /\ worker[p][q].at = "seed" => Roles(p, q) = <<>> /\ Roles(q, p) = <<>>
  BY InitWorkers DEF WireInit
<1>3. MP!Init
  <2>1. MP!Idle = Idle
    BY SameOperators, SameParties DEF MP!Idle, Idle
  <2>2. \A p, w : MP!Spawned(p, w) = Spawned(p, w)
    BY SameParties DEF MP!Spawned, Spawned
  <2>3. MP!Quiet <=> Quiet
    BY <1>1, SameParties DEF MP!Quiet, Quiet
  <2>4. MP!Party = Party /\ MP!Unborn = Unborn /\ \A p : MP!Masked(p) <=> Masked(p)
    BY SameParties, SameOperators
  <2> QED BY <1>1, <2>1, <2>2, <2>3, <2>4 DEF WireInit, MP!Init, Init
<1>4. MP!Inv /\ MP!MasksFirst
  BY <1>3, JointNext
<1>5. \A p, q \in Party :
        /\ Count(p, q) \in {0, 6} /\ Place(p, q) = 0
        /\ worker[p][q].at # "seed" => Count(p, q) = 0
  BY <1>1, <1>2 DEF Count, Place
<1>6. \A p, q \in Party : Hello(p, q) = <<>>
  <2>1. \A a, b \in {0, 6} : a - b # 1 /\ a - b # 2
    OBVIOUS
  <2> QED BY <1>5, <2>1 DEF Hello, Unread
<1>7. LinesInv
  <2>1. <<>> \o <<>> = <<>>
    BY ConcatEmptySeq
  <2> QED BY <1>1, <1>6, <2>1 DEF LinesInv
<1>8. MeetInv
  <2>1. ASSUME NEW p \in Party, NEW q \in Party, worker[p][q].at = "open"
        PROVE  <<prelude[p][q], PeerPlace(p, q)>> \in Places(q > p, Role(p, q))
    <3>1. worker[q][p].at # "seed" /\ worker[p][q].session = 1
      BY <1>2, <2>1
    <3>2. PeerPlace(p, q) = 0 - 6 * (1 - 1)
      BY <1>5, <3>1 DEF PeerPlace
    <3> QED BY <1>1, <3>2 DEF Places
  <2> QED BY <2>1 DEF MeetInv, Met
<1>9. RestInv /\ WireTypes
  BY <1>1, <1>2 DEF RestInv, WireTypes
<1> QED BY <1>3, <1>4, <1>7, <1>8, <1>9 DEF WireInv
-----------------------------------------------------------------------------
(* Every process is where MpsiProofs says, and every worker where its peer *)
(* can meet it, with the bytes of the handshakes behind Mpsi's messages.   *)
THEOREM WireInductive == WireSpec => []WireInv
PROOF
<1>1. WireInit => WireInv
  BY InitWire
<1>2. WireInv /\ [WireNext]_wireVars => WireInv'
  BY NextWire
<1> QED BY <1>1, <1>2, PTL DEF WireSpec

(* A worker starts its VOLE only when its peer is at most one byte behind. *)
THEOREM HandshakeMeets == WireSpec => []Rendezvous
PROOF
<1>1. WireInv => Rendezvous
  <2> SUFFICES ASSUME WireInv, NEW p \in Party, NEW q \in Party, InVole(p, q)
               PROVE  /\ worker[q][p].session = worker[p][q].session
                      /\ Past(q, p) \/ (worker[q][p].at = "open" /\ prelude[q][p] >= 3)
    BY DEF Rendezvous
  <2>1. worker[p][q].at = "open" /\ prelude[p][q] >= Len(SyncOps(p, q))
    BY DEF InVole
  <2>2. /\ prelude[p][q] \in 0..5 /\ PeerPlace(p, q) \in 0..6
        /\ <<prelude[p][q], PeerPlace(p, q)>> \in Places(q > p, Role(p, q))
        /\ Role(p, q) \in {"snd", "rcv"}
        /\ PeerPlace(p, q) \in 1..5 => worker[q][p].at = "open"
        /\ worker[q][p].at = "open" =>
             /\ worker[q][p].session = worker[p][q].session
             /\ PeerPlace(p, q) = prelude[q][p]
        /\ PeerPlace(p, q) = 6 <=> Behind(p, q)
    BY <2>1, Seat
  <2>3. prelude[p][q] \in {4, 5}
    <3>1. Len(SyncOps(p, q)) = 4
      BY <2>2, NextOpAt
    <3> QED BY <2>1, <2>2, <3>1
  <2>4. PeerPlace(p, q) \in 3..6
    BY <2>2, <2>3 DEF Places
  <2>5. CASE PeerPlace(p, q) = 6
    BY <2>2, <2>5 DEF Behind
  <2>6. CASE PeerPlace(p, q) \in 3..5
    <3>1. worker[q][p].at = "open" /\ prelude[q][p] \in 3..5
      BY <2>2, <2>6
    <3> QED BY <2>2, <3>1
  <2> QED BY <2>4, <2>5, <2>6
<1> QED BY <1>1, WireInductive, PTL

(* Every behaviour of the sockets, handshakes and threads is one of Mpsi's. *)
THEOREM ImplementsMpsi == WireSpec => RefinesMpsi
PROOF
<1>1. WireInit => M!Init
  BY InitWire, SameSpec
<1>2. WireInv /\ [WireNext]_wireVars => [M!Next]_M!vars
  BY NextWire, SameSpec
<1> QED BY <1>1, <1>2, WireInductive, PTL DEF WireSpec, RefinesMpsi

LEMMA JointPace ==
    ASSUME MP!Inv
    PROVE  /\ \A p, q \in Party :
                JointWorker[p][q].at = "recvAPrime" /\ JointWorker[q][p].at = "open"
                  => JointChan[q][p] # <<>>
           /\ \A p \in Party : main[p] = "mask" /\ p # 0 => p \in MaskPeers
PROOF
<1> USE NAssumption, TAssumption, TopologyAssumption, MaskPeersAssumption, PartySetAssumption,
        CapacityAssumption DEF MP!Party, Party, MP!Middle, Middle
<1>1. \A p, q \in Party :
        JointWorker[p][q].at = "recvAPrime" /\ JointWorker[q][p].at = "open"
          => JointChan[q][p] # <<>>
  BY MP!LateAPrime
<1>2. \A p \in Party : main[p] = "mask" => MP!Masked(p)
  BY DEF MP!Inv, MP!MaskInv
<1> QED BY <1>1, <1>2, MP!MaskFacts

(* What a worker in a handshake finds is the byte it waits for.            *)
LEMMA HandshakeExpects ==
    ASSUME WireInv, NEW p \in Party, NEW q \in Party, worker[p][q].at = "open",
           chan[q][p] # <<>>, WireAwaited(p, q) # "-"
    PROVE  Head(chan[q][p]).kind = WireAwaited(p, q)
PROOF
<1> DEFINE x == prelude[p][q]
           y == PeerPlace(p, q)
<1>1. /\ x \in 0..5 /\ y \in 0..6 /\ Role(p, q) \in {"snd", "rcv"}
      /\ <<x, y>> \in Places(q > p, Role(p, q))
      /\ Count(p, q) - Count(q, p) = x - y
  BY Seat
<1>2. Len(SyncOps(p, q)) = 4 /\ NextOp(p, q) = OpAt(q > p, Role(p, q), x)
  BY <1>1, NextOpAt
<1>3. NextOp(p, q) = "recv" /\ WireAwaited(p, q) = KindAt(x)
  BY <1>1, <1>2 DEF WireAwaited, InSync, InVole, KindAt
<1>4. chan[q][p] = Hello(q, p)
  <2>1. JointChan[q][p] = <<>> /\ chan[q][p] = JointChan[q][p] \o Hello(q, p)
    BY NoPayload, LineSplit
  <2>2. Hello(q, p) \in Seq(Bytes)
    BY LineSplit
  <2> QED BY <2>1, <2>2, ConcatEmptySeq
<1>5. Hello(q, p) = Unread(y - x, x)
  <2>1. Count(q, p) - Count(p, q) = y - x
    <3>1. Count(p, q) \in Int /\ Count(q, p) \in Int
      <4>1. \A k \in 1..2 : \A z \in 0..5 : 6 * (k - 1) \in Int /\ 6 * k \in Int /\ 6 * (k - 1) + z \in Int
        OBVIOUS
      <4> QED BY <4>1, CountFacts
    <3> HIDE DEF x, y
    <3> QED BY <1>1, <3>1
  <2>2. Place(p, q) = x
    BY DEF Place
  <2> QED BY <2>1, <2>2 DEF Hello
<1>6. Head(Unread(y - x, x)) = Byte(KindAt(x))
  <2>1. (q > p) \in BOOLEAN /\ Unread(y - x, x) # <<>>
    BY <1>4, <1>5
  <2> HIDE DEF x, y
  <2>2. Reads(q > p, Role(p, q), x, y)
    BY <1>1, <1>2, <1>3, <2>1 DEF Reads
  <2>3. ReadsRight(q > p, Role(p, q), x, y)
    BY <2>2, ReadPlace
  <2> QED BY <2>3 DEF ReadsRight
<1>7. Byte(KindAt(x)).kind = KindAt(x)
  BY DEF Byte
<1> QED BY <1>3, <1>4, <1>5, <1>6, <1>7

(* Outside the handshakes nobody waits where only bytes of one are left.   *)
LEMMA NobodyWaits ==
    ASSUME WireInv, NEW p \in Party, NEW q \in Party, worker[p][q].at # "open",
           JointChan[q][p] = <<>>, chan[q][p] # <<>>
    PROVE  WireAwaited(p, q) = "-"
PROOF
<1>1. Hello(q, p) # <<>>
  <2>1. <<>> \o <<>> = <<>>
    BY ConcatEmptySeq
  <2> QED BY <2>1, LineSplit
<1>2. ~Behind(p, q)
  BY DEF Behind
<1>3. worker[q][p].at = "open"
  BY <1>1, <1>2, NothingUnread
<1>4. ~Behind(q, p)
  BY <1>1, BehindFacts
<1>5. Roles(p, q) # <<>>
  BY <1>3, Seat
<1>6. JointWorker[p][q] = worker[p][q] /\ JointWorker[q][p] = worker[q][p]
  BY <1>2, <1>4, JointEntry
<1>7. MP!Pace(worker[p][q], worker[q][p])
  BY <1>5, <1>6, PairPace DEF WireInv
<1>8. worker[p][q].at # "recvAPrime"
  BY <1>3, <1>6, JointPace DEF WireInv
<1>9. worker[p][q].at = "none" /\ main[p] = "mask"
  BY <1>3, <1>5, <1>7, <1>8, AtRoles DEF MP!Pace, MP!Between
<1>10. q # 0 \/ p = 0
  BY <1>5, <1>9, JointPace, Places0 DEF WireInv
<1>11. WireAwaited(p, q) = Awaited(p, q)
  BY DEF WireAwaited, InSync, InVole
<1> QED BY <1>9, <1>10, <1>11 DEF Awaited

(* Nobody ever finds another kind of message than the one it waits for.    *)
THEOREM NothingMixed == WireSpec => []NoMixup
PROOF
<1>1. WireInv => NoMixup
  <2> SUFFICES ASSUME WireInv, NEW p \in Party, NEW q \in Party,
                      chan[q][p] # <<>>, WireAwaited(p, q) # "-"
               PROVE  Head(chan[q][p]).kind = WireAwaited(p, q)
    BY DEF NoMixup
  <2>1. CASE worker[p][q].at = "open"
    BY <2>1, HandshakeExpects
  <2>2. CASE worker[p][q].at # "open" /\ JointChan[q][p] = <<>>
    BY <2>2, NobodyWaits
  <2>3. CASE worker[p][q].at # "open" /\ JointChan[q][p] # <<>>
    <3>1. JointWorker[p][q] = worker[p][q]
      BY <2>3, JointEntry DEF Behind
    <3>2. WireAwaited(p, q) = Awaited(p, q) /\ MP!Awaited(p, q) = Awaited(p, q)
      <4>1. WireAwaited(p, q) = Awaited(p, q)
        BY <2>3 DEF WireAwaited, InSync, InVole
      <4>2. MP!Preds(p) = Preds(p)
        BY SameOperators
      <4> QED BY <3>1, <4>1, <4>2 DEF Awaited, MP!Awaited
    <3>3. Head(JointChan[q][p]).kind = Awaited(p, q)
      BY <2>3, <3>2, JointNext, SameParties DEF WireInv, MP!ExpectedMessage
    <3>4. Head(chan[q][p]) = Head(JointChan[q][p])
      <4> DEFINE l == JointChan[q][p]
                 h == Hello(q, p)
      <4>1. PICK S : l \in Seq(S) /\ \A m \in S : m.kind \in Kinds
        BY LineSplit
      <4>2. chan[q][p] = l \o h /\ h \in Seq(Bytes)
        BY LineSplit
      <4>3. l # <<>>
        BY <2>3
      <4> HIDE DEF l, h
      <4> DEFINE W == S \cup Bytes
      <4>4. l \in Seq(W) /\ h \in Seq(W)
        BY <4>1, <4>2, SeqMonotonic
      <4> HIDE DEF W
      <4>5. Head(l \o h) = Head(l)
        <5>1. Len(l) \in Nat \ {0} /\ Len(h) \in Nat
          BY <4>3, <4>4, EmptySeq
        <5>2. Len(l \o h) = Len(l) + Len(h) /\ (l \o h)[1] = l[1] /\ l \o h \in Seq(W)
          BY <4>4, <5>1, ConcatProperties
        <5> QED BY <4>4, <5>1, <5>2
      <4> QED BY <4>2, <4>5 DEF l
    <3> QED BY <3>2, <3>3, <3>4
  <2> QED BY <2>1, <2>2, <2>3
<1> QED BY <1>1, WireInductive, PTL

(* What Rounds' invariant says of the answers, for the joint state.        *)
LEMMA JointAnswer ==
    /\ MP!Init => MP!AnswerInv
    /\ MP!AnswerInv /\ [MP!Next]_MP!vars => MP!AnswerInv'
    /\ MP!AnswerInv => MP!Correctness
PROOF
<1> USE NAssumption, TAssumption, TopologyAssumption, MaskPeersAssumption, PartySetAssumption,
        CapacityAssumption DEF MP!Party, Party, MP!Middle, Middle
<1>1. MP!Init => MP!AnswerInv
  BY MP!InitAnswer
<1>2. MP!AnswerInv /\ [MP!Next]_MP!vars => MP!AnswerInv'
  BY MP!NextAnswer
<1>3. MP!AnswerInv => MP!Correctness
  BY MP!AnswerRight DEF MP!AnswerInv
<1> QED BY <1>1, <1>2, <1>3

(* From the first connection to the end, party 0 reports nothing but the   *)
(* intersection, in whichever order processes connect and threads run.     *)
THEOREM WireAnswerCorrect == WireSpec => []Correctness
PROOF
<1>1. WireInit => MP!AnswerInv
  BY InitWire, JointAnswer
<1>2. WireInv /\ MP!AnswerInv /\ [WireNext]_wireVars => MP!AnswerInv'
  BY NextWire, JointAnswer
<1>3. MP!AnswerInv => Correctness
  BY JointAnswer, SameParties DEF MP!Correctness, Correctness
<1> QED BY <1>1, <1>2, <1>3, WireInductive, PTL DEF WireSpec
=============================================================================
