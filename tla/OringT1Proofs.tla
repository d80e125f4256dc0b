---------------------------- MODULE OringT1Proofs ----------------------------
(***************************************************************************)
(* Proofs about OringT1, for any number of parties that the program can    *)
(* run, any capacity of the sockets and any input sets.  The invariant is  *)
(* that of MpsiProofs, which allows for a mask worker of party 0 that is   *)
(* still running beside the OPRF receiver.                                 *)
(***************************************************************************)
EXTENDS OringT1, MpsiProofs

(* The parties with a role of their own.                                   *)
LEMMA OringFacts ==
    /\ 0 \in Party /\ 1 \in Party /\ 1 \in MaskPeers /\ \A i \in MaskPeers : i = 1
    /\ \A p \in Party : Roles(1, p) = <<>>
    /\ Roles(0, 1) = <<>> /\ Masked(1)
    /\ MaskTerms(0) = {Mask(0, 1)}
PROOF
<1>1. 0 \in Party /\ 1 \in Party /\ MaskPeers = {1} /\ T = 1 /\ 1 \notin LastT
  BY OringAssumption, NAssumption DEF Party, LastT
<1>2. MaskTerms(0) = {Mask(0, 1)} /\ MaskTerms(1) = {Mask(0, 1)}
  BY <1>1 DEF MaskTerms
<1>3. \A p \in Party : Roles(1, p) = <<>>
  BY <1>1 DEF Roles
<1> QED BY <1>1, <1>2, <1>3, MaskFacts DEF Masked

(* Party 0 is never in the stage that waits for the masks.                 *)
OringInv == Inv /\ main[0] # "mask"

(* All threads start at once, but party 1 waits for its seed.              *)
LEMMA OringInitInv == OringInit => OringInv
PROOF
<1> SUFFICES ASSUME OringInit PROVE OringInv
  OBVIOUS
<1> DEFINE open == [session |-> 1, at |-> "open"]
           seed == [session |-> 1, at |-> "seed"]
           none == [session |-> 1, at |-> "none"]
<1>1. main = [p \in Party |-> IF p = 1 THEN "mask" ELSE "oprf"] /\ Quiet
  BY DEF OringInit
<1>2. worker = [p \in Party |-> [q \in Party |->
                 IF p = 0 /\ q = 1 THEN seed ELSE IF Roles(p, q) = <<>> THEN none ELSE open]]
  <2>1. /\ [Unborn EXCEPT !.at = "open"] = open /\ [Unborn EXCEPT !.at = "seed"] = seed
        /\ Unborn = none
    BY DEF Unborn
  <2>2. ASSUME NEW p \in Party
        PROVE  Spawned(p, Idle) = [q \in Party |-> IF Roles(p, q) = <<>> THEN none ELSE open]
    BY <2>1 DEF Spawned, Idle
  <2>3. [Spawned(0, Idle) EXCEPT ![1].at = "seed"] =
          [q \in Party |-> IF q = 1 THEN seed ELSE IF Roles(0, q) = <<>> THEN none ELSE open]
    <3>1. Spawned(0, Idle)[1] = none /\ [none EXCEPT !.at = "seed"] = seed
      BY <2>2, OringFacts
    <3> QED BY <2>2, <3>1, OringFacts
  <2>4. ASSUME NEW p \in Party
        PROVE  worker[p] = [q \in Party |->
                 IF p = 0 /\ q = 1 THEN seed ELSE IF Roles(p, q) = <<>> THEN none ELSE open]
    <3>1. CASE p = 0
      BY <2>3, <3>1 DEF OringInit
    <3>2. CASE p # 0
      BY <2>2, <3>2 DEF OringInit
    <3> QED BY <3>1, <3>2
  <2> QED BY <2>4 DEF OringInit
<1>3. worker \in [Party -> [Party -> [session : {1}, at : {"none", "seed", "open"}]]]
  BY <1>2
<1>4. \A p, q \in Party :
         /\ worker[p][q].at = "seed" => p = 0 /\ q \in MaskPeers
         /\ worker[p][q].at = "open" => Roles(p, q) # <<>>
         /\ Roles(p, q) # <<>> => (worker[p][q].at = "none" <=> main[p] = "mask")
  BY <1>1, <1>2, OringFacts
<1>5. /\ main \in [Party -> {"mask", "oprf"}] /\ main[0] # "mask"
      /\ \A p \in Party : main[p] = "mask" => Masked(p)
      /\ \A i \in MaskPeers : main[i] = "mask"
  BY <1>1, OringFacts
<1>6. Starts
  BY <1>1, <1>3, <1>4, <1>5 DEF Starts
<1> QED BY <1>5, <1>6, StartInv DEF OringInv

(* Party 0 sends the seed and has its mask, whatever its OPRF receiver has *)
(* done meanwhile.                                                         *)
LEMMA OringMaskWorkerInv ==
    ASSUME OringInv, OringMaskWorker
    PROVE  OringInv'
PROOF
<1>1. SendsSeed(1) /\ main' = main /\ mask' = [mask EXCEPT ![0] = {Mask(0, 1)}]
  BY DEF OringMaskWorker, SendsSeed
<1>2. Inv /\ MaskInv /\ main[0] # "mask" /\ DOMAIN mask = Party
  BY DEF OringInv, Inv, Types
<1>3. worker'[0][1].at = "done"
  BY <1>1, <1>2, SeedFacts, OringFacts
<1>4. SeedsSent' /\ \A i \in MaskPeers : worker'[0][i].at = "done"
  BY <1>3, OringFacts DEF SeedsSent
<1>5. /\ mask'[0] = MaskTerms(0) /\ DOMAIN mask' = Party
      /\ \A p \in Party \ {0} : mask'[p] = mask[p]
  BY <1>1, <1>2, OringFacts
<1>6. MaskInv'
  BY <1>1, <1>2, <1>4, <1>5 DEF MaskInv
<1> QED BY <1>1, <1>2, <1>5, <1>6, SendsSeedInv, OringFacts DEF OringInv

(* The steps that are those of mpsi.cpp.                                   *)
LEMMA JoinSeeds ==
    ASSUME NEW p \in Party, OringJoin(p)
    PROVE  JoinWorkers(p) /\ (p = 0 => SeedsSent)
BY OringFacts DEF OringJoin, SeedsSent

LEMMA OringNextInv == OringInv /\ [OringNext]_vars => OringInv'
PROOF
<1> SUFFICES ASSUME OringInv, [OringNext]_vars PROVE OringInv'
  OBVIOUS
<1>1. Inv /\ main[0] # "mask" /\ 0 \in Party /\ DOMAIN main = Party
  BY OringFacts DEF OringInv, Inv, Types
<1>2. CASE UNCHANGED vars
  <2>1. main' = main
    BY <1>2 DEF vars
  <2> QED BY <1>1, <1>2, <2>1, StutterKeeps DEF OringInv
<1>3. ASSUME NEW p \in Party, NEW q \in Party, Worker(p, q) PROVE OringInv'
  <2>1. main' = main
    BY <1>3 DEF Worker, InSession, OpenSession, RcvSendOmega, SndRecvOmega, SndSendOmega,
                RcvRecvOmega, RcvSendAPrime, SndRecvAPrime
  <2> QED BY <1>1, <1>3, <2>1, WorkerKeeps DEF OringInv
<1>4. ASSUME NEW p \in Party,
             RecvMask(p) \/ OringJoin(p) \/ (\E q \in Party : RecvTable(p, q)) \/ SendTable(p)
      PROVE  OringInv'
  <2>1. Inv'
    BY <1>1, <1>4, JoinSeeds, MainKeeps
  <2>2. Main(p)
    BY <1>4, JoinSeeds DEF Main
  <2> QED BY <1>1, <2>1, <2>2, MainStays DEF OringInv
<1>5. ASSUME Output PROVE OringInv'
  <2>1. main'[0] = "closed"
    BY <1>1, <1>5 DEF Output
  <2> QED BY <1>1, <1>5, <2>1, OutputInv DEF OringInv
<1> QED BY <1>2, <1>3, <1>4, <1>5, OringMaskWorkerInv DEF OringNext, OringStep, Terminated

(* Where every thread of oringt1 is and what every socket holds, with the  *)
(* mask worker and the receiver of party 0 in any order.                   *)
THEOREM OringInductive == OringSpec => []OringInv
BY OringInitInv, OringNextInv, PTL DEF OringSpec

(* A party closes its sockets when nobody has anything left to tell it     *)
(* (oring_t1.cpp, as mpsi.cpp 488-497).                                    *)
THEOREM OringDrained == OringSpec => []Drained
PROOF
<1>1. OringInv => Drained
  BY ClosedDrained DEF OringInv
<1> QED BY <1>1, OringInductive, PTL

(* In every order of threads and messages, whoever reads a socket finds    *)
(* the message it waits for, a session starts on an empty socket, and its  *)
(* two ends compute the same pad.                                          *)
THEOREM OringMessages == OringSpec => [](ExpectedMessage /\ CleanChannel /\ SessionAgreement)
PROOF
<1>1. OringInv => ExpectedMessage /\ CleanChannel /\ SessionAgreement
  BY KindExpected, CleanStart, PadsAgree DEF OringInv
<1> QED BY <1>1, OringInductive, PTL
-----------------------------------------------------------------------------
LEMMA OringStepRefines == OringInv /\ [OringNext]_vars => [R!Next]_R!vars
PROOF
<1> SUFFICES ASSUME OringInv, [OringNext]_vars PROVE [R!Next]_R!vars
  OBVIOUS
<1>1. CASE UNCHANGED vars
  <2>1. UNCHANGED <<main, values, heard, result>>
    BY <1>1 DEF vars
  <2> QED BY <2>1, Stutter
<1>2. ASSUME NEW p \in Party,
             RecvMask(p) \/ OringJoin(p) \/ (\E q \in Party : RecvTable(p, q)) \/ SendTable(p)
      PROVE  [R!Next]_R!vars
  BY <1>2, JoinSeeds, MainRefines DEF OringInv
<1>3. ASSUME OringMaskWorker PROVE UNCHANGED R!vars
  <2>1. UNCHANGED <<main, values, heard, result>>
    BY <1>3 DEF OringMaskWorker
  <2> QED BY <2>1, Stutter
<1>4. ASSUME Output PROVE R!Next
  BY <1>4, OutputStep DEF R!Next, OringInv
<1> QED BY <1>1, <1>2, <1>3, <1>4, WorkerRefines DEF OringNext, OringStep, Terminated

LEMMA OringInitRefines == OringInit => R!Init
PROOF
<1>1. OringInit => Quiet /\ \A p \in Party : main[p] \in {"mask", "oprf"}
  BY DEF OringInit
<1> QED BY <1>1, InitRefines

(* Every interleaving of the threads and messages of oring_t1.cpp is a     *)
(* behaviour of Rounds, like those of mpsi.cpp.                            *)
THEOREM OringRefines == OringSpec => RefinesRounds
BY OringInitRefines, OringStepRefines, OringInductive, PTL DEF OringSpec, RefinesRounds

LEMMA OringRounds == OringSpec => []RP!IInv
PROOF
<1>1. OringInit => RP!IInv
  BY OringInitRefines, RoundsInit
<1>2. OringInv /\ RP!IInv /\ [OringNext]_vars => RP!IInv'
  BY OringStepRefines, RoundsNext
<1> QED BY <1>1, <1>2, OringInductive, PTL DEF OringSpec

(* Party 0 of oringt1 never reports anything but the intersection.         *)
THEOREM OringAnswerCorrect == OringSpec => []Correctness
BY OringRounds, AnswerRight, PTL

(* The buffers of the sockets stay within their bound, and every value is  *)
(* made of pads and of table garbage, in oringt1 as well.                  *)
THEOREM OringTypes == OringSpec => []TypeOK
PROOF
<1>1. OringInit => OprfTyped
  BY DEF OringInit, Quiet, OprfTyped
<1>2. ASSUME OringInv, OprfTyped, [OringNext]_vars PROVE OprfTyped'
  <2>1. CASE UNCHANGED <<senderOprf, receiverOprf>>
    BY <1>2, <2>1 DEF OprfTyped
  <2>2. ASSUME NEW p \in Party, NEW q \in Party, Worker(p, q) PROVE OprfTyped'
    BY <1>2, <2>2, WorkerTyped DEF OringInv
  <2>3. ASSUME NEW p \in Party,
               RecvMask(p) \/ OringJoin(p) \/ (\E q \in Party : RecvTable(p, q)) \/ SendTable(p)
        PROVE  UNCHANGED <<senderOprf, receiverOprf>>
    BY <2>3 DEF RecvMask, OringJoin, JoinWorkers, RecvTable, SendTable, threads
  <2>4. ASSUME OringMaskWorker \/ Output PROVE UNCHANGED <<senderOprf, receiverOprf>>
    BY <2>4 DEF OringMaskWorker, Output, threads
  <2>5. ASSUME UNCHANGED vars PROVE UNCHANGED <<senderOprf, receiverOprf>>
    BY <2>5 DEF vars, threads
  <2> QED BY <1>2, <2>1, <2>2, <2>3, <2>4, <2>5 DEF OringNext, OringStep, Terminated
<1>3. OringInv /\ OprfTyped /\ RP!IInv => TypeOK
  BY AllTyped DEF OringInv
<1> QED BY <1>1, <1>2, <1>3, OringInductive, OringRounds, PTL DEF OringSpec
=============================================================================
