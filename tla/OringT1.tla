------------------------------ MODULE OringT1 ------------------------------
(***************************************************************************)
(* partyOringT1() of oring_t1.cpp, the program for O-Ring with one         *)
(* colluding party.  It is party() of mpsi.cpp but for three things: only  *)
(* party 1 shares a mask with party 0 (MaskPeers), the parties 2..n-2 have *)
(* no share at all, and party 0 runs its mask worker and its OPRF receiver *)
(* at the same time instead of one after the other.                        *)
(*                                                                         *)
(* For n = 2 the two threads of party 0 would be assigned to the same      *)
(* std::thread, which terminates the process: the program needs n >= 3.    *)
(***************************************************************************)
EXTENDS Mpsi

ASSUME OringAssumption == N >= 3 /\ T = 1 /\ Topology = "ring" /\ MaskPeers = {1}

(* Party 0 has created its mask worker and its receiver, n-1 its sender.   *)
OringInit ==
    /\ main = [p \in Party |-> IF p = 1 THEN "mask" ELSE "oprf"]
    /\ worker = [p \in Party |->
         IF p = 0 THEN [Spawned(0, Idle) EXCEPT ![1].at = "seed"] ELSE Spawned(p, Idle)]
    /\ Quiet

(* mask_worker(1): send the seed and expand it into values.                *)
OringMaskWorker ==
    /\ worker[0][1].at = "seed"
    /\ Send(0, 1, "seed", {Mask(0, 1)})
    /\ worker' = [worker EXCEPT ![0][1].at = "done"]
    /\ mask' = [mask EXCEPT ![0] = {Mask(0, 1)}]
    /\ UNCHANGED <<main, omega, senderOprf, receiverOprf, values, heard, result>>

(* Mutation of OringJoin: the mask worker is not joined.                   *)
OringJoin_NoMask(p) == JoinWorkers(p)

(* Party 0 joins both of its threads, n-1 its one, the others have none.   *)
OringJoin(p) ==
    /\ p = 0 => worker[0][1].at = "done"
    /\ JoinWorkers(p)

OringStep(p) ==
    \/ \E q \in Party : Worker(p, q)
    \/ RecvMask(p)
    \/ OringJoin(p)
    \/ \E q \in Party : RecvTable(p, q)
    \/ SendTable(p)
    \/ p = 0 /\ (OringMaskWorker \/ Output)

OringNext == (\E p \in Party : OringStep(p)) \/ Terminated

OringSpec ==
    OringInit /\ [][OringNext]_vars /\ \A p \in Party : WF_vars(OringStep(p))
=============================================================================
