------------------------------ MODULE Connect ------------------------------
(***************************************************************************)
(* How the n processes get their sockets: the loop over the peers in       *)
(* party() (mpsi.cpp 36-49, oring_t1.cpp 40-52).  Towards a peer with a    *)
(* higher index a process is the server: it opens an acceptor on the port  *)
(* of the pair and waits for one caller.  Towards a lower one it is the    *)
(* client and tries until the server listens.  The calls block, so that a  *)
(* process is busy with one peer at a time, in the order of the indices.   *)
(* All processes run on one machine and share its ports.                   *)
(***************************************************************************)
EXTENDS Shares

CONSTANTS
    PortBase,   \* port_base, 12121
    PortStep    \* port_step, 100

(* A pair a < b uses PortBase + PortStep * b + a, which no other pair uses *)
(* as long as a < PortStep or there is no party after b: with PortStep + 3 *)
(* parties 0 and N-1 would meet PortStep and N-2.  The programs do not     *)
(* check it.                                                               *)
ASSUME PortAssumption ==
    PortBase \in Nat \ {0} /\ PortStep \in Nat /\ N <= PortStep + 2

Nobody == -1

VARIABLES
    dial,   \* dial[p]: the loop counter i of p
    port,   \* port[p]: the port p listens on, 0 if it does not
    caller, \* caller[p]: the party whose call p's acceptor has taken
    chls    \* chls[p][i]: the party at the other end of p's socket i

links == <<dial, port, caller, chls>>
-----------------------------------------------------------------------------
(* Mutation of Port: the lower index is left out.                          *)
Port_NoLower(p, i) == PortBase + PortStep * (IF i > p THEN i ELSE p)

Port(p, i) ==
    IF i > p THEN PortBase + PortStep * i + p
             ELSE PortBase + PortStep * p + i

(* The index after i in p's loop, which passes over p itself.              *)
After1(p, i) == IF i + 1 = p THEN i + 2 ELSE i + 1

Connected(p) == dial[p] = N

ConnectInit ==
    /\ dial = [p \in Party |-> After1(p, -1)]
    /\ port = [p \in Party |-> 0]
    /\ caller = [p \in Party |-> Nobody]
    /\ chls = [p \in Party |-> [i \in Party |-> Nobody]]

(* asioConnect(..., 1), first half: p opens an acceptor.                   *)
Listen(p) ==
    /\ dial[p] \in (p+1)..(N-1)
    /\ port[p] = 0
    /\ \A q \in Party : port[q] # Port(p, dial[p])
    /\ port' = [port EXCEPT ![p] = Port(p, dial[p])]
    /\ UNCHANGED <<dial, caller, chls>>

(* asioConnect(..., 0): the call of p reaches whoever listens on the port. *)
Call(p, q) ==
    /\ dial[p] < p
    /\ port[q] = Port(p, dial[p])
    /\ caller[q] = Nobody
    /\ caller' = [caller EXCEPT ![q] = p]
    /\ chls' = [chls EXCEPT ![p][dial[p]] = q]
    /\ dial' = [dial EXCEPT ![p] = After1(p, @)]
    /\ UNCHANGED port

(* The second half at the server: it accepts and drops the acceptor.       *)
Accept(p) ==
    /\ caller[p] # Nobody
    /\ chls' = [chls EXCEPT ![p][dial[p]] = caller[p]]
    /\ dial' = [dial EXCEPT ![p] = After1(p, @)]
    /\ port' = [port EXCEPT ![p] = 0]
    /\ caller' = [caller EXCEPT ![p] = Nobody]

ConnectStep(p) ==
    \/ Listen(p)
    \/ \E q \in Party : Call(p, q)
    \/ Accept(p)
-----------------------------------------------------------------------------
(* chls[i] is the socket to party i and to nobody else, although all a     *)
(* process knows of its peer is a port number (mpsi.cpp 41-46).            *)
Paired ==
    \A p, i \in Party : chls[p][i] \in {i, Nobody}
=============================================================================
