-------------------------------- MODULE Mpsi --------------------------------
(***************************************************************************)
(* party() of mpsi.cpp, thread by thread and message by message.           *)
(*                                                                         *)
(* A party is a main thread and one worker thread per peer it needs.  The  *)
(* threads of two parties talk over one socket, modelled by a FIFO queue   *)
(* in each direction that holds at most Capacity messages: a send blocks   *)
(* while the queue is full, a receive while it is empty.  util.cpp's sync  *)
(* and libOTe's silent VOLE are exchanges during which both threads of the *)
(* channel do nothing else; together they are one joint step, OpenSession. *)
(***************************************************************************)
EXTENDS Shares, Sequences, FiniteSets

CONSTANT Capacity   \* messages in flight per direction of a socket
ASSUME CapacityAssumption == Capacity \in Nat \ {0}

VARIABLES
    main,           \* main[p]: the stage the main thread of p has reached
    worker,         \* worker[p][q]: p's thread for q: session number, step
    omega,          \* omega[p][q]: the blocks p XORed into omega, this session
    chan,           \* chan[p][q]: the messages from p to q
    mask,           \* mask[p]: the XOR of the masks p computed
    senderOprf,     \* senderOprf[p][q]: sender_oprf_values[q] of p
    receiverOprf,   \* receiverOprf[p][q]: receiver_oprf_values[q] of p
    values,         \* values[p][x]: the value p holds for its element x
    heard,          \* heard[p]: the parties whose table p has decoded
    result          \* the answers party 0 has given

threads == <<worker, omega, senderOprf, receiverOprf>>
vars == <<main, threads, chan, mask, values, heard, result>>
-----------------------------------------------------------------------------
Send(p, q, k, b) ==
    /\ Len(chan[p][q]) < Capacity
    /\ chan' = [chan EXCEPT ![p][q] = Append(@, [kind |-> k, body |-> b])]

(* p takes the next message of kind k from q; a message of another kind    *)
(* has another size, which the receiver's buffer does not take.            *)
Pending(p, q, k) == chan[q][p] # <<>> /\ Head(chan[q][p]).kind = k
Received(p, q) == Head(chan[q][p]).body
Consume(p, q) == chan' = [chan EXCEPT ![q][p] = Tail(@)]

(* The XOR of the token sets f[i], i \in I.                                *)
XorOver(I, f) ==
    {e \in UNION {f[i] : i \in I} : Cardinality({i \in I : e \in f[i]}) % 2 = 1}
-----------------------------------------------------------------------------
(* A worker that is not running yet, and one that is about to start.       *)
Unborn == [session |-> 1, at |-> "none"]

(* p's threads once its main thread has created the OPRF workers.          *)
Spawned(p, w) ==
    [q \in Party |-> IF Roles(p, q) = <<>> THEN w[q] ELSE [w[q] EXCEPT !.at = "open"]]

(* Party 0 first sends its seeds, a mask peer first receives its own.      *)
Masked(p) == MaskTerms(p) # {}

(* Nothing sent, computed or answered yet.                                 *)
Quiet ==
    /\ omega = [p \in Party |-> [q \in Party |-> {}]]
    /\ chan = [p \in Party |-> [q \in Party |-> <<>>]]
    /\ mask = [p \in Party |-> {}]
    /\ senderOprf = [p \in Party |-> [q \in Party |-> {}]]
    /\ receiverOprf = [p \in Party |-> [q \in Party |-> {}]]
    /\ values = [p \in Party |-> [x \in PartySet[p] |-> {}]]
    /\ heard = [p \in Party |-> {}]
    /\ result = {}

Idle == [q \in Party |-> Unborn]

(* The sockets are connected and the main threads have created their first *)
(* workers: mask workers at party 0, none at a mask peer, OPRF workers     *)
(* elsewhere.                                                              *)
Init ==
    /\ main = [p \in Party |-> IF Masked(p) THEN "mask" ELSE "oprf"]
    /\ worker = [p \in Party |->
         IF ~Masked(p) THEN Spawned(p, Idle)
         ELSE IF p = 0
           THEN [q \in Party |-> [Unborn EXCEPT !.at = IF q \in MaskPeers THEN "seed" ELSE @]]
           ELSE Idle]
    /\ Quiet
-----------------------------------------------------------------------------
(* mask_worker(i) of party 0: send the seed, expand it.                    *)
MaskWorker(i) ==
    /\ worker[0][i].at = "seed"
    /\ Send(0, i, "seed", {Mask(0, i)})
    /\ worker' = [worker EXCEPT ![0][i].at = "done"]
    /\ UNCHANGED <<main, omega, mask, senderOprf, receiverOprf, values, heard, result>>

(* Mutation of JoinMasks: only the first mask reaches the values.          *)
JoinMasks_FirstOnly ==
    /\ main[0] = "mask"
    /\ \A i \in MaskPeers : worker[0][i].at = "done"
    /\ main' = [main EXCEPT ![0] = "oprf"]
    /\ mask' = [mask EXCEPT ![0] = {Mask(0, 1)}]
    /\ worker' = [worker EXCEPT ![0] = Spawned(0, @)]
    /\ UNCHANGED <<omega, senderOprf, receiverOprf, chan, values, heard, result>>

(* Party 0 joins the mask workers, XORs the masks and only then creates    *)
(* its OPRF workers.                                                       *)
JoinMasks ==
    /\ main[0] = "mask"
    /\ \A i \in MaskPeers : worker[0][i].at = "done"
    /\ main' = [main EXCEPT ![0] = "oprf"]
    /\ mask' = [mask EXCEPT ![0] = {Mask(0, i) : i \in MaskPeers}]
    /\ worker' = [worker EXCEPT ![0] = Spawned(0, @)]
    /\ UNCHANGED <<omega, senderOprf, receiverOprf, chan, values, heard, result>>

(* Mutation of RecvMask: the seed is read but never expanded.              *)
RecvMask_NotExpanded(p) ==
    /\ p # 0
    /\ main[p] = "mask"
    /\ Pending(p, 0, "seed")
    /\ Consume(p, 0)
    /\ main' = [main EXCEPT ![p] = "oprf"]
    /\ worker' = [worker EXCEPT ![p] = Spawned(p, @)]
    /\ UNCHANGED <<omega, mask, senderOprf, receiverOprf, values, heard, result>>

(* A mask peer receives its seed, expands it and creates its OPRF workers. *)
RecvMask(p) ==
    /\ p # 0
    /\ main[p] = "mask"
    /\ Pending(p, 0, "seed")
    /\ Consume(p, 0)
    /\ main' = [main EXCEPT ![p] = "oprf"]
    /\ mask' = [mask EXCEPT ![p] = Received(p, 0)]
    /\ worker' = [worker EXCEPT ![p] = Spawned(p, @)]
    /\ UNCHANGED <<omega, senderOprf, receiverOprf, values, heard, result>>
-----------------------------------------------------------------------------
Running(p, q, role, step) ==
    /\ worker[p][q].at = step
    /\ Roles(p, q)[worker[p][q].session] = role

Goto(p, q, step) == worker' = [worker EXCEPT ![p][q].at = step]

(* The worker returns from one OPRF function: it enters the next one of    *)
(* its pair or it is finished.                                             *)
Leave(p, q) ==
    worker' = [worker EXCEPT ![p][q] =
                 IF @.session < Len(Roles(p, q))
                   THEN [session |-> @.session + 1, at |-> "open"]
                   ELSE [@ EXCEPT !.at = "done"]]

(* The fresh omega of party p in the session with sender s and receiver r. *)
Fresh(p, s, r) == <<p, s, r>>

(* What a side of session (s, r) computes from the blocks in its omega. If *)
(* these are the two fresh ones, it is the pad Oprf(s, r); otherwise it is *)
(* an output of the random oracle at another input.                        *)
OprfValue(s, r, blocks) ==
    IF blocks = {Fresh(s, s, r), Fresh(r, s, r)}
      THEN {Oprf(s, r)}
      ELSE {<<"oprf", s, r, blocks>>}

(* Sync, then silent VOLE, between the worker of s that runs               *)
(* sender_oprf_worker and that of r that runs receiver_oprf_worker; both   *)
(* sides then draw their omega.                                            *)
OpenSession(s, r) ==
    /\ Running(s, r, "snd", "open")
    /\ Running(r, s, "rcv", "open")
    /\ worker' = [worker EXCEPT ![s][r].at = "recvOmega", ![r][s].at = "sendOmega"]
    /\ omega' = [omega EXCEPT ![s][r] = {Fresh(s, s, r)}, ![r][s] = {Fresh(r, s, r)}]
    /\ UNCHANGED <<main, senderOprf, receiverOprf, chan, mask, values, heard, result>>

(* The receiver sends its omega; the sender answers once it has it.        *)
RcvSendOmega(r, s) ==
    /\ Running(r, s, "rcv", "sendOmega")
    /\ Send(r, s, "omega", omega[r][s])
    /\ Goto(r, s, "recvOmega")
    /\ UNCHANGED <<main, omega, senderOprf, receiverOprf, mask, values, heard, result>>

SndRecvOmega(s, r) ==
    /\ Running(s, r, "snd", "recvOmega")
    /\ Pending(s, r, "omega")
    /\ Consume(s, r)
    /\ omega' = [omega EXCEPT ![s][r] = Xor(@, Received(s, r))]
    /\ Goto(s, r, "sendOmega")
    /\ UNCHANGED <<main, senderOprf, receiverOprf, mask, values, heard, result>>

(* Mutations of SndSendOmega: it sends the XOR of both blocks, or it does  *)
(* not wait for A'.                                                        *)
SndSendOmega_Xored(s, r) ==
    /\ Running(s, r, "snd", "sendOmega")
    /\ Send(s, r, "omega", omega[s][r])
    /\ Goto(s, r, "recvAPrime")
    /\ UNCHANGED <<main, omega, senderOprf, receiverOprf, mask, values, heard, result>>

SndSendOmega_Leaves(s, r) ==
    /\ Running(s, r, "snd", "sendOmega")
    /\ Send(s, r, "omega", {Fresh(s, s, r)})
    /\ Leave(s, r)
    /\ UNCHANGED <<main, omega, senderOprf, receiverOprf, mask, values, heard, result>>

(* The sender sends the block it drew, not the XOR.                        *)
SndSendOmega(s, r) ==
    /\ Running(s, r, "snd", "sendOmega")
    /\ Send(s, r, "omega", {Fresh(s, s, r)})
    /\ Goto(s, r, "recvAPrime")
    /\ UNCHANGED <<main, omega, senderOprf, receiverOprf, mask, values, heard, result>>

RcvRecvOmega(r, s) ==
    /\ Running(r, s, "rcv", "recvOmega")
    /\ Pending(r, s, "omega")
    /\ Consume(r, s)
    /\ omega' = [omega EXCEPT ![r][s] = Xor(@, Received(r, s))]
    /\ Goto(r, s, "sendAPrime")
    /\ UNCHANGED <<main, senderOprf, receiverOprf, mask, values, heard, result>>

(* The receiver sends A' = A ^ P, hashes its queries and returns.          *)
RcvSendAPrime(r, s) ==
    /\ Running(r, s, "rcv", "sendAPrime")
    /\ Send(r, s, "aprime", {<<s, r>>})
    /\ receiverOprf' = [receiverOprf EXCEPT ![r][s] = OprfValue(s, r, omega[r][s])]
    /\ Leave(r, s)
    /\ UNCHANGED <<main, omega, senderOprf, mask, values, heard, result>>

(* The sender receives A', corrects its side with it, hashes and returns.  *)
SndRecvAPrime(s, r) ==
    /\ Running(s, r, "snd", "recvAPrime")
    /\ Pending(s, r, "aprime")
    /\ Consume(s, r)
    /\ senderOprf' = [senderOprf EXCEPT ![s][r] = OprfValue(s, r, omega[s][r])]
    /\ Leave(s, r)
    /\ UNCHANGED <<main, omega, receiverOprf, mask, values, heard, result>>
-----------------------------------------------------------------------------
(* Mutation of JoinWorkers: the workers are not joined.                    *)
JoinWorkers_NoJoin(p) ==
    /\ main[p] = "oprf"
    /\ main' = [main EXCEPT ![p] = "table"]
    /\ values' = [values EXCEPT ![p] = [x \in PartySet[p] |->
         Xor(mask[p], Xor(XorOver(ReceiverTerms(p), receiverOprf[p]),
                          XorOver(SenderTerms(p), senderOprf[p])))]]
    /\ UNCHANGED <<threads, chan, mask, heard, result>>

(* The main thread of p joins its workers and XORs their outputs.          *)
JoinWorkers(p) ==
    /\ main[p] = "oprf"
    /\ \A q \in Party : Roles(p, q) # <<>> => worker[p][q].at = "done"
    /\ main' = [main EXCEPT ![p] = "table"]
    /\ values' = [values EXCEPT ![p] = [x \in PartySet[p] |->
         Xor(mask[p], Xor(XorOver(ReceiverTerms(p), receiverOprf[p]),
                          XorOver(SenderTerms(p), senderOprf[p])))]]
    /\ UNCHANGED <<threads, chan, mask, heard, result>>

(* p receives the table of its next predecessor and XORs in what it        *)
(* decodes to; in K-Star party n-1 takes them in index order.              *)
RecvTable(p, q) ==
    /\ main[p] = "table"
    /\ q \in Preds(p) \ heard[p]
    /\ \A r \in Preds(p) \ heard[p] : q <= r
    /\ Pending(p, q, "table")
    /\ Consume(p, q)
    /\ values' = [values EXCEPT ![p] =
         [x \in PartySet[p] |-> Xor(values[p][x], Received(p, q)[x])]]
    /\ heard' = [heard EXCEPT ![p] = @ \cup {q}]
    /\ UNCHANGED <<main, threads, mask, result>>

(* Mutation of SendTable: p does not wait for its predecessors' tables.    *)
SendTable_Early(p) ==
    /\ p # 0
    /\ main[p] = "table"
    /\ Send(p, NextHop(p), "table", Encode(p, values[p]))
    /\ main' = [main EXCEPT ![p] = "closed"]
    /\ UNCHANGED <<threads, mask, values, heard, result>>

(* p encodes its values, sends the table on, flushes and closes.           *)
SendTable(p) ==
    /\ p # 0
    /\ main[p] = "table"
    /\ heard[p] = Preds(p)
    /\ Send(p, NextHop(p), "table", Encode(p, values[p]))
    /\ main' = [main EXCEPT ![p] = "closed"]
    /\ UNCHANGED <<threads, mask, values, heard, result>>

(* Party 0 receives the table of n-1, decodes it, compares and closes.     *)
Output ==
    /\ main[0] = "table"
    /\ Pending(0, N-1, "table")
    /\ Consume(0, N-1)
    /\ result' = {{x \in PartySet[0] : values[0][x] = Received(0, N-1)[x]}}
    /\ main' = [main EXCEPT ![0] = "closed"]
    /\ UNCHANGED <<threads, mask, values, heard>>

Terminated ==
    /\ \A p \in Party : main[p] = "closed"
    /\ UNCHANGED vars
-----------------------------------------------------------------------------
(* What p's worker for q does in a session once it is open.                *)
InSession(p, q) ==
    \/ RcvSendOmega(p, q)
    \/ SndRecvOmega(p, q)
    \/ SndSendOmega(p, q)
    \/ RcvRecvOmega(p, q)
    \/ RcvSendAPrime(p, q)
    \/ SndRecvAPrime(p, q)

(* What the threads of party p can do; OpenSession is listed with its      *)
(* sender.                                                                 *)
Worker(p, q) == OpenSession(p, q) \/ InSession(p, q)

Main(p) ==
    \/ RecvMask(p)
    \/ JoinWorkers(p)
    \/ \E q \in Party : RecvTable(p, q)
    \/ SendTable(p)

Main0 == (\E i \in MaskPeers : MaskWorker(i)) \/ JoinMasks \/ Output

Step(p) == (\E q \in Party : Worker(p, q)) \/ Main(p) \/ (p = 0 /\ Main0)

Next == (\E p \in Party : Step(p)) \/ Terminated

(* The operating system runs the threads of every process.                 *)
Spec == Init /\ [][Next]_vars /\ \A p \in Party : WF_vars(Step(p))
-----------------------------------------------------------------------------
Steps == {"none", "seed", "open", "sendOmega", "recvOmega", "sendAPrime",
          "recvAPrime", "done"}

(* The two sides of every session compute real pads, the buffers of a      *)
(* socket are within their bound, and a worker never runs more than two    *)
(* sessions.                                                               *)
TypeOK ==
    /\ main \in [Party -> {"mask", "oprf", "table", "closed"}]
    /\ worker \in [Party -> [Party -> [session : {1, 2}, at : Steps]]]
    /\ \A p \in Party : mask[p] \subseteq Pad
    /\ senderOprf \in [Party -> [Party -> SUBSET Pad]]
    /\ receiverOprf \in [Party -> [Party -> SUBSET Pad]]
    /\ \A p \in Party : values[p] \in [PartySet[p] -> SUBSET Token]
    /\ heard \in [Party -> SUBSET Party]
    /\ \A p, q \in Party : Len(chan[p][q]) <= Capacity
    /\ result \subseteq SUBSET Element

(* The kind of message the thread of p that owns the channel from q waits  *)
(* for, or "-" if it is not waiting.                                       *)
Awaited(p, q) ==
    CASE q = 0 /\ main[p] = "mask" /\ p # 0                     -> "seed"
      [] worker[p][q].at = "recvOmega"                          -> "omega"
      [] worker[p][q].at = "recvAPrime"                         -> "aprime"
      [] main[p] = "table" /\ (q \in Preds(p) \/ <<p, q>> = <<0, N-1>>) -> "table"
      [] OTHER                                                  -> "-"

(* Whatever the interleaving of the processes, the message at the head of  *)
(* a channel is the one the reading thread is waiting for: two sessions    *)
(* share a socket one after the other (mpsi.cpp 188-211) and a fast peer   *)
(* never gets its next message read as the current one.                    *)
ExpectedMessage ==
    \A p, q \in Party :
        chan[q][p] # <<>> /\ Awaited(p, q) # "-" => Head(chan[q][p]).kind = Awaited(p, q)

(* Sync and VOLE use the raw socket: when the two threads of a channel     *)
(* enter them no protocol message is left in either direction.             *)
CleanChannel ==
    \A s, r \in Party :
        Running(s, r, "snd", "open") /\ Running(r, s, "rcv", "open") =>
            chan[s][r] = <<>> /\ chan[r][s] = <<>>

(* The two sides of every session that both have left computed the same    *)
(* pad, although each assembled its omega in a different order.            *)
Left(p, q, role) ==
    \E k \in 1..Len(Roles(p, q)) :
        /\ Roles(p, q)[k] = role
        /\ worker[p][q].session > k \/ worker[p][q].at = "done"

SessionAgreement ==
    \A s, r \in Party :
        Left(s, r, "snd") /\ Left(r, s, "rcv") => senderOprf[s][r] = receiverOprf[r][s]

(* A party closes its sockets (488-497) when nobody has anything left to   *)
(* tell it: no message is lost in a closed socket.                         *)
Drained ==
    \A p \in Party : main[p] = "closed" => \A q \in Party : chan[q][p] = <<>>

(* Party 0 reports exactly the elements every party holds (269-275),       *)
(* whatever the order in which threads ran and messages arrived.           *)
Correctness == result \subseteq {{x \in Element : \A p \in Party : x \in PartySet[p]}}

(* All processes of the run end, without a cycle of parties that wait for  *)
(* each other.                                                             *)
Termination == <>(\A p \in Party : main[p] = "closed")
-----------------------------------------------------------------------------
(* The phases of Rounds, as functions of the threads' state.               *)
Phase ==
    [p \in Party |-> CASE main[p] = "closed" -> "done"
                       [] main[p] = "table"  -> "combined"
                       [] OTHER              -> "start"]

Published ==
    [p \in Party |-> IF p # 0 /\ main[p] = "closed"
                       THEN Encode(p, values[p])
                       ELSE [x \in Element |-> {}]]

R == INSTANCE Rounds WITH phase <- Phase, table <- Published

(* Every interleaving of threads and messages is a behaviour of Rounds.    *)
RefinesRounds == R!Init /\ [][R!Next]_R!vars
=============================================================================
