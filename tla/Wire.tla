-------------------------------- MODULE Wire --------------------------------
(***************************************************************************)
(* mpsi from the first connection to the end: the processes connect        *)
(* (Connect), and each session begins with the messages that Mpsi takes as *)
(* one joint step, the handshake of util.cpp's sync and libOTe's silent    *)
(* VOLE.  A process starts working when its own loop is over, while others *)
(* may still be connecting; a worker may be in the VOLE of a session while *)
(* its peer has not read the last byte of the handshake.                   *)
(***************************************************************************)
EXTENDS Mpsi, Connect

VARIABLE prelude    \* prelude[p][q]: how many sends and receives of sync and
                    \* of the VOLE p's worker for q has done in this session

wireVars == <<vars, links, prelude>>

WireInit ==
    /\ Init
    /\ ConnectInit
    /\ prelude = [p \in Party |-> [q \in Party |-> 0]]
-----------------------------------------------------------------------------
(* Mutations of SyncOps: both ends take the receiver's part, the sender    *)
(* does not wait for an answer, or it leaves the last byte unread.         *)
SyncOps_BothReceive(p, q) == <<"recv", "send", "recv", "send">>

SyncOps_NoWait(p, q) ==
    IF q > p THEN <<"send", "send", "recv", "recv">>
             ELSE <<"recv", "send", "recv", "send">>

SyncOps_LastUnread(p, q) ==
    IF q > p THEN <<"send", "recv", "send">>
             ELSE <<"recv", "send", "recv", "send">>

(* sync(chl, role): the party with the lower index is Role::Sender,        *)
(* whatever its part in the OPRF.                                          *)
SyncOps(p, q) ==
    IF q > p THEN <<"send", "recv", "send", "recv">>
             ELSE <<"recv", "send", "recv", "send">>

(* silentReceive and silentSend, as far as this code relies on them: the   *)
(* receiver speaks first and both return only after an answer.             *)
VoleOps(role) == IF role = "rcv" THEN <<"send", "recv">> ELSE <<"recv", "send">>

Role(p, q) == Roles(p, q)[worker[p][q].session]
Prelude(p, q) == SyncOps(p, q) \o VoleOps(Role(p, q))

InSync(p, q) == worker[p][q].at = "open" /\ prelude[p][q] < Len(SyncOps(p, q))
InVole(p, q) == worker[p][q].at = "open" /\ prelude[p][q] >= Len(SyncOps(p, q))

(* p's next operation with q is to send, or to receive.                    *)
NextOp(p, q) == Prelude(p, q)[prelude[p][q] + 1]

Transfer(p, q, kind) ==
    \/ NextOp(p, q) = "send" /\ Send(p, q, kind, {})
    \/ NextOp(p, q) = "recv" /\ Pending(p, q, kind) /\ Consume(p, q)

Sync(p, q) ==
    /\ InSync(p, q)
    /\ Transfer(p, q, "sync")
    /\ prelude' = [prelude EXCEPT ![p][q] = @ + 1]
    /\ UNCHANGED <<main, threads, mask, values, heard, result>>

(* The first step after the VOLE, and the omega p draws for it.            *)
FirstStep(role) == IF role = "rcv" THEN "sendOmega" ELSE "recvOmega"
Drawn(p, q) == IF Role(p, q) = "rcv" THEN {Fresh(p, q, p)} ELSE {Fresh(p, p, q)}

(* Mutation of Enter: the omega of the previous session is used again.     *)
Enter_KeepsOmega(p, q) ==
    /\ prelude' = [prelude EXCEPT ![p][q] = 0]
    /\ omega' = [omega EXCEPT ![p][q] = IF @ = {} THEN Drawn(p, q) ELSE @]
    /\ Goto(p, q, FirstStep(Role(p, q)))

Enter(p, q) ==
    /\ prelude' = [prelude EXCEPT ![p][q] = 0]
    /\ omega' = [omega EXCEPT ![p][q] = Drawn(p, q)]
    /\ Goto(p, q, FirstStep(Role(p, q)))

Vole(p, q) ==
    /\ InVole(p, q)
    /\ Transfer(p, q, "vole")
    /\ IF prelude[p][q] + 1 < Len(Prelude(p, q))
         THEN /\ prelude' = [prelude EXCEPT ![p][q] = @ + 1]
              /\ UNCHANGED <<worker, omega>>
         ELSE Enter(p, q)
    /\ UNCHANGED <<main, senderOprf, receiverOprf, mask, values, heard, result>>
-----------------------------------------------------------------------------
Connecting(p) == ConnectStep(p) /\ UNCHANGED <<vars, prelude>>

Handshaking(p) ==
    /\ Connected(p)
    /\ \E q \in Party : Sync(p, q) \/ Vole(p, q)
    /\ UNCHANGED links

Working(p) ==
    /\ Connected(p)
    /\ (\E q \in Party : InSession(p, q)) \/ Main(p) \/ (p = 0 /\ Main0)
    /\ UNCHANGED <<links, prelude>>

WireStep(p) == Connecting(p) \/ Handshaking(p) \/ Working(p)

WireNext ==
    \/ \E p \in Party : WireStep(p)
    \/ Terminated /\ UNCHANGED wireVars

(* The operating system runs every process.                                *)
WireSpec ==
    WireInit /\ [][WireNext]_wireVars /\ \A p \in Party : WF_wireVars(WireStep(p))
-----------------------------------------------------------------------------
Past(p, q) == worker[p][q].at \notin {"none", "seed", "open", "done"}

(* What sync is for, "to start both parties at the same time" (util.cpp    *)
(* 176): a worker starts its VOLE only when its peer is in the handshake   *)
(* of the same session of the two, at most one byte behind, or further.    *)
Rendezvous ==
    \A p, q \in Party : InVole(p, q) =>
        /\ worker[q][p].session = worker[p][q].session
        /\ Past(q, p) \/ (worker[q][p].at = "open" /\ prelude[q][p] >= 3)

(* The message p's worker for q waits for.                                 *)
WireAwaited(p, q) ==
    CASE worker[p][q].at # "open" -> Awaited(p, q)
      [] InSync(p, q) /\ NextOp(p, q) = "recv" -> "sync"
      [] InVole(p, q) /\ NextOp(p, q) = "recv" -> "vole"
      [] OTHER -> "-"

(* Bytes of the handshake, libOTe's messages, blocks and tables follow one *)
(* another on a socket without a delimiter, two sessions long.  Whoever is *)
(* ahead, nobody ever finds another kind of message than it waits for.     *)
NoMixup ==
    \A p, q \in Party :
        Connected(p) /\ chan[q][p] # <<>> /\ WireAwaited(p, q) # "-"
            => Head(chan[q][p]).kind = WireAwaited(p, q)

(* Mpsi's joint step OpenSession is taken when the first of the two leaves *)
(* the VOLE; the other is then taken to have left it, too.                 *)
Behind(p, q) ==
    /\ worker[p][q].at = "open"
    /\ Past(q, p)
    /\ worker[q][p].session = worker[p][q].session

JointWorker ==
    [p \in Party |-> [q \in Party |->
        IF Behind(p, q) THEN [worker[p][q] EXCEPT !.at = FirstStep(Role(p, q))]
                        ELSE worker[p][q]]]

JointOmega ==
    [p \in Party |-> [q \in Party |->
        IF Behind(p, q) THEN Drawn(p, q) ELSE omega[p][q]]]

(* Mpsi's messages on a socket come before those of the next handshake.    *)
Payload(m) == m.kind \notin {"sync", "vole"}
Trim(c) == SubSeq(c, 1, Cardinality({i \in DOMAIN c : Payload(c[i])}))
JointChan == [p \in Party |-> [q \in Party |-> Trim(chan[p][q])]]

M == INSTANCE Mpsi WITH worker <- JointWorker, omega <- JointOmega, chan <- JointChan

(* Connecting and the handshakes change nothing for Mpsi: a session opens  *)
(* for both of its ends at once, with a socket that holds nothing of it.   *)
RefinesMpsi == M!Init /\ [][M!Next]_M!vars
=============================================================================
