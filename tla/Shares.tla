------------------------------- MODULE Shares -------------------------------
(***************************************************************************)
(* The static part of the protocols of mpsi.cpp and oring_t1.cpp: who the  *)
(* parties are, which pairwise sessions they run, which pseudorandom pads  *)
(* each party XORs into its values, and along which edges the tables       *)
(* travel.                                                                 *)
(*                                                                         *)
(* A value the code keeps for one element is the XOR of pseudorandom       *)
(* blocks.  It is modelled by the set of the blocks that have been XORed   *)
(* an odd number of times, so that XOR is symmetric difference, and two    *)
(* values are equal exactly if their sets are: the blocks are outputs of   *)
(* AES and of a random oracle at secret inputs, so an accidental equality  *)
(* (probability about 2^-40) is idealised away.                            *)
(***************************************************************************)
EXTENDS Integers

CONSTANTS
    N,          \* number of parties (argument -n)
    T,          \* collusion threshold (argument -t)
    Topology,   \* "ring": O-Ring (topology 0), "star": K-Star (otherwise)
    MaskPeers,  \* the parties that share a mask seed with party 0
    Element,    \* what a set can contain
    PartySet    \* PartySet[p]: the input set of party p

Party == 0..(N-1)

(* Parties strictly between 0 and n-t: OPRF receivers.                     *)
Middle == 1..(N-T-1)

(* "The last t parties": OPRF senders, and receivers among themselves.     *)
LastT == (N-T)..(N-1)

ASSUME NAssumption == N \in Nat /\ N >= 2
ASSUME TAssumption == T \in 1..(N-1)
ASSUME TopologyAssumption == Topology \in {"ring", "star"}
ASSUME MaskPeersAssumption == MaskPeers \subseteq Middle
ASSUME PartySetAssumption == PartySet \in [Party -> SUBSET Element]
-----------------------------------------------------------------------------
(* The pads: the AES mask of a seed that party a sent to party b, and the  *)
(* OPRF output of the session with sender a and receiver b.                *)
Mask(a, b) == <<"mask", a, b>>
Oprf(a, b) == <<"oprf", a, b>>

(* What the table of party p decodes to at an element p does not hold: a   *)
(* XOR of unrelated table entries.                                         *)
Junk(p) == <<"junk", p, p>>

Pad   == {"mask", "oprf"} \X Party \X Party
Token == Pad \cup ({"junk"} \X Party \X Party)

Xor(a, b) == (a \ b) \cup (b \ a)
-----------------------------------------------------------------------------
(* Mutations of Roles: both ends of a double session start as the sender;  *)
(* the last parties serve the middle ones even if t = 1.                   *)
Roles_SameOrder(p, q) ==
    CASE p \notin LastT /\ q \in LastT /\ (p = 0 \/ T # 1) -> <<"rcv">>
      [] p \in LastT /\ q \notin LastT /\ (q = 0 \/ T # 1) -> <<"snd">>
      [] p \in LastT /\ q \in LastT /\ p # q              -> <<"snd", "rcv">>
      [] OTHER                                             -> <<>>

Roles_NoT1(p, q) ==
    CASE p \notin LastT /\ q \in LastT /\ (p = 0 \/ T # 1) -> <<"rcv">>
      [] p \in LastT /\ q \notin LastT                    -> <<"snd">>
      [] p \in LastT /\ q \in LastT /\ p < q               -> <<"snd", "rcv">>
      [] p \in LastT /\ q \in LastT /\ q < p               -> <<"rcv", "snd">>
      [] OTHER                                             -> <<>>

(* The OPRF sessions the worker thread of p for peer q runs over their     *)
(* channel, in order, by the role of p.                                    *)
Roles(p, q) ==
    CASE p \notin LastT /\ q \in LastT /\ (p = 0 \/ T # 1) -> <<"rcv">>
      [] p \in LastT /\ q \notin LastT /\ (q = 0 \/ T # 1) -> <<"snd">>
      [] p \in LastT /\ q \in LastT /\ p < q               -> <<"snd", "rcv">>
      [] p \in LastT /\ q \in LastT /\ q < p               -> <<"rcv", "snd">>
      [] OTHER                                             -> <<>>

(* The seeds p shares: party 0 with each peer, a peer with party 0.        *)
MaskTerms(p) ==
    {Mask(0, i) : i \in IF p = 0 THEN MaskPeers ELSE MaskPeers \cap {p}}

(* The peers whose receiver_oprf_values p XORs into its values.            *)
ReceiverTerms(p) ==
    IF p = 0 THEN LastT ELSE IF T # 1 THEN LastT \ {p} ELSE {}

(* Mutations of SenderTerms: a loop that runs one index too far, and a      *)
(* party that forgets the values it shares with the middle parties.        *)
SenderTerms_OffByOne(p) ==
    IF p \notin LastT THEN {}
    ELSE {0} \cup (IF T # 1 THEN (Middle \cup LastT \cup {N}) \ {p} ELSE {})

SenderTerms_NoMiddle(p) ==
    IF p \notin LastT THEN {}
    ELSE {0} \cup (IF T # 1 THEN LastT \ {p} ELSE {})

(* The peers whose sender_oprf_values p XORs into its values: party 0,     *)
(* the middle parties and the other last ones.                             *)
SenderTerms(p) ==
    IF p \notin LastT THEN {}
    ELSE {0} \cup (IF T # 1 THEN (Middle \cup LastT) \ {p} ELSE {})

(* The pads that make up the values of p before any table is absorbed.     *)
ShareOf(p) ==
    MaskTerms(p) \cup {Oprf(s, p) : s \in ReceiverTerms(p)}
                 \cup {Oprf(p, r) : r \in SenderTerms(p)}
-----------------------------------------------------------------------------
(* The parties whose tables p decodes at its own elements and XORs into    *)
(* its values (party 0 compares instead, see Rounds).                      *)
Preds(p) ==
    IF Topology = "ring"
      THEN IF p \in {0, 1} THEN {} ELSE {p - 1}
      ELSE IF p = N - 1 THEN 1..(N-2) ELSE {}

(* The party p sends its table to.                                         *)
NextHop(p) ==
    IF p = N-1 THEN 0
    ELSE IF Topology = "ring" THEN p + 1 ELSE N - 1

(* encodeOnlyUnpeeling followed by decodeByTable at x, on the other side:  *)
(* the table returns the encoded value at the elements of its encoder.     *)
Encode(p, vals) ==
    [x \in Element |-> IF x \in PartySet[p] THEN vals[x] ELSE {Junk(p)}]
=============================================================================
