------------------------------- MODULE Rounds -------------------------------
(***************************************************************************)
(* The protocol at the level of its phases.  Each party combines the pads  *)
(* it shares with its peers into one value per element of its set          *)
(* (Combine), decodes the tables of its predecessors into the values       *)
(* (Absorb) and publishes a table of its own (Publish); party 0 compares   *)
(* its values with the table of party n-1 (Output).  How the pads come     *)
(* about, thread by thread and message by message, is in Mpsi.             *)
(***************************************************************************)
EXTENDS Shares

VARIABLES
    phase,      \* phase[p]: "start", "combined" or "done"
    values,     \* values[p][x]: the value p holds for its element x
    heard,      \* heard[p]: the parties whose tables p has absorbed
    table,      \* table[p]: the table p published, decoded at each element
    result      \* the answers party 0 has given: {}, or {S} for a set S

vars == <<phase, values, heard, table, result>>

NoValues(p) == [x \in PartySet[p] |-> {}]
NoTable == [x \in Element |-> {}]

Init ==
    /\ phase = [p \in Party |-> "start"]
    /\ values = [p \in Party |-> NoValues(p)]
    /\ heard = [p \in Party |-> {}]
    /\ table = [p \in Party |-> NoTable]
    /\ result = {}

(* All the workers of p have been joined and their outputs XORed.          *)
Combine(p) ==
    /\ phase[p] = "start"
    /\ phase' = [phase EXCEPT ![p] = "combined"]
    /\ values' = [values EXCEPT ![p] = [x \in PartySet[p] |-> ShareOf(p)]]
    /\ UNCHANGED <<heard, table, result>>

(* Mutation of Absorb: the decoded values replace the party's own.         *)
Absorb_Overwrite(p, q) ==
    /\ phase[p] = "combined"
    /\ q \in Preds(p) \ heard[p]
    /\ \A r \in Preds(p) \ heard[p] : q <= r
    /\ phase[q] = "done"
    /\ values' = [values EXCEPT ![p] = [x \in PartySet[p] |-> table[q][x]]]
    /\ heard' = [heard EXCEPT ![p] = @ \cup {q}]
    /\ UNCHANGED <<phase, table, result>>

(* p receives the table of its next predecessor, lowest index first, and   *)
(* XORs what it decodes to into its values.                                *)
Absorb(p, q) ==
    /\ phase[p] = "combined"
    /\ q \in Preds(p) \ heard[p]
    /\ \A r \in Preds(p) \ heard[p] : q <= r
    /\ phase[q] = "done"
    /\ values' = [values EXCEPT ![p] =
                    [x \in PartySet[p] |-> Xor(values[p][x], table[q][x])]]
    /\ heard' = [heard EXCEPT ![p] = @ \cup {q}]
    /\ UNCHANGED <<phase, table, result>>

(* Mutation of Publish: the table leaves before the predecessors arrived.  *)
Publish_Early(p) ==
    /\ p # 0
    /\ phase[p] = "combined"
    /\ phase' = [phase EXCEPT ![p] = "done"]
    /\ table' = [table EXCEPT ![p] = Encode(p, values[p])]
    /\ UNCHANGED <<values, heard, result>>

(* p encodes its values and sends the table to its next hop.               *)
Publish(p) ==
    /\ p # 0
    /\ phase[p] = "combined"
    /\ heard[p] = Preds(p)
    /\ phase' = [phase EXCEPT ![p] = "done"]
    /\ table' = [table EXCEPT ![p] = Encode(p, values[p])]
    /\ UNCHANGED <<values, heard, result>>

(* Party 0 keeps the elements at which its value is the decoded one.       *)
Output ==
    /\ phase[0] = "combined"
    /\ phase[N-1] = "done"
    /\ phase' = [phase EXCEPT ![0] = "done"]
    /\ result' = {{x \in PartySet[0] : values[0][x] = table[N-1][x]}}
    /\ UNCHANGED <<values, heard, table>>

Terminated ==
    /\ \A p \in Party : phase[p] = "done"
    /\ UNCHANGED vars

Next ==
    \/ \E p \in Party : Combine(p)
    \/ \E p, q \in Party : Absorb(p, q)
    \/ \E p \in Party : Publish(p)
    \/ Output
    \/ Terminated

Step(p) ==
    \/ Combine(p)
    \/ \E q \in Party : Absorb(p, q)
    \/ Publish(p)
    \/ p = 0 /\ Output

(* Every party is a process of its own that the scheduler keeps running.   *)
Spec == Init /\ [][Next]_vars /\ \A p \in Party : WF_vars(Step(p))
-----------------------------------------------------------------------------
(* A party has one value per element of its set, and a value is a XOR of   *)
(* pads of existing sessions and of garbage: the index loops of mpsi.cpp   *)
(* 233-254, 291-301, 375-395 stay within the n parties.                    *)
TypeOK ==
    /\ phase \in [Party -> {"start", "combined", "done"}]
    /\ values = [p \in Party |-> values[p]]
    /\ \A p \in Party : values[p] \in [PartySet[p] -> SUBSET Token]
    /\ heard \in [Party -> SUBSET Party]
    /\ table \in [Party -> [Element -> SUBSET Token]]
    /\ result \in SUBSET (SUBSET Element)

(* The pads in play: each of them is held by the two parties it names.     *)
PadsInPlay ==
    {Mask(0, i) : i \in MaskPeers} \cup
    {e \in {"oprf"} \X LastT \X Party : e[2] # e[3] /\ (e[3] = 0 \/ T # 1)}

(* The pads with exactly one end in S: what is left when the shares of S   *)
(* are XORed, since a pad with both ends in S cancels.                     *)
Cut(S) == {e \in PadsInPlay : (e[2] \in S) # (e[3] \in S)}

(* The parties whose shares are in the table of q once q is done, and in   *)
(* the values of p so far.                                                 *)
Upstream(q) == IF Topology = "ring" THEN 1..q ELSE {q} \cup Preds(q)
Covered(p) == {p} \cup UNION {Upstream(q) : q \in heard[p]}

(* v is a faithful account, at element x, of the shares of the parties S:  *)
(* the uncancelled pads of S if all of S hold x, and otherwise something   *)
(* that contains the garbage of a party of S that does not.                *)
Represents(v, S, x) ==
    /\ \A j \in Party : Junk(j) \in v => j \in S
    /\ (\A j \in S : x \in PartySet[j]) => v = Cut(S)
    /\ (\E j \in S : x \notin PartySet[j]) => \E j \in S : Junk(j) \in v

Intersection == {x \in Element : \A p \in Party : x \in PartySet[p]}

(* No share is lost, counted twice or mixed up on the way: at every moment *)
(* what a party holds, and every table it published, represents exactly    *)
(* the parties upstream of it (mpsi.cpp 233-240, 291-334, 379-479).        *)
Accounting ==
    /\ \A p \in Party : phase[p] # "start" =>
         \A x \in PartySet[p] : Represents(values[p][x], Covered(p), x)
    /\ \A p \in Party \ {0} : phase[p] = "done" =>
         \A x \in Element : Represents(table[p][x], Upstream(p), x)

(* Party 0 reports exactly the elements all parties hold (mpsi.cpp         *)
(* 259-276; readme.md: "multiparty private set intersection").             *)
Correctness == result \subseteq {Intersection}

(* The protocol is private set intersection: one answer, the right one,    *)
(* eventually.                                                             *)
Abstract == INSTANCE Psi
AbstractSpec == Abstract!Spec

(* Its safety part, which is proved.                                       *)
AbstractSafety == Abstract!Init /\ [][Abstract!Output]_result
=============================================================================
