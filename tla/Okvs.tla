-------------------------------- MODULE Okvs --------------------------------
(***************************************************************************)
(* The OKVS table the protocols exchange: ThreeH_gct of okvs/okvs.h over   *)
(* OBD3Tables of okvs/paxos.cpp.  Peeling (module Peeling) is followed by  *)
(* generateExternalToolValues (External), which solves the equations of    *)
(* the 2-core, and by unpeeling (Unpeel), which solves the peeled keys in  *)
(* reverse order; the variables are then copied to the table (Finish).     *)
(* ThreeH_gct re-encodes with new values, with or without a new peeling.   *)
(*                                                                         *)
(* An element of GF(2^128) is a set of bits and the sum is symmetric       *)
(* difference: the equations only ever add variables.                      *)
(***************************************************************************)
EXTENDS Peeling

CONSTANTS
    Gamma,      \* the number of extra ("dh") variables, 52 in the code
    Bit,        \* the bits of a field element
    Filler,     \* the values a slot no equation determines may be filled with
    Input,      \* the value vectors a caller may encode
    MaxRuns     \* bound on the number of encodings

Value == SUBSET Bit
Zero == {}

ASSUME GammaAssumption == Gamma \in Nat

(* The code fills with the bytes of an empty std::vector object, that is   *)
(* with pointers: whatever they are, they are not all zero.                *)
ASSUME FillerAssumption == Filler \subseteq Value \ {Zero} /\ Filler # {}
ASSUME InputAssumption == Input \subseteq [Key -> Value]

VARIABLES
    dh,         \* dh[k]: the extra variables in the equation of k
    vals,       \* vals[k]: the value to encode at k
    variables,  \* variables[s]: the value of slot s
    sign,       \* the slots the solver determined
    counter,    \* peelingCounter
    mode,       \* "peeling", "external", "unpeeling" or "ready"
    table,      \* ThreeH_gct::table
    runs,       \* how many encodings were started
    zeroed,     \* history: an unpeeled slot came out as zero in this encoding
    solvable    \* history: the equations of the 2-core had a solution

okvsVars == <<dh, vals, variables, sign, counter, mode, table, runs, zeroed, solvable>>
allVars == <<vars, okvsVars>>

Slot == (Table \X Bin) \cup ({4} \X (1..Gamma))
GammaSlot(k) == {<<4, j>> : j \in dh[k]}
At(k, h) == <<h, edge[k][h]>>

Add(a, b) == (a \ b) \cup (b \ a)
Sum(S, f) == {b \in Bit : Cardinality({s \in S : b \in f[s]}) % 2 = 1}

(* dec and decode: the slots of k and their sum.                           *)
Dec(k) == {At(k, h) : h \in Table} \cup GammaSlot(k)
Decode(k, f) == Sum(Dec(k), f)

(* The buckets fillTables found empty.                                     *)
NonOccupied == {s \in Table \X Bin : \A k \in Key : At(k, s[1]) # s}

OkvsInit ==
    /\ Init
    /\ dh \in [Key -> SUBSET (1..Gamma)]
    /\ vals \in Input
    /\ variables = [s \in Slot |-> Zero]
    /\ sign = {}
    /\ counter = 0
    /\ mode = "peeling"
    /\ table = [s \in Slot |-> Zero]
    /\ runs = 1
    /\ zeroed = FALSE
    /\ solvable = TRUE

(* fillTables and peeling, which leave the values alone.                   *)
PeelStep ==
    /\ mode = "peeling"
    /\ stage # "done"
    /\ Scan \/ NextScan \/ Handle \/ NextQueue
    /\ UNCHANGED okvsVars

Peeled ==
    /\ mode = "peeling"
    /\ stage = "done"
    /\ counter' = Len(order)
    /\ mode' = "external"
    /\ UNCHANGED <<vars, dh, vals, variables, sign, table, runs, zeroed, solvable>>

(* The slots of the equations of the 2-core, their solutions, and what the *)
(* solver may answer: some vector if the equations contradict each other.  *)
CoreSlot == {At(k, h) : k \in alive, h \in Table}
Unknown == IF alive = {} THEN {} ELSE CoreSlot \cup ({4} \X (1..Gamma))
Solutions ==
    {f \in [Unknown -> Value] : \A k \in alive : Decode(k, f) = vals[k]}

Answers ==
    LET sols == Solutions IN IF sols # {} THEN sols ELSE [Unknown -> Value]

Filled(s) == s \in NonOccupied \/ s[1] = 4

(* Mutations of External: the slots of the solver are not marked, or the   *)
(* empty buckets are not filled.                                           *)
External_NotSigned ==
    /\ mode = "external"
    /\ solvable' = (Solutions # {})
    /\ \E r \in [Slot -> Filler], sol \in Answers :
         variables' = [s \in Slot |-> IF s \in DOMAIN sol THEN sol[s]
                                      ELSE IF Filled(s) THEN r[s] ELSE Zero]
    /\ mode' = "unpeeling"
    /\ UNCHANGED <<vars, dh, vals, sign, counter, table, runs, zeroed>>

External_NotFilled ==
    /\ mode = "external"
    /\ solvable' = (Solutions # {})
    /\ \E r \in [Slot -> Filler], sol \in Answers :
         variables' = [s \in Slot |-> IF s \in DOMAIN sol THEN sol[s]
                                      ELSE IF s[1] = 4 THEN r[s] ELSE Zero]
    /\ sign' = sign \cup CoreSlot
    /\ mode' = "unpeeling"
    /\ UNCHANGED <<vars, dh, vals, counter, table, runs, zeroed>>

(* generateExternalToolValues: clear the slots, fill the empty buckets and *)
(* the extra variables, solve the core and mark its slots.                 *)
External ==
    /\ mode = "external"
    /\ solvable' = (Solutions # {})
    /\ \E r \in [Slot -> Filler], sol \in Answers :
         variables' = [s \in Slot |-> IF s \in DOMAIN sol THEN sol[s]
                                      ELSE IF Filled(s) THEN r[s] ELSE Zero]
    /\ sign' = sign \cup CoreSlot
    /\ mode' = "unpeeling"
    /\ UNCHANGED <<vars, dh, vals, counter, table, runs, zeroed>>

(* "Not set yet", as unpeeling tests it.                                   *)
Unset(s) == variables[s] = Zero /\ s \notin sign

(* The slot unpeeling solves for: the first unset one of the three.        *)
Target(k) ==
    IF Unset(At(k, 1)) THEN 1
    ELSE IF Unset(At(k, 2)) THEN 2
    ELSE IF Unset(At(k, 3)) THEN 3 ELSE 0

(* The slots after unpeeling k: the other unset slots of k take the        *)
(* fillers r and the target takes what the equation of k requires.         *)
Solved(k, r) ==
    LET t == Target(k)
        filled == [s \in Slot |-> IF \E h \in Table \ {t} : s = At(k, h) /\ Unset(s)
                                    THEN r[s] ELSE variables[s]]
        rest == Sum(Dec(k) \ {At(k, t)}, filled)
    IN  IF t = 0 THEN variables
        ELSE [filled EXCEPT ![At(k, t)] = Add(vals[k], rest)]

(* Mutation of Unpeel: the keys are taken in the order they were peeled.   *)
Unpeel_Forward ==
    /\ mode = "unpeeling"
    /\ counter > 0
    /\ LET k == order[Len(order) + 1 - counter]
       IN  \E r \in [Slot -> Filler] :
             /\ variables' = Solved(k, r)
             /\ zeroed' = (zeroed \/ (Target(k) # 0 /\ variables'[At(k, Target(k))] = Zero))
    /\ counter' = counter - 1
    /\ UNCHANGED <<vars, dh, vals, sign, mode, table, runs, solvable>>

(* One iteration of unpeeling, last peeled first.                          *)
Unpeel ==
    /\ mode = "unpeeling"
    /\ counter > 0
    /\ LET k == order[counter]
       IN  \E r \in [Slot -> Filler] :
             /\ variables' = Solved(k, r)
             /\ zeroed' = (zeroed \/ (Target(k) # 0 /\ variables'[At(k, Target(k))] = Zero))
    /\ counter' = counter - 1
    /\ UNCHANGED <<vars, dh, vals, sign, mode, table, runs, solvable>>

(* Mutation of Finish: peelingCounter stays at zero (as in OBD2Tables).    *)
Finish_NotRestored ==
    /\ mode = "unpeeling"
    /\ counter = 0
    /\ table' = variables
    /\ mode' = "ready"
    /\ UNCHANGED <<vars, dh, vals, variables, sign, counter, runs, zeroed, solvable>>

(* unpeeling restores peelingCounter; getVariables is copied to the table. *)
Finish ==
    /\ mode = "unpeeling"
    /\ counter = 0
    /\ counter' = Len(order)
    /\ table' = variables
    /\ mode' = "ready"
    /\ UNCHANGED <<vars, dh, vals, variables, sign, runs, zeroed, solvable>>

(* encodeOnlyUnpeeling(values), which keeps the peeling.                   *)
EncodeOnlyUnpeeling ==
    /\ mode = "ready"
    /\ runs < MaxRuns
    /\ vals' \in Input
    /\ mode' = "external"
    /\ runs' = runs + 1
    /\ zeroed' = FALSE
    /\ UNCHANGED <<vars, dh, variables, sign, counter, table, solvable>>

(* Mutation of EncodeAgain: peelingCounter is not reset.                   *)
EncodeAgain_KeepsCounter ==
    /\ mode = "ready"
    /\ runs < MaxRuns
    /\ vals' \in Input
    /\ alive' = Key
    /\ order' = <<>>
    /\ stage' = "scan"
    /\ i' = 0
    /\ turn' = 1
    /\ mode' = "peeling"
    /\ runs' = runs + 1
    /\ zeroed' = FALSE
    /\ UNCHANGED <<edge, pos, queue, dh, variables, sign, counter, table, solvable>>

(* encode(values) once more: fillTables inserts all the keys again.        *)
EncodeAgain ==
    /\ mode = "ready"
    /\ runs < MaxRuns
    /\ vals' \in Input
    /\ alive' = Key
    /\ order' = <<>>
    /\ stage' = "scan"
    /\ i' = 0
    /\ turn' = 1
    /\ mode' = "peeling"
    /\ runs' = runs + 1
    /\ zeroed' = FALSE
    /\ counter' = 0
    /\ UNCHANGED <<edge, pos, queue, dh, variables, sign, table, solvable>>

OkvsDone == mode = "ready" /\ runs = MaxRuns /\ UNCHANGED allVars

OkvsNext ==
    \/ PeelStep
    \/ Peeled
    \/ External
    \/ Unpeel
    \/ Finish
    \/ EncodeOnlyUnpeeling
    \/ EncodeAgain
    \/ OkvsDone

OkvsSpec == OkvsInit /\ [][OkvsNext]_allVars
-----------------------------------------------------------------------------
(* The counter of keys left to unpeel is within the peeling vector, and    *)
(* the solver determines slots of the three tables only.                   *)
OkvsTypeOK ==
    /\ TypeOK
    /\ dh \in [Key -> SUBSET (1..Gamma)]
    /\ vals \in [Key -> Value]
    /\ variables \in [Slot -> Value]
    /\ sign \subseteq Table \X Bin
    /\ counter \in 0..Len(order)
    /\ mode \in {"peeling", "external", "unpeeling", "ready"}
    /\ table \in [Slot -> Value]
    /\ zeroed \in BOOLEAN /\ solvable \in BOOLEAN

(* The peeled keys unpeeling has dealt with.                               *)
Unpeeled == {order[n] : n \in (counter+1)..Len(order)}

(* Unpeeling never breaks an equation it has solved: the key it unpeels    *)
(* next has a slot that no solved equation contains, and its code finds it *)
(* by its zero value (1089-1133).  Where a slot legitimately came out as   *)
(* zero nothing is promised.                                               *)
SolvedStaySolved ==
    mode = "unpeeling" /\ ~zeroed =>
        \A k \in Unpeeled : Decode(k, variables) = vals[k]

(* The solver's equations survive unpeeling.                               *)
CoreStaysSolved ==
    mode \in {"unpeeling", "ready"} /\ ~zeroed /\ solvable =>
        \A k \in alive : Decode(k, variables) = vals[k]

(* What the protocols rely on: after each encoding, the first and every    *)
(* later one with or without a new peeling, the table decodes to the       *)
(* values given last (okvs.h 203-235, 304-331, 347-368).                   *)
TableDecodes ==
    mode = "ready" /\ ~zeroed /\ solvable =>
        \A k \in Key : Decode(k, table) = vals[k]

(* No slot of a finished table is left at the zero it was cleared to,      *)
(* except where the solver chose it ("to keep it oblivious", paxos.cpp     *)
(* 688, 910; test_3hgct.cpp 80 counts zero slots).                         *)
NoSlotUnset ==
    mode = "ready" /\ ~zeroed => \A s \in Slot \ Unknown : table[s] # Zero

(* checkOutput (1151-1186) without the proviso about zero: it holds that   *)
(* every equation whose system is solvable is satisfied.                   *)
CheckOutput ==
    mode = "ready" /\ solvable => \A k \in Key : Decode(k, variables) = vals[k]
=============================================================================
