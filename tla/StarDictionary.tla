--------------------------- MODULE StarDictionary ---------------------------
(***************************************************************************)
(* StarDictionary of okvs/paxos.cpp (1197-1537): the keys are hashed into  *)
(* q bins, each an OBD3Tables of its own, and one more, the center, is     *)
(* there to save a bin that cannot be peeled.  A key decodes to what its   *)
(* bin and the center decode to, XORed.  encode() runs in three phases of  *)
(* threads that share out the bins, with the main thread in between.       *)
(*                                                                         *)
(* A table is modelled by what module Okvs checks of it, with the same     *)
(* provisos: the keys of the 2-core stay behind in it, and it decodes to   *)
(* the values it was given if the solver finds a solution for them and     *)
(* unpeeling solves no slot to zero; such a slot counts as not set yet and *)
(* is overwritten (1092-1126), which may break equations solved before.    *)
(* A 2-core is a union of crowded sets of keys.  All tables, the center    *)
(* included, have the same size and the same seeds (575-578, 1210-1212),   *)
(* so that a set of keys has the same 2-core, and the same equations, in   *)
(* each of them.                                                           *)
(***************************************************************************)
EXTENDS Integers, Sequences, FiniteSets, Folds, Functions

CONSTANTS
    Key,            \* the keys
    Dummy,          \* the zero block, which fills the places of no key
    Q,              \* q, the number of bins
    NumThreads,     \* numThreads, as the constructor is given it
    Size,           \* numItemsForBin, the hashSize of every table
    V,              \* v, how many keys of a table peeling may leave
    Bit,            \* the bits of a value
    Hash,           \* Hash[k]: hashForBins(k) % q
    Input,          \* the (key, value) sequences a caller may set
    Filling,        \* what keys that are not in a table may decode to
    Tight,          \* sets of keys that may turn out crowded
    MaxEncodings    \* bound on the number of calls of encode

Block == Key \cup {Dummy}
Bin == 0..(Q-1)
Center == Q
Place == 1..Size
Value == SUBSET Bit
Zero == {}

(* The partition of the bins (1359-1377); numThreads is lowered to q.      *)
Threads == IF Q <= NumThreads THEN Q ELSE NumThreads
Each == IF Q <= NumThreads THEN 1 ELSE (Q + NumThreads - 1) \div NumThreads
Thread == 0..(Threads-1)
Start(t) == t * Each

(* Mutation of End: the last bin of a thread is the first of the next.     *)
End_Inclusive(t) == IF (t+1) * Each < Q THEN (t+1) * Each + 1 ELSE Q

End(t) == IF (t+1) * Each <= Q THEN (t+1) * Each ELSE Q

(* Item n of a list goes to bin BinOf and, numItemInBin counting the items *)
(* of each bin, to its place PlaceOf.                                      *)
BinOf(item) == Hash[item.key]
PlaceOf(input, n) == Cardinality({m \in 1..n : BinOf(input[m]) = BinOf(input[n])})

ASSUME StarAssumption ==
    /\ Q \in Nat \ {0} /\ NumThreads \in Nat \ {0} /\ Size \in Nat \ {0} /\ V \in Nat
    /\ Hash \in [Key -> Bin]
    /\ Filling \subseteq [Block -> Value] /\ [k \in Block |-> Zero] \in Filling
    /\ \A S \in Tight : S \subseteq Block /\ Cardinality(S) > 1
    /\ Input \subseteq Seq([key : Key, val : Value])
    /\ \A input \in Input : \A n \in DOMAIN input : PlaceOf(input, n) <= Size

VARIABLES
    knots,      \* the crowded sets of keys
    bad,        \* those whose equations have no solution
    keysFor,    \* keysForBins
    valsFor,    \* valsForBins
    held,       \* held[i]: the map vals of bins[i]
    inside,     \* inside[i]: the keys in the hash tables of bins[i]
    peeled,     \* peeled[i]: the keys of its peeling vector
    signed,     \* signed[i]: the keys whose slots have their sign set
    dec,        \* dec[i][k]: what bins[i] decodes k to
    zeroed,     \* history: zeroed[i]: the last unpeeling of bins[i] solved some
                \* slot to zero
    phase,      \* "new", "idle", "peel", "xor", "unpeel" or "returned"
    at,         \* at[t]: the next bin of thread t
    failures,   \* failureIndices
    failure,    \* failureIndex
    returned,   \* what the last encode returned
    encodings,  \* how many calls of encode there were
    want,       \* history: the values the caller set last
    xors        \* history: how often they have been changed in place

graph == <<knots, bad>>
lists == <<keysFor, valsFor>>
tables == <<held, inside, peeled, signed, dec, zeroed>>
work == <<phase, at, failures, failure, returned, encodings>>
history == <<want, xors>>
vars == <<graph, lists, tables, work, history>>

Add(a, b) == (a \ b) \cup (b \ a)
Core(S) == UNION {T \in knots : T \subseteq S}
Solvable(S) == \A T \in bad : ~(T \subseteq S)
Failed(n) == Size - n > V

Starting == [t \in Thread |-> Start(t)]

Init ==
    /\ knots \in SUBSET Tight
    /\ bad \in SUBSET knots
    /\ keysFor = [i \in Bin |-> [p \in Place |-> Dummy]]
    /\ valsFor = [i \in Bin |-> [p \in Place |-> Zero]]
    /\ held = [i \in 0..Q |-> <<>>]
    /\ inside = [i \in 0..Q |-> {}]
    /\ peeled = [i \in 0..Q |-> {}]
    /\ signed = [i \in 0..Q |-> {}]
    /\ dec = [i \in 0..Q |-> [k \in Block |-> Zero]]
    /\ zeroed = [i \in 0..Q |-> FALSE]
    /\ phase = "new"
    /\ at = Starting
    /\ failures = [t \in Thread |-> -1]
    /\ failure = -1
    /\ returned = FALSE
    /\ encodings = 0
    /\ want = <<>>
    /\ xors = 0
-----------------------------------------------------------------------------
(* vals.insert keeps the first of two equal keys.                          *)
Held(ks, vs) ==
    [k \in Range(ks) |-> vs[CHOOSE p \in Place : ks[p] = k /\ \A r \in 1..(p-1) : ks[r] # k]]

(* setKeysAndVals: the items of a bin go to its first places; the filling  *)
(* of the others is commented out, so they keep what they had: zeros or    *)
(* items of an earlier call.  Of a key that is given twice the first value *)
(* counts.                                                                 *)
SetKeysAndVals(input) ==
    /\ phase \in {"new", "idle", "returned"}
    /\ LET goes(i, p, n) == BinOf(input[n]) = i /\ PlaceOf(input, n) = p
           used(i, p) == \E n \in DOMAIN input : goes(i, p, n)
           item(i, p) == input[CHOOSE n \in DOMAIN input : goes(i, p, n)]
       IN  /\ keysFor' = [i \in Bin |-> [p \in Place |->
                            IF used(i, p) THEN item(i, p).key ELSE keysFor[i][p]]]
           /\ valsFor' = [i \in Bin |-> [p \in Place |->
                            IF used(i, p) THEN item(i, p).val ELSE valsFor[i][p]]]
    /\ held' = [i \in 0..Q |-> IF i \in Bin THEN Held(keysFor'[i], valsFor'[i]) ELSE held[i]]
    /\ phase' = "idle"
    /\ want' = [k \in {input[n].key : n \in DOMAIN input} |->
                  input[CHOOSE n \in DOMAIN input :
                          input[n].key = k /\ \A m \in 1..(n-1) : input[m].key # k].val]
    /\ xors' = 0
    /\ UNCHANGED <<graph, inside, peeled, signed, dec, zeroed, at, failures, failure,
                   returned, encodings>>

(* init of every bin but the center, and fillTables.                       *)
InitTables ==
    /\ phase \in {"idle", "returned"}
    /\ inside' = [i \in 0..Q |-> IF i \in Bin THEN Range(keysFor[i]) ELSE inside[i]]
    /\ peeled' = [i \in 0..Q |-> IF i \in Bin THEN {} ELSE peeled[i]]
    /\ phase' = "idle"
    /\ UNCHANGED <<graph, lists, held, signed, dec, zeroed, at, failures, failure,
                   returned, encodings, history>>

(* encode() starts the threads of the first phase.                         *)
Encode ==
    /\ phase \in {"idle", "returned"}
    /\ encodings < MaxEncodings
    /\ encodings' = encodings + 1
    /\ phase' = "peel"
    /\ at' = Starting
    /\ failures' = [t \in Thread |-> -1]
    /\ UNCHANGED <<graph, lists, tables, failure, returned, history>>

Advance(t) ==
    /\ at[t] < End(t)
    /\ at' = [at EXCEPT ![t] = @ + 1]

Joined == \A t \in Thread : at[t] >= End(t)

(* Mutation of Noted: the failure found last is kept.                      *)
Noted_Last(f, i) == IF i = -1 THEN f ELSE i

(* f and one more result i: -1 is no failure, -2 is more than one.         *)
Noted(f, i) == IF i = -1 THEN f ELSE IF f = -1 THEN i ELSE -2

(* peelMultipleBinsThread: one bin of thread t.                            *)
Peel(t) ==
    /\ phase = "peel"
    /\ Advance(t)
    /\ LET i == at[t]
           core == Core(inside[i])
           count == Cardinality(inside[i] \ core)
       IN  /\ inside' = [inside EXCEPT ![i] = core]
           /\ peeled' = [peeled EXCEPT ![i] = inside[i] \ core]
           /\ failures' = IF Failed(count)
                            THEN [failures EXCEPT ![t] = Noted(@, i)] ELSE failures
    /\ UNCHANGED <<graph, lists, held, signed, dec, zeroed, phase, failure, returned,
                   encodings, history>>
-----------------------------------------------------------------------------
(* The keys whose equations unpeeling may break when it has peeled P: none *)
(* unless a slot came out as zero, and never that of the key it ends with. *)
(* The slots of the 2-core are signed and so not overwritten.              *)
Broken(P, z) == IF z THEN {L \in SUBSET P : L # P} ELSE {{}}

(* generateExternalToolValues and unpeeling of a table that holds the map  *)
(* h, the peeled keys P and the core C: the keys but those in L decode to  *)
(* their values if the core can be solved and no slot outside it is still  *)
(* signed, which unpeeling would take for set; nothing is said of others.  *)
(* A key h does not have, because the keys were set after init, gets zero. *)
Unpeeled(h, P, C, S, L, f) ==
    LET val(k) == IF k \in DOMAIN h THEN h[k] ELSE Zero
    IN  IF Solvable(C) /\ S \subseteq C
          THEN [k \in Block |-> IF k \in (P \cup C) \ L THEN val(k) ELSE f[k]]
          ELSE f

(* generateRandomEncoding draws nothing: the variables become what sigma   *)
(* holds, zeros if no unpeeled table has been copied to it by getVariables *)
(* before.  In the first encoding there was none.                          *)
Generated == IF encodings = 1 THEN {[k \in Block |-> Zero]} ELSE Filling

(* No bin failed: generateRandomEncoding for the center.                   *)
CenterFree ==
    /\ \E f \in Generated : dec' = [dec EXCEPT ![Center] = f]
    /\ UNCHANGED <<held, inside, peeled, signed, zeroed>>

(* Bin b failed: it gets such an encoding, and the center the keys of b,   *)
(* with what is missing to their values.  What its peeling reports is      *)
(* ignored.                                                                *)
CenterSaves(b) ==
    LET S == Range(keysFor[b])
        C == Core(S)
    IN  \E f \in Filling, g \in Generated, z \in BOOLEAN : \E L \in Broken(S \ C, z) :
          LET missing == [p \in Place |-> Add(g[keysFor[b][p]], valsFor[b][p])]
              h == Held(keysFor[b], missing)
          IN  /\ held' = [held EXCEPT ![Center] = h]
              /\ inside' = [inside EXCEPT ![Center] = C]
              /\ peeled' = [peeled EXCEPT ![Center] = S \ C]
              /\ signed' = [signed EXCEPT ![Center] = @ \cup C]
              /\ dec' = [dec EXCEPT ![b] = g,
                           ![Center] = Unpeeled(h, S \ C, C, signed[Center], L, f)]
              /\ zeroed' = [zeroed EXCEPT ![Center] = z]

(* The main thread joins the first phase and generates the center, unless  *)
(* two bins failed, when encode returns false.                             *)
GenerateCenter ==
    /\ phase = "peel"
    /\ Joined
    /\ failure' = FoldFunction(LAMBDA i, f : Noted(f, i), -1, failures)
    /\ \/ failure' = -1 /\ CenterFree
       \/ failure' > -1 /\ CenterSaves(failure')
    /\ phase' = "xor"
    /\ at' = Starting
    /\ UNCHANGED <<graph, lists, failures, returned, encodings, history>>

TwoFailures ==
    /\ phase = "peel"
    /\ Joined
    /\ failure' = FoldFunction(LAMBDA i, f : Noted(f, i), -1, failures)
    /\ failure' = -2
    /\ phase' = "returned"
    /\ returned' = FALSE
    /\ UNCHANGED <<graph, lists, tables, at, failures, encodings, history>>
-----------------------------------------------------------------------------
(* setNewValsThread: one bin of thread t.  The values are changed where    *)
(* they are.                                                               *)
SetNewVals(t) ==
    /\ phase = "xor"
    /\ Advance(t)
    /\ LET i == at[t]
       IN  valsFor' = IF i = failure THEN valsFor
                      ELSE [valsFor EXCEPT ![i] =
                             [p \in Place |-> Add(dec[Center][keysFor[i][p]], @[p])]]
    /\ UNCHANGED <<graph, keysFor, tables, phase, failures, failure, returned,
                   encodings, history>>

(* The main thread hands the new values to the bins.                       *)
Rekey ==
    /\ phase = "xor"
    /\ Joined
    /\ held' = [i \in 0..Q |-> IF i \in Bin \ {failure}
                                 THEN Held(keysFor[i], valsFor[i]) ELSE held[i]]
    /\ phase' = "unpeel"
    /\ at' = Starting
    /\ xors' = xors + 1
    /\ UNCHANGED <<graph, lists, inside, peeled, signed, dec, zeroed, failures, failure,
                   returned, encodings, want>>

(* One bin's generateExternalToolValues and unpeeling.                     *)
UnpeelBin(i) ==
    /\ signed' = [signed EXCEPT ![i] = @ \cup inside[i]]
    /\ \E f \in Filling, z \in BOOLEAN : \E L \in Broken(peeled[i], z) :
         /\ dec' = [dec EXCEPT ![i] =
                      Unpeeled(held[i], peeled[i], inside[i], signed[i], L, f)]
         /\ zeroed' = [zeroed EXCEPT ![i] = z]

(* Mutation of Unpeel: the bin that failed is unpeeled, too.               *)
Unpeel_FailedToo(t) ==
    /\ phase = "unpeel"
    /\ Advance(t)
    /\ UnpeelBin(at[t])
    /\ UNCHANGED <<graph, lists, held, inside, peeled, phase, failures, failure,
                   returned, encodings, history>>

(* unpeelMultipleBinsThread: one bin of thread t.                          *)
Unpeel(t) ==
    /\ phase = "unpeel"
    /\ Advance(t)
    /\ IF at[t] = failure THEN UNCHANGED <<signed, dec, zeroed>> ELSE UnpeelBin(at[t])
    /\ UNCHANGED <<graph, lists, held, inside, peeled, phase, failures, failure,
                   returned, encodings, history>>

Return ==
    /\ phase = "unpeel"
    /\ Joined
    /\ phase' = "returned"
    /\ returned' = TRUE
    /\ UNCHANGED <<graph, lists, tables, at, failures, failure, encodings, history>>

Next ==
    \/ \E input \in Input : SetKeysAndVals(input)
    \/ InitTables
    \/ Encode
    \/ \E t \in Thread : Peel(t) \/ SetNewVals(t) \/ Unpeel(t)
    \/ GenerateCenter
    \/ TwoFailures
    \/ Rekey
    \/ Return

Spec == Init /\ [][Next]_vars
-----------------------------------------------------------------------------
Decode(k) == Add(dec[Hash[k]][k], dec[Center][k])

(* The tables that were unpeeled, and whether they are good: the equations *)
(* of the core have a solution, all signs are of this core, unpeeling has  *)
(* solved no slot to zero, and init has filled the tables with the keys    *)
(* that were set last.                                                     *)
Unpeeling == IF failure = -1 THEN Bin ELSE (Bin \ {failure}) \cup {Center}
Good(i) ==
    /\ Solvable(inside[i]) /\ signed[i] \subseteq inside[i]
    /\ ~zeroed[i]
    /\ i # Center => peeled[i] \cup inside[i] = Range(keysFor[i])

(* If encode returns true, every key decodes to its value, with the center *)
(* or without, also in a bin that failed, provided the tables are good and *)
(* the values have been set since the last encoding: a second one would    *)
(* change them again, in place (1496), although checkOutput (1540-1570)    *)
(* tests every key against the value it was given.  Items an earlier       *)
(* setKeysAndVals left in a bin do no harm.                                *)
Decodes ==
    phase = "returned" /\ returned /\ xors = 1 /\ (\A i \in Unpeeling : Good(i)) =>
        \A k \in DOMAIN want : Decode(k) = want[k]

(* The index the threads' results are combined into, in two levels, says   *)
(* how many bins failed, and which if it was one.                          *)
FailureFound ==
    phase \in {"xor", "unpeel", "returned"} =>
        LET F == {i \in Bin : Failed(Cardinality(peeled[i]))}
        IN  /\ failure = -1 <=> F = {}
            /\ failure > -1 <=> F = {failure}
            /\ phase = "returned" => (returned <=> Cardinality(F) <= 1)

(* The bins are not protected by a lock: no two threads work on the same   *)
(* bin in a phase, and when all have been joined no bin was left out.      *)
NoRace ==
    LET bins(t) == Start(t)..(IF at[t] < End(t) THEN at[t] ELSE at[t] - 1)
    IN  /\ \A s, t \in Thread : s # t => bins(s) \cap bins(t) = {}
        /\ Joined => Bin = UNION {bins(t) : t \in Thread}
=============================================================================
