# Verification of O-Ring and K-Star

TLA+ specifications, model-checking runs and machine-checked proofs for the
multi-party private set intersection programs of this repository: `mpsi`
(O-Ring and K-Star), `oringt1` (O-Ring with one colluding party) and the
oblivious key-value store (OKVS) in `okvs/` that both are built on.

`PROJECT.json` lists the components, runs, theorems, hazards, findings, and for
every definition the source lines it stands for.

## 1. The system

`n` processes run on one machine or network, each with a set of `m` blocks.
Party 0 is to learn the intersection of all sets. Every pair of processes has
one socket. With threshold `t`, parties fall into three kinds, each with a
branch of its own in `party()`: party 0; the *middle* parties `1..n-t-1`, which
are OPRF receivers; the *last t* parties `n-t..n-1`, which are OPRF senders to
party 0 and the middle ones, and both sender and receiver to each other.

| component | state | operations | interacts with |
|---|---|---|---|
| `mpsi.cpp` `party()` | `values`, `masks`, `sender_oprf_values[i]`, `receiver_oprf_values[i]`, thread objects, sockets | send or receive a mask seed, spawn and join OPRF workers, XOR their outputs, receive, decode, encode and send tables, compare, flush and close | one worker thread per peer (shared vectors, joins); peers (sockets); the OKVS (calls) |
| `oring_t1.cpp` `partyOringT1()` | the same | a reduced `party()`: one mask, one OPRF, a ring of tables | as above |
| OPRF session (worker lambdas) | `omega`, VOLE vectors, hashes | sync, silent VOLE, exchange of omega, A', hash | the peer's worker over the pair's socket |
| `util.cpp` `sync` | four one-byte messages | handshake before each VOLE | both workers |
| connection setup | `chls[i]` | `asioConnect` in index order | all peers |
| `ThreeH_gct` / `OBD3Tables` | three hash tables, `peelingVector`, `peelingCounter`, `variables`, `sign`, `table` | `fillTables`, `peeling`, `handleQueue`, `generateExternalToolValues`, `unpeeling`, `encode`, `encodeOnlyUnpeeling`, `decode` | the linear solver; callers in both programs |
| `linear_solver.cpp` | matrix, solution | Gaussian elimination, back substitution | OKVS |
| `Paxos` / `OBD2Tables`, `StarDictionary` | as above, two tables; bins of tables | the same operations | not used by the programs |
| `odhasher.h`, latency helpers, statistics, tests, scripts | none that the protocol depends on | | |

What makes each correct:

* *Protocol.* Every pad that two parties share enters the final comparison an
  even number of times, whatever the roles, the topology and the order of
  messages, so that party 0's value equals the decoded table exactly at the
  common elements; all processes end.
* *OPRF session.* Both ends compute the same value from contributions they
  exchange in opposite orders; two sessions that share a socket never mix.
* *Connections.* Every socket joins the two ends that mean each other; nobody
  reads a byte of one sub-protocol as part of another.
* *Linear solver.* A system that has a solution is solved; a contradiction does
  not spoil equations that have nothing to do with it.
* *Star dictionary.* Each bin is worked on by one thread; a bin that cannot be
  peeled is noticed, and every key still decodes to its value.
* *OKVS.* Peeling leaves exactly the 2-core whatever the order of its work
  queues; unpeeling never breaks an equation it or the solver has solved; a
  second encoding is as good as the first.

What is hard here: processes and worker threads interleave freely; roles are
decided separately in two processes by comparing indices; sockets carry several
sub-protocols one after the other; the OKVS is re-encoded in place; a zero
value doubles as "unset". There are no retries, no persistence and no recovery
in the code. The complete list, with lines, is under `hazards`.

## 2. The modules

```
            Psi                      abstract: one answer, the intersection
             ^ implemented by (proved: safety; checked: liveness)
 Shares <- Rounds                    phases of a party
   ^         ^ implemented by (proved)
   +------ Mpsi  <- OringT1          threads, sessions, messages; oring_t1.cpp
   |         ^ implemented by (proved)
   +------ Wire -> Connect           + connections, handshakes, VOLE messages

 Peeling <- Okvs                     three tables: hash graph, peeling; encoding
 LinearSolver                        the solver Okvs takes for granted
 TwoTables                           the variant with two tables
 StarDictionary                      bins of tables, peeled by threads
```

The theorems about a module `M` are in `MProofs`, which extends it; `MpsiProofs`
uses `RoundsProofs` through the refinement mapping, `WireProofs` uses
`MpsiProofs` in the same way, `OringT1Proofs` extends it, and the theorems about
`Peeling` are the first part of `OkvsProofs`. `Psi` has no theorems of its own.

**Shares** is the static part of both programs: the kinds of parties, the
sessions a worker runs (`Roles`), which pads each kind of party XORs
(`MaskTerms`, `ReceiverTerms`, `SenderTerms`), and where tables go (`Preds`,
`NextHop`). An XOR of pseudorandom blocks is a *set of tokens* under symmetric
difference, one token per mask or OPRF output; a table decodes to the encoded
value at the encoder's elements and to a token of its own, `Junk`, elsewhere.
An accidental equality of two pseudorandom values is left out: the code accepts
it with probability about 2^-40 per element (`output_byte_length`).
All elements that a pad is computed for share its token: the pads at different
elements are never compared with each other.

**Rounds** has one action per phase of a party: `Combine` (join the workers,
XOR), `Absorb` (receive and decode a predecessor's table), `Publish` (encode,
send), `Output` (party 0 compares). `values` and `table` are the vectors of the
code seen per element.

**Mpsi** is `party()` at the level of threads and messages. `main[p]` is where
the main thread is, `worker[p][q]` the thread for peer `q` with the number of
its session and its step in it, `chan[p][q]` a socket direction with at most
`Capacity` messages. The step names follow the calls: `sendOmega`, `recvOmega`,
`sendAPrime`, `recvAPrime`. `util.cpp`'s sync and libOTe's VOLE are one joint
step of both threads, `OpenSession`, since until they return neither thread can
do anything else. `OprfValue` gives both ends the pad only if their omegas are
XORs of the same two fresh blocks. Encoding h1 before the workers start is not a
step of its own: it is local. `Phase` and `Published` are the refinement mapping
to Rounds.

**OringT1** reuses the actions of Mpsi and replaces those that differ: the mask
worker of party 0 runs beside its OPRF receiver and writes straight into
`values`, and only party 1 has a mask.

**Connect** is the loop of `asioConnect` calls both programs begin with: the
process is a server to peers with a higher index and a client to the others,
knows its peer by a port number only, and blocks in each call. All processes
share one machine's ports, as in `run_protocol.sh`.

**Wire** composes Connect with Mpsi and replaces the joint step `OpenSession` by
what happens on the socket: the four bytes of `sync`, whose role is decided by
the indices (`SyncOps`), and the messages of the VOLE (`VoleOps`, the one part
that is libOTe's: the receiver speaks first, both return after an answer). A
process starts to work while others are still connecting, and a worker may be in
the VOLE, or beyond, before its peer has left the handshake. The refinement
mapping takes `OpenSession` at the moment the first of two workers leaves the
VOLE and hides the bytes on the sockets.

**Peeling** is `fillTables`, `peeling` and `handleQueue`, one action per loop
iteration: three scans, then queues of buckets. `handleQueue`'s bound, which
compares the counter with the shrinking queue, is modelled as written. A key is
erased from all three `unordered_set`s at each removal, so the variable `alive`
stands for the contents of all of them.

**Okvs** adds the rest of an encoding: `External`
(`generateExternalToolValues`: clear, fill, solve the 2-core, mark `sign`),
`Unpeel` (one key of `unpeeling`), `Finish` (restore the counter, copy
`variables` to `table`), and the two ways to encode again. A field element is a
set of bits, its sum symmetric difference: the equations only add variables.
`zeroed` and `solvable` are history variables: an unpeeled slot came out as
zero; the equations of the 2-core had a solution.
The solver is abstract: any solution, or any vector if there is none
(`SolvableSolved`, section 4, shows it of `LinearSolver`).

**LinearSolver** is `solver`: `NTL::gauss` (external: any choice of pivots) on
coefficients 0 and 1, then one action per row of the back substitution, with any
value for what `random_GF2E` returns.

**TwoTables** is `Paxos` with `OBD2Tables`. It has the interface of
`ThreeH_gct` and differs where the code does: peeling follows a chain of keys
(`Chain`), one loop iteration per step; the solver is not called; nothing is
cleared between encodings; `decodeByTable` overwrites the object's variables.
`zeroed` is a history variable as in Okvs: `OBD2Tables` takes a slot of value
zero for unset, too.

**StarDictionary** is the class of that name: `setKeysAndVals`, `init`, and
`encode` with the main thread's steps and one step per bin of each worker
thread. `setKeysAndVals` puts the next item of a bin at the place the counter
`numItemInBin` names (`PlaceOf`); of a key given twice, the first value counts.
A bin is not Okvs in detail but what Okvs is proved to be, with the provisos of
the proof: keys of the 2-core stay behind, and the table decodes to its values if
the equations of the 2-core have a solution, no slot outside it is still marked
by `sign`, and unpeeling solved no slot to zero. If it did (`zeroed`), the
equations of any peeled keys may be broken, but for one that is dealt with last
(`Broken`); keys of the 2-core are safe, as their slots are marked. What a key
decodes to that is not in the table, or whose equation is broken, is any value.
`generateRandomEncoding` draws nothing: `sigma` is filled by `getVariables` only,
so in a first encoding it gives zeros (`Generated`). Which
sets of keys are crowded and which of their systems are contradictory is chosen
at the start, once for all tables, because the code gives all of them the same
seeds.

Operators whose name has a suffix (`Publish_Early`, `Roles_SameOrder`, ...) are
deliberate mistakes in the definition they are named after, and no
specification uses them: with one of them in the definition's place the property
it is listed with in `PROJECT.json` (`mutants`) fails, which shows that the
property depends on that code.

The MC modules give the constants values TLC can handle. Where an element is
modelled as *the set of parties that hold it*, one run covers every way of
sharing an element.

## 3. The runs

| run | instance | question |
|---|---|---|
| `rounds_ring` | n=6, t=2, ring, all 64 membership patterns | shares accounted for, answer right and eventually given |
| `mpsi_ring` | n=4, t=2, ring, one message per direction | threads and sockets: expected messages, clean sessions, agreement, drained sockets, termination, refinement of Rounds |
| `mpsi_t1` | n=5, t=1, star, two messages per direction | the branch for t = 1: three mask peers, one OPRF session; n-1 gathers the tables |
| `oring_t1` | n=5, one message | the other program |
| `wire` | n=3, t=2, star, two messages per direction | right sockets, joint start, no message mistaken for another, termination, refinement of Mpsi |
| `peeling` | 6 keys, 2 buckets per table, every graph | 2-core, nothing forgotten, termination |
| `okvs` | 3 keys, 2 buckets per table, 1 extra variable, every graph; 5 value vectors over a field of 4 elements for 1 encoding, 4 over its subfield of 2 for 2 encodings | re-encoding: the table decodes to the values given last; equations stay solved, no slot is left out |
| `solver` | every system of 3 equations in 4 variables over GF(2) | rows stay solved, contradictions are confined |
| `two_tables` | 5 keys, 3 buckets per table, every graph, 2 value vectors, 2 encodings | 2-core, order, and the table of the first encoding |
| `star_dictionary` | 3 bins of 2 places, 2 threads, 5 keys in two lists, one with a key twice, 2 sets that may be crowded, 2 encodings | failures found, threads disjoint, keys decode |
| `okvs_zero` | as `okvs`, subfield only | first finding below |
| `two_tables_again` | as `two_tables` | second finding |

Why the bounds are enough. Four parties with t = 2 is the least instance with
every kind of thread: party 0, a middle party, and two last parties whose pair
runs two sessions over a socket. The number of pairs grows with n but each pair
is independent of the others until the joins; how many shares meet at a party
is the subject of Rounds, which is proved for every n. (n=4, t=3 at the level
of threads has three such pairs and does not fit.) K-Star
differs from O-Ring only in where tables go, which `mpsi_t1` and `wire` run. In
`wire` three parties with t = 2 have a pair with two sessions and two pairs with
one; the handshakes concern one pair at a time (n=4 does not fit). With `Capacity` 1 a sender
blocks as soon as it can in the model, 2 lets messages queue up: between the two
steps of a thread at most two messages are outstanding in a direction. A message
is sent whole: that the operating system takes only part of a long one (A', a
table) and the sender blocks in the middle of it until the peer reads is not
modelled. Six
keys in six buckets give every shape that matters to peeling: a key peeled in
each scan, buckets requeued behind the scan, empty buckets, 2-cores of two to
six keys, and a queue of which one call of `handleQueue` leaves a part that only
another round peels (five keys are the least for this; with four keys in three
buckets one round always suffices). Keys are interchangeable, so the MC modules
keep only instances whose keys are sorted by their data; buckets are not, since
the scans visit them in order. Three
keys allow a 2-core together with a peeled key, or three peeled keys that depend
on each other. `MaxRuns` = 2 encodings reach every kind of re-encoding; a third
starts from the same state up to values. In a field of two elements a slot that
is not zero is the filler, hence the values of the larger field, where a slot can be
neither; `MCNext` keeps the two apart and encodes only the former again. Three rows over four columns give dependent, contradictory and free
variables together. Five edges over three buckets on each side are enough for
chains that lead back behind the scan and for a 2-core beside them. Three bins
for two threads make one share longer than the other; places for two keys
give bins that are full, under-full and refilled.

Bounds that are not in the code: `MaxRuns` and `MaxEncodings` (encodings), `Capacity` (messages in
a socket buffer; the code relies on the operating system's).

Deadlock is checked in every run: a state without a step is an error unless all
parties have closed (`Terminated`), peeling or the solver has returned (`Done`)
or the bound on encodings is reached (`OkvsDone`, `Exhausted`, the last disjunct of `MCNext`); of
StarDictionary a caller can always set new keys.

Fairness. `Rounds`, `Mpsi`, `OringT1` and `Wire` assume weak fairness of each party:
processes are scheduled by the operating system, none of the waits is a poll and
a message that was sent stays available until it is received. `Peeling` assumes
weak fairness of its one sequential thread. `Okvs`, `LinearSolver`,
`TwoTables` and `StarDictionary` have safety properties only.

### Findings

Each of two runs states what a `checkOutput` of `okvs/paxos.cpp` claims of
an encoded table, and finds it wrong.

`okvs_zero` checks what `OBD3Tables::checkOutput` (1151-1186) asserts and
`okvs/test_3hgct.cpp` 55 reports as "decoding h1 values succeed": a finished
table satisfies every equation that is solvable. TLC finds a counterexample
without a 2-core. `unpeeling` takes a slot with value zero and `sign` zero for
one not set yet (line 1092 and following); a slot it solved to zero is therefore
solved again for another key, and the first key's equation breaks. For the
pseudorandom values of the protocol this is negligible; for structured values it
is not: all fillers are the bytes of equal temporary vectors, so they cancel and
the value zero at a key with an even number of DH bits gives zero. The other
properties that say what a table decodes to, those of TwoTables and
StarDictionary included, carry the proviso `~zeroed`.

`two_tables_again` checks what `OBD2Tables::checkOutput` (530-564) asserts: the
table decodes to the values set last. `okvs.h` 113 calls `Paxos::encode` "the
complete encoding process" and it returns true, but only the first encoding
takes effect: the slots are not cleared, so that a later one finds all slots of
peeled keys set, and `peelingCounter` stays at zero, so that
`encodeOnlyUnpeeling` finds nothing to unpeel. The property asks this only of
peeled keys and with `~zeroed`. A key of the 2-core decodes to zero in any
encoding, since the call of the solver is commented out (412), as is the call of
`checkOutput` (`okvs.h` 107, 142). What does hold is `FirstTable`.

No program uses `Paxos` or `StarDictionary`.

`StarDictionary` was read with the same question. `encode` XORs what the center
decodes to into `valsForBins` in place (1496), so that a second `encode` without
`setKeysAndVals` solves the bins for values changed twice, although it returns
true; `StarDictionary::checkOutput` (1540-1570), which tests every key against
the value it was given, would report it. No run claims this; `Decodes` is about
the first `encode` after `setKeysAndVals` (`xors = 1`).

Two more facts about `StarDictionary`. A bin with free places holds the zero
block several times, which counts against `v` as if keys had been left over, so
that it can be reported as failed; `Decodes` holds nevertheless. The center has
the same seeds as the bin it is to save, so its graph has the same 2-core; it
helps only because the solver is run on it, which would also have solved the
bin.

## 4. What is proved

Every theorem holds for all values of the constants that satisfy the named
ASSUMEs of the modules it extends; TLC evaluates these on the instances it runs.
Every safety property the runs check is proved; what is only model-checked is
listed at the end of this section.

| module | assumptions | properties of runs that are theorems | inductive invariant |
|---|---|---|---|
| `RoundsProofs` | of `Shares`: two parties or more, t between 1 and n-1, ring or star, mask peers among the middle parties, any sets | `TypeOK`, `Accounting`, `Correctness`; safety of `Psi` | `IInv` |
| `MpsiProofs` | the same and `CapacityAssumption` | `TypeOK`, `ExpectedMessage`, `CleanChannel`, `SessionAgreement`, `Drained`, `RefinesRounds`; also `Correctness` | `Inv`, `MasksFirst` |
| `OringT1Proofs` | the same and `OringAssumption`: a ring of three parties or more, t = 1, party 1 the only mask peer | the same as for Mpsi | `OringInv` |
| `WireProofs` | the same and `PortAssumption` | `Paired`, `Rendezvous`, `NoMixup`, `RefinesMpsi`; also `Correctness` | `LinkInv`, `WireInv` |
| `OkvsProofs`, on `Peeling` | finitely many keys, one bucket or more | `TypeOK`, `PeelOrder`, `NoneForgotten`, `TwoCore` | `PeelInv` |
| `OkvsProofs`, on `Okvs` | the same; fillers are not zero | `OkvsTypeOK`, `SolvedStaySolved`, `CoreStaysSolved`, `TableDecodes`, `NoSlotUnset` | `OkvsInv` |
| `LinearSolverProofs` | one variable or more | `RowsHold`, `Confined`; also `SolvableSolved` | `SolverInv`, `TraceInv`, `SolutionsKept` |
| `TwoTablesProofs` | one bucket or more, fillers are not zero | `PeelOrder`, `TwoCore`, `FirstTable` | `SlotInv` |
| `StarDictionaryProofs` | `StarAssumption`: bins, threads, a hash function, no bin with more keys than places | `NoRace`, `FailureFound`, `Decodes` | `PlaceInv`, `FailInv`, `DecInv` |

**The protocol (RoundsProofs).** `Correctness` alone is not inductive: that the
comparison decides membership depends on what the table of party n-1 contains,
hence on every table before it. `Accounting` says it for each of them: at an
element, a value or table *represents* a group of parties, that is, it is
exactly the pads with one end in the group if all of the group hold the element,
and otherwise contains the garbage of a member that does not. `Progress`, a lemma of
the proof and no property of its own, says which group: it links `heard`, `phase`
and `result`. `IInv` is their conjunction with `TypeOK`. Then

1. the share of a party is the cut between it and all others (`ShareIsCut`): the
   loops of both ends of every session agree;
2. XOR of accounts of disjoint groups accounts for their union (`CutUnion`,
   `XorRepresents`), garbage never cancels; the groups behind the tables that
   meet at a party are disjoint (`PredsUpstream`);
3. encoding preserves accounts (`EncodeRepresents`);
4. the cut of all parties but 0 is the cut of party 0 (`CutComplement`), so that
   the final comparison decides membership (`ComparisonDecides`).

**Threads and messages (MpsiProofs).** What a thread finds on a socket depends
on where the thread at the other end is, so the invariant determines the
contents of every queue. `LineInv`: the queue from p to q is the seed p owes q,
then the message of the session they are in (`Talk`: the sender's steps decide
which of at most two), then the table, each present exactly while it is sent and
not received. `SessionInv`: for each session of a pair, `SessionAt` lists the
pairs of steps the two workers can be in together with the blocks in their
omegas; its last disjunct says that both computed the pad. `WorkerInv` links
workers to their main thread, `MaskInv` and `HeardInv` the mask and the tables
to the threads they came from. One lemma per action shows that it preserves
these; what is common to the six steps of a session is in `PairStep`, which says
that a step of a pair of workers leaves all other pairs alone. `ExpectedMessage`
and `CleanChannel` are then read off the queue (`FrontOfLine`), and
`CombinedShare`, that the XOR of the arrays of OPRF values is the party's share,
maps the join of the workers to `Combine` of Rounds. All other steps of workers
are stutters (`StepRefines`), so that Rounds' invariant, and with it the answer
of party 0 (`AnswerCorrect`), carries over to the threads.

**oring_t1 (OringT1Proofs).** `Inv` says of the mask of party 0 no more than that
it is complete once all seeds are sent and the main thread is past its first
stage, which is true of both programs. What the one does that the other does not is
apart from it: `MasksFirst`, that mpsi's party 0 sends all seeds before it creates its
other workers, and `OringInv`, that oring_t1's party 0 has no stage for the masks.
Either is what a join of the workers needs (`SeedsSent` in `JoinWorkersInv` and
`CombineStep`): mpsi's because of the order of its stages, oring_t1's because
`OringJoin` waits for the mask worker as well; `OringJoin_NoMask`, in which it does not,
is the mutation that breaks `RefinesRounds`. So the lemmas about `Inv`, one per
action, serve both programs, and only the mask worker of `OringT1` and its
initial state (`Starts`) need a proof of their own.

**Connections (WireProofs).** A port that is open belongs to the pair of its
owner and the loop counter of its owner (`Listening`), an accepted call came from
that peer (`Answered`), and no two pairs have the same port (`PortsDiffer`, which
needs `PortAssumption`: with 103 parties, indices 0 to 102, two pairs would
collide, 0 with 102 and 100 with 101).

**Handshakes (WireProofs).** A worker does six operations before a session, four
of `sync` and two of the VOLE. Where it is at place x and its peer, which `Count`
finds over all sessions of the pair, at place y, `MeetInv` says that <<x, y>> is
one of the pairs of a small table, `Places`, for the side and the role of the
worker. `LinesInv` says what is in a socket: first the messages Mpsi sees, then
`Hello`, the bytes one end has sent and the other not read. They are at most two,
and which ones follows from x and y. So a step of a handshake is a question about the
table (`SendPlace`, `ReadPlace`): who sends has read everything, who reads finds the
byte it waits for, and both places after the step are again a pair of the table. The rest of `WireInv`
is the invariant of `MpsiProofs` for the joint state (`JointWorker`, `JointOmega`,
`JointChan`): it supplies that a session begins with an empty socket and that the
two workers are at most one session apart (`Pace`). A worker can be `Behind` only
as the receiver, with the last byte of the VOLE unread (`BehindFacts`). Hence the last step of the sender is
Mpsi's `OpenSession`, every other step of a handshake stutters
(`HandshakeJoint`), and every other step is the same step of Mpsi
(`SessionJoint`, `MaskWorkerJoint` and so on). `Rendezvous` is read off the
table, `NoMixup` off the table or `ExpectedMessage`. The two refinements together
give `WireAnswerCorrect`.

**Peeling.** `PeelOrder` and `NoneForgotten` together with `CoreKept`, that no
crowded set ever loses a key: the first key to leave it would have been alone in
a bucket. `NoneForgotten`, that a bucket with a single key is queued or still
ahead of the scan, is what makes the end of peeling the 2-core, although
`handleQueue` may leave part of a queue behind. The proof for two tables is
about chains instead of queues: `HandInv` says that the key in hand is alone in
its bucket, or gone.

**Encoding (OkvsProofs).** `OkvsInv` adds to `PeelInv`: `SignInv`, the slots
marked by `sign` are those of the 2-core, in every encoding the same one, since
peeling always ends with the largest crowded set; `OpenInv`, buckets that only
keys still to be unpeeled use have no value yet; `SetInv`, those of keys done have
one, as long as no slot came out zero; and that the equations of these keys
hold. A key's free bucket is then really free when its turn comes (`TargetFound`),
and the assignment breaks no other equation (`SolvedSlots`). The proviso
`~zeroed` is the finding above. `FirstTableDecodes` is the same
argument for the first encoding of two tables, with `First` for an encoding under
way and `Finished` for its table.

**The solver.** Elimination leaves a staircase (`Stairs`), so that the variable a
row of the back substitution sets does not occur in the rows below. For
`Confined` the proof keeps the history of the rows (`Traced`): row k was once
equation own[k] and is by now the sum of the equations in from[k]. Only rows with
a pivot are ever added to others, so a row without one has its own equation
in its sum and in no other, and a solution of the pivot rows misses any row by as
much as it misses the row's own equation (`Excess`). So an equation fails only
if its row ends as 0 = v with v not zero, and from[k] is then the set that
contradicts itself. That a sum over rows changes as it should when a row is added
(`AddCombines`, `SumAdd`) is about parities of cardinalities, without induction.
`SolvableSolved` is what `Okvs` takes from the solver (`Answers`): if the system
has a solution then solver returns one, dependent rows or not. No step of the
elimination gains or loses a solution (`SolutionsKept`), given that there is one:
the column of the right-hand sides then has nothing to eliminate, and a row
without coefficients is 0 = 0.

**Star dictionary.** `PlaceInv` bounds the cursor of each thread; shares of the bins are
disjoint and complete for every number of threads and bins (`Parts`, `Bounds`).
`FailInv` says of each thread which of the bins behind its cursor failed; the fold
that combines the reports is unfolded by a closed form (`CombinedOutcome`) whose
uniqueness is by well-founded induction on subsets. `DecInv` follows the
values of a bin through `encode`: as given, shifted by what the center decodes
to, keyed again, and unpeeled. `EncodingDecodes` then presupposes of each
table that was unpeeled that it is `Good`, which is what `OkvsProofs` needs of one
table: a solvable 2-core, no slot solved to zero, no mark of an earlier 2-core.

Only model-checked:

* all liveness: `Termination`, `Terminates`, the fairness of `AbstractSpec`.
  TLAPS 1.4 cannot prove ENABLED, hence no weak fairness.
* That recursive sums and folds in general do not depend on the order of their
  arguments: the proofs use closed forms (parities of cardinalities) instead.

## 5. What is not modelled

* The algebra of the OPRF and libOTe's VOLE: a session with agreeing inputs
  yields equal pads. Privacy of the protocol is not a subject of this project.
* Processes that die, socket errors: the code has no handling of either.
* Truncation of blocks to `output_byte_length`: every step on the way is an XOR
  and so acts on each byte alone.
* The sleep in `sync` that evens out the latency, the retries inside
  `asioConnect`, libOTe's messages beyond their order.
* More than 102 parties (`PortAssumption`): two pairs would share a port.
* Partial sends: a message larger than the buffer of the operating system.
* `decOptimized` and `check_encoding`, which compute or print what the properties
  of the runs state, as do the three `checkOutput` (`CheckOutput`, `Decodes`); the extra variables of `OBD2Tables`, which
  are always zero.
* A bin of StarDictionary with more keys than places: the code writes beyond the
  end of the bin. That NTL's modulus belongs to a thread, which the comment at
  paxos.cpp:1455 alludes to.
* The vector `decodeByTable` XORs into: all callers pass a fresh one.
* n < 2, t = 0, n = 2 for `oringt1`, sets of fewer than ten elements: the
  programs do not check their arguments and misbehave (see `hazards`).
* The shared PRNG of the workers, statistics and latency output, command line.

## 6. Plan

All components that carry logic are modelled, and every safety property the runs
check is a theorem. What is left is in the lists of sections 4 and 5: liveness,
which needs a prover for ENABLED, and the parts of the programs that are not
modelled. Of these, the next to model would be the two-party case of `oring_t1` and
the failure of a socket, once the code says what is to happen in them.
