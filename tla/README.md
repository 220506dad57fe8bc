# A verification of reconciliation-simulator

The repository simulates set reconciliation: replicas on an overlay network
hold sets that differ, and exchange messages in synchronous rounds until all of
them hold the union, under one of five protocols whose bandwidth is compared.
What the experiments conclude rests on three things: that the loop plays the
rounds it claims to play, that the protocols transfer exactly what is missing,
and that every byte is billed once, to its sender. This directory models that
core in TLA+, checks it with TLC and proves its safety properties with TLAPS.

## The system

| Part | Source | State | Operations |
|---|---|---|---|
| simulation loop | `engine.rs` | replicas, target union, round number, carries | `new`, `run`, `step`, `finish` |
| network | `network.rs` | inboxes; bytes in total and by sender, payload and metadata | `send`, `drain_inbox`, `bill_metadata_post_recv`, `reset`, wire sizes |
| replicas, metrics | `replica.rs`, `metrics.rs` | set, phase, statistics | recorders, projection of the result |
| topologies | `topology.rs` | adjacency | `star`, `tree`, `chord` |
| protocols | `protocols/*.rs` | none: carry goes through the engine | `send_phase`, `recv_phase` of five protocols |
| filters | `algorithms/bloom.rs`, `rateless_bloom.rs`, `expected_cost.rs` | bits; positives and negatives so far | `contains`, `extend_until`, `should_stop` |
| RIBLT | `algorithms/riblt/` | coded symbols, decoded elements | extend, subtract, peel |
| multiparty sketch | `algorithms/multiparty_sketch.rs` | cells over a prime field | encode, combine, decode; no protocol uses it |
| workload | `workload.rs` | random generator | sampling of the initial sets |
| evaluation, runner, export | `bin/eval.rs`, `main.rs`, `export.rs` | none | matrix of simulations, fitness, output |

How they interact. `Simulation::step` calls `send_phase` of each replica in
turn; the protocol puts messages into the network through an `Outbox` bound to
the sender, and the payload is billed at once. All inboxes are then drained and
`recv_phase` runs for each replica, against the set the replica had when the
round began; it *uses up* the messages (takes elements, decodes sketches,
extends filters), and only then is the metadata of each message billed to its
sender, since only then does it have its final size. The results (next set and
carry) are applied last. A carry is the second half of an exchange: what a
replica found its neighbour to lack in one round, it sends in the next.

What is hard. The program is one thread, so nothing races; but it *simulates*
concurrency, and has to get the simultaneity of a round right although its
loops serve one replica at a time. Exchanges stretch over two rounds, overlap
with those of other neighbours, and work with sets that are a round old.
Filters have false positives, their number of slices is decided by a stopping
rule in integer arithmetic, and nothing bounds the loop around that rule.

Per component, correctness means:

* loop: no element lost or made up; rounds are simultaneous; the verdict is
  right and given as soon as it can be; the run ends.
* network: all totals agree; each copy of an element and each sketch is billed
  to its sender in its round; no message outside the overlay.
* protocols: a carry is exactly what the sender of the sketch lacked; an
  exchange completes in two rounds; exchanges do not starve each other.
* filters and sketches: what both sides hold always passes, stopping is
  decided, decoding is exact, a sketch that claims to be decoded is.
* workload: sampling ends, the sets have the configured size.
* evaluation: every run counts in its own cell of the matrix and no other, and
  the verdict is that of all runs.

## The modules

| Module | Models |
|---|---|
| `Topology` | the three overlays as neighbour sets on nodes `0..N-1` |
| `Filters` | sizes of Bloom filters, the stopping rule, what a filter may do to a set |
| `Network` | messages, their wire sizes, the inboxes and the four byte counters with their operations |
| `Protocols` | `send_phase` as a function to messages, `recv_phase` as the set of its possible outcomes |
| `Engine` | the loop: the state machine over the four modules above |
| `Reconciliation` | the abstract specification: rounds, growing sets, a verdict |
| `EngineProperties` | the properties, with the history variables `log` of how rounds began and `billed` of bytes already reset, and the refinement mapping |
| `EngineInvariant`, `RoundInvariant` | the inductive invariants: of the loop, and of the loop with its log |
| `SumProofs` | lemmas on sums over finite sets |
| `EngineProofs` | lemmas on overlays and messages; the theorems about the loop |
| `RoundProofs` | the theorems about rounds, exchanges and costs |
| `Workload`, `WorkloadProofs` | the workload generator, and the theorems about it |
| `Riblt` | the rateless IBLT: two sketches, extended, subtracted and peeled |
| `Difference` | what decoding promises: the abstract specification of `Riblt` |
| `RibltProofs` | the theorems about it |
| `BloomFilters` | the static filter and the rateless one, extended slice by slice under the stopping rule |
| `Filtering` | what a filter promises the protocols: the abstract specification of `BloomFilters` |
| `BloomFilterProofs` | the theorems about it |
| `Field` | the prime field of the multiparty sketch on wrapping words |
| `MultiSketch` | the multiparty sketch: encoded, added, subtracted, decoded |
| `SketchProofs` | the theorems about field and sketch |
| `Evaluation`, `EvaluationProofs` | the evaluation binary: matrix, cells, fitness; and the theorems about it |
| `MCEngine`, `MCWorkload`, `MCRiblt`, `MCBloomFilters`, `MCMultiSketch`, `MCEvaluation` | the instances that TLC checks |

`Engine` has one action for each place where `step` could be observed: `Start`
(the test before the loop in `run`), `BeginRound` (cap, counter, phases,
reset), `Send` (one `send_phase` with its `Network::send` calls), `Drain`,
`Recv` (one `recv_phase`), `Bill` (one message), `Apply` (the statistics, sets
and carries of all replicas, then the verdict and, if there is one, `finish`).
`pc` says which loop runs, `cur` which replica it is at. `pc = "panic"` is the
assertion of `Network::send`, `pc = "hung"` an `extend_until` that never
returns. `Halted` lets a finished or hung run stutter, so that TLC's deadlock
check, which is on everywhere, would report a panic.

`Workload` is a machine of its own, since `generate` has returned before a
simulation begins. `generate_uniform` and `generate_clustered` are the same
sequence of samplings: the elements common to all (`KeepCommon`), those that a
cluster shares (`KeepShared`, none if uniform), and those that a replica has for
itself (`KeepReplica`). `stage` and `at` say which call of `sample_unique_zipf`
is under way, `Ask` is its assertion and `Draw` one turn of its loop.

`Riblt` is a call of `find_all_differences` on two fresh decoders, the only use
the protocols make of them. `Extend` is `extend_sketch(1)` of both, `Subtract`
and `Peeled` a turn of the loop in `subtract`, `Peel(e)` a turn of the loop in
`peel`, `Check` the question `is_decoded`. Each `Subtract` and `Peel` contains
its `try_mark_pure_cell` (`TryMark`). The two binary heaps of cursors are
functions from symbols to the next cell, and a heap's pop is a choice among the
symbols that are due earliest. Cells are numbered from 1.

`BloomFilters` is what one message's filter does in a `recv_phase`: `Classify`
is the loop of the static protocol over its digests; `Extend`, `OnExtend` and
`ShouldStop` are the three calls in the loop of `extend_until`. `Filtering` is
the same as one step: some split and some number of slices out of
`FilterOutcomes` of module `Filters`, which is also what `Protocols` lets
`recv_phase` choose from. The refinement closes the gap between the two.

`MultiSketch` is one sketch. `EncodeElement`, `AddSketch` and `SubSketch`
change it in any order (the other sketches come from `BuildSketch`),
`TryDecode` copies its cells, and `Skip`, `Peel` and `EndPass` are the turns of
the two loops of `try_decode`. The history variable `net` counts what the
sketch amounts to. `Field` has the arithmetic as it is written, with wrapping
words and exponentiation by squaring.

`Evaluation` is `main` of `bin/eval.rs`: `CreateRunEntry` runs one simulation of
the matrix, `BuildCells` gathers the runs, `Summarise` takes the geometric mean,
with `pc = "panic"` for its assertions. The history variable `simulated` keeps
the configuration each simulation was given. A simulation that hangs (see
below) takes the evaluation with it, and is not modelled again here.

Abstractions.

* An element is its digest; a payload is a length. Sets of elements are sets.
* In `Engine` the workload is *any* family of sets of `set_size` elements: the
  sampler with `jaccard_similarity = 0` can return each of them, and, by the
  theorem `SizesExact`, the generator returns no others.
* In `Workload` the Zipf sampler is any choice of an index, the hash any
  function from indices to digests, and a similarity is a fraction with
  denominator `Den`, so that `round` is exact integer arithmetic. f64 may round
  a half, which is the only place where it matters, either way.
* In `Protocols` a filter lets through every element it was built from and any
  others (`Positives`). In `BloomFilters` the hash functions are any functions:
  the static filter has the bits that double hashing makes of a pair of hashes,
  a slice one bit for each element. That hash functions of a filter are
  independent is not assumed anywhere.
* In `MultiSketch` the two sums of a cell are kept as the coefficient of each
  element in them. This is exact unless two different sums agree in both field
  sums, a chance of about 2^-128. Digests of P or more, 59 of 2^64, which the
  decoder could not map, are left out, and so are counts that reach P. A sketch
  that is added or subtracted is at least as long as the one it is applied to;
  `zip` passes over the cells beyond.
* In `Evaluation` a simulation is any result with the guarantees of
  `ResultSound` and `OneRoleARound`: it costs nothing exactly if no round is
  played. Similarities are integers, the tolerance of `build_cells` two units.
  Means are exact fractions, the fitness a product and a root: rounding, and
  the standard deviation, which is only printed, are left out.
* In `Protocols`, decoding an RIBLT yields the exact difference and consumes at
  least one cell for each element of it, and at most `MaxSlack` more
  (`Consumable`). That it is exact and that it takes that many cells is what
  `Riblt` shows of the decoder (`FindsDifference`); that it returns within
  `MaxSlack` more is an assumption, which holds with a probability that no
  model checker can tell.
* In `Riblt` a coded symbol is the set of symbols that do not cancel. This is
  exact unless a xor of several hashes happens to be the hash of the xor of
  their symbols, or zero: chances of 2^-64. The mapping of a symbol is any
  increasing sequence of cells that begins with the first, known up to
  `MaxCells`. (`SymbolMapping::next` can stay where it is if the generator
  returns exactly 0.0, a chance of 2^-53, left out as well.)
* The rateless filter of one message ends with any number of slices that the
  stopping rule allows for the elements it rules out (`SliceCounts`): all but
  the last slice rule out at least the threshold, the last one fewer.
* The f64 rescaling of a slice is integer arithmetic rounded up (`Threshold`);
  f64 can only exceed an exact quotient, and then by one.
* Clock times are left out.
* Counters are unbounded naturals; the u64 sums of bytes in the code do not
  come near their width (100 rounds of 64 replicas with 10^4 elements are below
  2^50 bytes).

The bounds of the runs are all constants of the configurations: `N`, `Element`,
`PayloadSize`, `OverheadBits`, `MaxSlack`, and the sets `Protocol`,
`Topologies`, `RoundCap` and `SetSize` that the initial states choose from; for
the workload `NumReplicas`, `UniverseSize`, `Digest`, `Den` and `SetSizes`; for
the decoder `Element` and `MaxCells`; for the filters `Element`,
`OverheadBits`, `Word`, `Hash`, `Hashes` and `MaxSlices`; for the multiparty
sketch `P`, `Word`, `Element`, `Sizes` and `MaxCopies`; for the evaluation the
lists, `RoundCaps`, `Tolerance`, `MaxBytes` and `MaxRuns`. Three guards have a
bound. `Riblt!Extend` stops at `MaxCells` and `BloomFilters!Extend` at
`MaxSlices`, where the code would go on; four slices are enough for every run
that stops, because at most three of four elements can be ruled out. Combining
sketches stops at `MaxCopies` of an element, where the code would go on to the
limits of its counts.

## The runs

* `rounds_three` (`MCEngine3.cfg`): three replicas, four elements, all
  protocols, star and chord (a tree of three is a star), caps of 0, 2 and 24
  rounds, set sizes 1 and 3, a symbol at two bits and sketches that may need a
  symbol too many. Every filter outcome is explored; a set of one is below the
  clamp of `bloom_bits_for`, one of three is large; a cap of 0 declines at
  once, 2 stops in the middle of an exchange, 24 is never reached. Checks the
  type invariant, the inductive invariant and
  - `NothingLostOrInvented`: sets stay between workload and target union;
  - `NoPanic`: a carry is addressed to neighbours only;
  - `CarryIsDifference`: what is carried is exactly what the sender of the
    sketch lacked, in spite of false positives and of elements merged in the
    same round;
  - `ResultSound`: verdict, rounds, phases and statistics of the result;
  - `LedgersAgree`, `EveryByteReported`, `EveryCopyPaid`: totals are sums by
    sender; what the result reports is what was billed in all rounds, each byte
    once; and no element is obtained without its wire size being paid;
  - `OneRoleARound`: a replica of a sketch protocol pays for sketches or for
    elements in a round, never both, never neither;
  - `NoEarlyHang`: in the first two rounds extension ends, whatever the
    workload; `NoHangFromLargeSets`: with sets of `2 * OverheadBits - 1`
    elements (639 in the code) it always ends. Sets of one do hang here, so
    that neither holds for want of hanging;
  - `PlaysRounds`: the loop implements `Reconciliation`.
* `rounds_six` (`MCEngine6.cfg`): six replicas, where the overlays differ and
  news takes several hops. `SpeedOfNews`: one hop a round, exactly so under
  full state transfer. `NoThreeIdleRounds`: replicas that are busy carrying
  cannot hold up all others for three rounds. Two idle rounds do occur on this
  tree (and not with four replicas), so the bound is tight. `TwoRoundExchange`:
  who sends a sketch holds two rounds later whatever its neighbours held then,
  although replicas fall out of step.
* `convergence` (`MCEngineLive.cfg`): `LoopInv`, the inductive invariant of the
  proofs about rounds and costs; `Terminates` and `Converges`, with a coded
  symbol that costs a bit, so that filters work as intended. The hypothesis of
  `Converges`, three rounds for each missing copy, is met by a cap of 18 for
  every workload of three elements, and not by a cap of 1.
* `hybrid_hang` (`MCEngineHang.cfg`) expects a violation, see below.
* `workload_sizes` (`MCWorkload.cfg`): four replicas, one to four clusters,
  three indices, similarities in quarters, and every function from indices to
  digests. Both roundings and the full universe occur.
  - `ExactSizes`: every replica ends with exactly `set_size` elements;
  - `NeverExhausted`: the assertion of `sample_unique_zipf` never fires;
  - `AsSimilar`: any two replicas are at least as similar as configured for
    them, up to the rounding of one size;
  - `ReturnsIfDistinct`: with as many distinct digests as a set has elements
    the generator returns;
  - `IInv`: the inductive invariant of the proofs, the type invariant in it.
* `workload_stuck` (`MCWorkloadStuck.cfg`) expects a violation, see below.
* `riblt_exact` (`MCRiblt.cfg`): three symbols, each on either side or on both,
  and every mapping to four cells. Three symbols are enough for a cell that
  becomes pure only when two others have left it, and four cells for one that
  was added long after a symbol was found.
  - `CellsTell`: a cell holds the symbols of the difference that are mapped to
    it and not yet peeled off it, and its count tells on which sides they are;
  - `NothingLeftToPeel`: when another cell is asked for, no cell is left with
    one unknown symbol, so no cell is asked for too early;
  - `FindsDifference`: the call implements `Difference`, an exact decode at the
    price of a cell for each element;
  - `ReturnsIfPeelable`: the call returns within the bound if every part of the
    difference has a cell with exactly one symbol of it, that is, whenever any
    peeling decoder could;
  - `IInv`: the inductive invariant of the proofs.
* `bloom_filters` (`MCBloomFilters.cfg`): four elements in every two sets,
  thresholds of 0, 1 and 2, hash values that collide, wrap around and overlap
  in part.
  - `FilterInv`: the inductive invariant: no shared element is ever ruled out,
    and every slice but the last was worth the threshold;
  - `FiltersAsPromised`: both filters implement `Filtering`;
  - `ReturnsExactly`: `extend_until` returns if and only if the threshold is
    not zero, whatever the hash functions do.
* `multisketch` (`MCMultiSketch.cfg`): three elements, up to two copies of each
  on either side, sketches of one and of three cells, every mapping, in the
  field of 13 in words of four bits, where sums do overflow.
  - `SketchInv`: types; a cell holds what was added less what was removed;
    while decoding, an element is in all of its cells or in none, and what has
    been listed is the surplus that has left the cells;
  - `NothingInvented`: only elements in surplus are returned, each once;
  - `OneSidedExact`: with nothing in deficit, an accepted decode is complete;
  - `DecodesIfPeelable`: if any order of peeling gets at everything, the passes
    of `try_decode` do, and the answer is complete;
  - `DecodeReturns`: decoding returns.
* `multisketch_doc` (`MCMultiSketchDoc.cfg`) expects a violation, see below.
* `evaluation` (`MCEvaluation.cfg`): every matrix of up to four simulations out
  of lists of none, one and two entries, equal ones and similarities closer
  than the tolerance among them. Four are enough for any two of the four
  lists to vary together.
  - `FitnessOfMatrix`: the fitness is that of `README.md:233`, computed from
    what the simulations were given, if no list has duplicates;
  - `VerdictOfAllRuns`: `all_converged` speaks for every run;
  - `PanicsForNothing`: the assertions of `geometric_mean` fail exactly if a
    list is empty, or a cell has played no round in any of its runs.
* `evaluation_seed` (`MCEvaluationSeed.cfg`) expects a violation, see below.

Symmetry under permutation of elements is used in `rounds_three` and
`rounds_six`, which check no liveness; no definition names an element. The
other runs do without.

Fairness is weak fairness of `Next`: one thread, no lock, no blocking call, so
the program takes its next step as long as there is one. No fairness is assumed
of any choice: filters may give the worst possible answers for ever. In
`Workload`, where a draw that changes nothing is stuttering, weak fairness also
says that a draw which does change something comes in the end; that is so with
probability one, because `build_zipf_sampler` gives every index a positive
weight. In `MultiSketch` the fairness is of the steps of `try_decode` alone:
whether a sketch is ever decoded is up to its user.

### Four disagreements

`README.md:60` says that a simulation terminates when every replica holds the
target union or when `round_cap` is reached. The hybrid protocol need not. Its
sender clamps a filter slice to 320 bits so that the stopping threshold is not
zero (`minimum_for_nonzero_threshold`, `hybrid_rbf_riblt.rs:44`), but the
receiver rescales the slice to its own size, and one that is smaller than the
sender then computes `m < 320` and a threshold of `m / 320 = 0`. The rule stops
when a slice rules out *fewer* elements than the threshold, which is impossible,
and `extend_until` adds slices for ever. In `hybrid_hang` three replicas with
one element each on a star get there in round 3, when the hub holds more than
the leaves. `NoEarlyHang` shows why a test of two rounds cannot, and the
theorem `LargeSetsReturn` that sets of 639 elements or more never can; the
evaluation's own workload has 10,000.

`workload.rs:243` asserts that a sampling is possible, with the message "cannot
sample {} unique elements from only {} available". It counts indices of the
universe, while the loop below counts distinct elements, and elements are equal
when their masked digests are. With few `digest_bits` (`validate_config` admits
1) the assertion passes and the loop never ends. `workload_stuck` has two
digests, seven indices and sets of three. With distinct digests nothing goes
wrong (`ReturnsIfDistinct`); then `universe_size >= set_size` is enough, less
than `README.md:285` asks for, because replicas draw independently of each
other.

`multiparty_sketch.rs:173` says that `try_decode` returns the elements in
surplus if the sketch fully decodes, and `None` if it is too small. The test is
that all counts are zero. An element added and another removed cancel in the
count of a cell, not in its sums, and if they are in the same cells and no
others, the sketch is accepted with both of them inside. `multisketch_doc` has
two such elements in one cell. `OneSidedExact` and `DecodesIfPeelable` say when
the answer can be trusted; no protocol uses the sketch.

`README.md:276` says that the outer `seeds` of an evaluation vary the
protocol's randomness while the workload, with its own seed, is held fixed.
`create_run_entry` gives the outer seed to the workload (`eval.rs:108`), the
inner one is not even parsed, and no protocol draws from the simulation's seed.
So the spread over seeds is that of workloads, not of protocols:
`evaluation_seed`. (`README.md:246` also promises a fitness in every case. The
assertions of `geometric_mean` are an exception that `PanicsForNothing`
describes: a cap of zero, an empty list, or replicas that agree from the start,
as with a similarity of 1.)

## The proofs

Every theorem holds for every value of the constants. What is assumed of these
is in the modules' `ASSUME`s and no more: at least one node, a finite universe,
natural numbers as sizes, a positive symbol cost; for the workload what
`validate_config` demands; for the field that P is a prime and that two residues
overflow a word at most once; for the evaluation that lists are sequences,
similarities numbers and the tolerance positive. The ASSUMEs are evaluated by the runs.

Induction over data is not within the provers' reach as a rule of its own, but
what it is good for is: a set of counterexamples to a statement about naturals
has a least member (`LeastMember`), one about finite sets a smallest
(`SmallestSet`), and from there the step is elementary. `SumProofs` has both,
and what follows from them for the sums that the community modules compute by
folding a set in an order of their own choosing: that such a sum exists
(`SumsExist`), that it does not depend on the order (`SumUnfolds`, `SumSplits`),
adds up and changes with its summands. The sums over replicas, the counts of
cells and the arithmetic of powers all rest on it, and so does what is shown of
flattened sequences.

### The loop

`EngineProofs` begins with the overlays (neighbours are mutual, balls grow hop
by hop, all three are connected) and the messages.

* `FilterExact`, `DecodeExact`: every outcome of `recv_phase` for a sketch
  lists exactly the elements that the sender lacks.
* `TypeCorrect`, by induction over the actions; lemmas for each operator that
  builds messages, sizes or carries.
* `InvariantHolds`: the inductive invariant `IInv`. The safety properties are
  not inductive: that sets grow only by what exists needs to know what is in
  the mail, and that depends on carries. `IInv` therefore says: mail comes
  from neighbours and tells only of what they hold (`MailInv`; sets do not
  change between the sending and the applying); carries are addressed to
  neighbours and consist of what their owner holds (`CarryInv`); computed
  results lie between a replica's set and what its neighbourhood holds
  (`ResultsInv`, for the replicas already served); and rounds are played only
  while there is a difference and a round left (`ControlInv`).
* `SetsHold`, `NeverPanics`, `ResultHolds` follow from it.
* `LargeSetsReturn` adds arithmetic: sets only grow, and
  `ceil(local * m / n) > OverheadBits - 1` when `local >= 2 * OverheadBits - 1`
  and `2 * m >= n`.
* `Refinement`: the loop implements `Reconciliation`. `Apply` is the abstract
  round, `Start` and `BeginRound` may be the abstract refusal, and all else is
  invisible. The comparison with a precomputed union is agreement, because all
  sets lie between workload and union (`AgreeIsConverged`).

`RoundProofs` is about the loop with its log. What looks back at earlier rounds
needs an invariant that ties the log to the state, and `RoundInvariant` has it
in three layers, each proved on top of those before it.

* `RoundInv` (`RoundsHold`) says where a round stands: the log is of this and
  the earlier rounds (`LogInv`); mail is in the inboxes, then in the drained
  ones, then nowhere (`PlaceInv`); carries are taken up by the send loop in turn
  (`TurnInv`); a message is what its sender's role in this round makes it
  (`GenuineInv`); sketches reach all neighbours (`ReachInv`); and what comes of
  reading them is the exact difference (`ReadInv`). `CarriesAreDifferences`
  follows.
* `ExchangeInv` (`ExchangeHolds`) follows elements on their way. `Coming(w)` is
  what `w` holds or has in the mail; what a sketcher's neighbours held is owed to
  it, as carry between rounds and as mail within (`OweInv`); a carry is news to
  somebody (`NewsInv`); in the first round everyone sketches (`FirstInv`); and
  sets lie within the ball of the rounds done (`HopInv`). From it:
  `ExchangeTakesTwoRounds`; `HangsAreLate`, since sets are equal in size while
  the first two rounds classify, and between equals the threshold is positive;
  `NewsTakesHops`; and `NewsIsNotStarved`: if two rounds leave all sets as they
  are, everybody sketches in the second of them, the exchanges it begins are
  complete a round later, and then neighbours on a connected overlay agree.
* `PaidInv` (`PaidHolds`) is about money. The totals are the
  sums of the counters (`LedgerInv`), the statistics lag behind by the round at
  hand (`ReportInv`), a replica's counters tell its role (`RoleInv`), and the
  payload of a round covers the wire size of every copy on its way
  (`CopiesInv`). From it: `LedgersHold`, `ReportsHold`, `CopiesArePaid`,
  `RolesHold`. That nobody pays nothing rests on `UsedUpCosts`: a sketch that
  was used has consumed a symbol or carries a filter.

### The filters

`BloomFilterProofs` holds for every universe, symbol cost, word and hash
function, and every number of hash functions and slices.

* `FilterInvariant`: elements shared with the sender pass every slice, because
  a slice contains what it was built from; positives and negatives partition
  the receiver's set; and after `s` slices at least `(s - 1) * threshold`
  elements are ruled out (`SlicesInv`), with the count of the last slice on
  top of it while it is being judged.
* `FilterRefines`: when the strategy stops, these bounds are those of
  `SliceCounts`. That `Protocols` may rest on `FilterOutcomes` is this theorem.

### The multiparty sketch

`SketchProofs` holds for every prime and every word it fits in, every universe,
mapping and set of lengths, and every bound on the numbers of copies that keeps
counts below P.

* `FaddExact`, `FsubExact`: `fadd` and `fsub` are addition and subtraction
  modulo P, although the intermediate sum may not fit into the word.
* `FdivExact`: `fdiv` is division. `finv` raises to the power of P - 2, so this
  is Fermat's little theorem: no product of two residues is 0 unless one of them
  is (`NoZeroDivisors`, which is where P has to be prime); the multiples of a
  residue are all residues again; and their product is cancelled
  (`ProductOfMultiples`, `Fermat`). That the squarings of `fpow` compute powers
  is `FpowLaws`.
* `SketchTells` and `NothingIsInvented` are proved together, from the invariant
  `SketchInv /\ NothingInvented`: an element peeled off is new to the list
  because the list is what has left the cells, and that is so because a cell
  that is accepted as pure holds one element. The latter is `PureMeans`: the
  quotients of sums and count are 1 and 0, so the sums are the count and 0, and
  a number of copies below P is 0 if its residue is. Its converse is `PureIf`.
  `HoldsTogether` says that what cells hold adds up, `BuildHolds` that a sketch
  built by a fold holds what went into it, `WithoutHolds` that taking a pure
  cell out of all cells of its element takes out exactly that element.
* `OneSidedDecodes`: with one sign, the count of the first cell, to which every
  element is mapped, is 0 only if nothing is left.
* `PeelableDecodes`: the last pass has met no pure cell, and nothing has changed
  since it began (`Progress`); were anything left, one of its cells would hold
  it alone and be pure.

### The workload

`WorkloadProofs` holds for every number of replicas and clusters, every
universe, similarity and set size, and every digest function. It assumes what
`validate_config` demands, and that digests are finitely many.

* `CommonSizeBounded`: `round(2 s j / (1 + j)) <= s` for `j <= 1`; hence the
  three sizes are natural numbers and add up to `set_size` (`SizesAdd`).
* `WorkloadInvariant`: the base of each cluster already served has its size, the
  others are still the common elements, and the sample at hand is disjoint from
  what it excludes, so that their sizes add when it is kept (`SizedInv`); and
  what was put into the common part or a base stays in every set made from it
  (`PartsInv`).
* `SizesExact` and `NeverExhausts` follow from the first half.
* `SimilarityHolds` from both: two replicas share the base of their cluster or
  the common elements (`EnoughShared`), their sets have `set_size` elements, and
  the rounded size of the shared part is within one of the real number that
  gives the configured similarity (`RoundedSize`, `SimilarEnough`).

### The RIBLT

`RibltProofs` holds for every finite set of symbols, every two sets of them,
every mapping and every length of the sketches.

* `RibltInvariant`: what a cell holds is settled by two numbers, the cells
  subtracted so far and the cursor of each decoded symbol: a decoded symbol has
  left the cells before its cursor (`CellsTell`). That no symbol is skipped
  needs the cursors to point at the first mapped cell not yet visited
  (`CursorsInv`); that a symbol found is of the difference, and on the right
  side, needs the counts. Counting is by cardinalities of finite sets.
* `CellsHold` is part of it. `PeelsAll` follows: after peeling every cursor is
  past the end, so a cell holds exactly the unknown symbols mapped to it, and
  one that held a single symbol has been tried (`TriedInv`).
* `RibltRefines`: when the first cell, to which all symbols are mapped, is
  empty, all are found. The number of cells is bounded from below through
  `FoundInv`: each symbol was found in a cell of its own, in which no unknown
  symbol is left, so that there is an injection from symbols found to cells.

### The evaluation

`EvaluationProofs` holds for all lists, of whatever length and with whatever in
them, every cap, tolerance and result of the simulations. (`MaxRuns` is any
number, so that it bounds nothing here.)

* `Flattened`: a flattened sequence has the members of its parts, and none twice
  if no part has and no two share one. Loop by loop, from the innermost, it gives
  `MatrixMembers` and `CellOrderMembers`: the loops of `main` and those of
  `build_cells`, though nested differently, go through the same combinations.
* `EvaluationInvariant`, by induction over the actions: the runs so far are those
  of the first entries of the matrix, and have no cost exactly if they have no
  round (`RunsOfMatrix`); the cells are gathered from all of the runs
  (`CellsOfRuns`) and the summary from all of the cells (`SummaryOfCells`).
* `VerdictHolds` and `PanicHolds`: a run passes the filter of the cell that it
  was made for (`RunsHaveCells`), and every cell has a run made for it if there
  is any seed (`CellsHaveRuns`). Neither needs the lists to be free of
  duplicates.
* `FitnessHolds` does: then a run passes the filter of no other cell
  (`RunOfCell`, from the tolerance: `SameSimilarity`), and no simulation is run
  twice (`SimulatedOnce`), so that the runs of a cell are one for each seed, and
  the cells one for each triple. Sums and products that run over the indices of
  sequences in the code are those over seeds and triples by a change of index
  (`SumRenamed`, `ProductRenamed`).

### Model-checked only

The liveness properties (`Terminates`, `Converges`, `ReturnsIfDistinct`,
`ReturnsIfPeelable`, `ReturnsExactly`, `DecodeReturns`), which are out of the
prover's reach. Every invariant of a passing run, and every refinement, is a
theorem.

## Plan

Done, in this order: topology, network, protocols and engine with their
properties; the abstract rounds; invariant, refinement and threshold proofs;
the workload generator with its proofs; the RIBLT decoder with its proofs; the
Bloom filters with their proofs; the multiparty sketch; the evaluation.

Then the proofs: sums over finite sets; the log, the exchanges and the costs;
the similarity of the workload; the field and the multiparty sketch; the
evaluation.

Not modelled, and not planned: `main.rs` and `export.rs` (output only); the
stopping strategies `angle_heuristic`, `bayesian_cost`, `bayesian_similarity`
with `bayesian_estimation` (no protocol creates one, and their decisions are
floating-point statistics); hash functions, random generators and clocks; and
`is_root`, `parent`, `children`, `edges` of a topology, which nothing calls.
