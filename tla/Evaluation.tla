----------------------------- MODULE Evaluation -----------------------------
(***************************************************************************)
(* The evaluation binary, bin/eval.rs: one simulation for each entry of a  *)
(* matrix, the runs gathered into cells, and the geometric mean of the     *)
(* cells' mean bytes as fitness.                                           *)
(*                                                                         *)
(* A simulation is any result that Engine can return.  A mean is the sum   *)
(* and the number it is taken over, the geometric mean a product of such   *)
(* fractions and a root.  Similarities are integers in units fine enough   *)
(* to tell values closer than the tolerance of build_cells (1e-9).         *)
(***************************************************************************)
EXTENDS Integers, Sequences, FiniteSets, Functions, SequencesExt

CONSTANTS
  TopologyLists,     \* what EvalConfig may list, sequences each
  SimilarityLists,
  ReplicaLists,
  SeedLists,
  RoundCaps,
  Tolerance,         \* 1e-9 in units of a similarity
  MaxBytes,          \* a bound of the model: the cost of a simulation
  MaxRuns            \* a bound of the model: the size of the matrix

\* A sequence of whatever it is that it has.
IsList(list) == list \in Seq(Range(list))

ASSUME EvaluationAssumption ==
  /\ \A list \in TopologyLists \cup ReplicaLists \cup SeedLists : IsList(list)
  /\ SimilarityLists \subseteq Seq(Int)
  /\ RoundCaps \subseteq Nat
  /\ Tolerance \in Nat \ {0}
  /\ MaxBytes \in Nat /\ MaxRuns \in Nat

VARIABLES
  config,            \* EvalConfig
  runs,              \* the RunEntry of each simulation so far
  simulated,         \* history: the SimulationConfig of each of them
  by_cell,           \* the CellSummary of each cell so far
  fitness,
  all_converged,
  pc                 \* "running", "summing", "done", or "panic"

vars == <<config, runs, simulated, by_cell, fitness, all_converged, pc>>

FlatMap(op(_), seq) == FlattenSeq([i \in DOMAIN seq |-> op(seq[i])])

Map(op(_), seq) == [i \in DOMAIN seq |-> op(seq[i])]

Abs(i) == IF i < 0 THEN -i ELSE i

-----------------------------------------------------------------------------
(* The matrix                                                               *)

EvalConfigs ==
  {c \in [topologies : TopologyLists, jaccard_similarities : SimilarityLists,
          num_replicas : ReplicaLists, seeds : SeedLists,
          round_cap : RoundCaps] :
     Len(c.topologies) * Len(c.jaccard_similarities) * Len(c.num_replicas)
       * Len(c.seeds) <= MaxRuns}

\* Both seeds of a simulation are the outer one.
ToWorkload(j, nr, seed) ==
  [jaccard_similarity |-> j, num_replicas |-> nr, seed |-> seed]

SimConfig(t, j, nr, seed) ==
  [topology |-> t, seed |-> seed, workload |-> ToWorkload(j, nr, seed)]

\* The four nested loops of main.
Matrix ==
  FlatMap(LAMBDA nr :
    FlatMap(LAMBDA t :
      FlatMap(LAMBDA j :
        Map(LAMBDA seed : SimConfig(t, j, nr, seed), config.seeds),
        config.jaccard_similarities),
      config.topologies),
    config.num_replicas)

\* A run without a round costs nothing, any other something, and one that
\* ends before the cap has converged.
SimulationResults ==
  {r \in [converged : BOOLEAN, rounds : 0 .. config.round_cap,
          bytes : 0 .. MaxBytes] :
     /\ r.rounds = 0 <=> r.bytes = 0
     /\ r.rounds < config.round_cap => r.converged}

RunEntry(sim, r) ==
  [topology |-> sim.topology,
   jaccard_similarity |-> sim.workload.jaccard_similarity,
   num_replicas |-> sim.workload.num_replicas, seed |-> sim.seed,
   converged |-> r.converged, rounds |-> r.rounds,
   total_bytes_sent |-> r.bytes]

-----------------------------------------------------------------------------
(* Cells                                                                    *)

\* build_cells goes through the matrix in an order of its own.
CellOrder ==
  FlatMap(LAMBDA t :
    FlatMap(LAMBDA j :
      Map(LAMBDA nr : <<t, j, nr>>, config.num_replicas),
      config.jaccard_similarities),
    config.topologies)

\* What a bug would do that does not look at the number of replicas.
OfCellIgnoringReplicas(r, t, j, nr) ==
  /\ r.topology = t
  /\ Abs(r.jaccard_similarity - j) < Tolerance

OfCell(r, t, j, nr) ==
  /\ r.num_replicas = nr
  /\ r.topology = t
  /\ Abs(r.jaccard_similarity - j) < Tolerance

\* Which of the runs pass the filter.
CellRuns(t, j, nr) == {i \in DOMAIN runs : OfCell(runs[i], t, j, nr)}

\* A mean is a sum and what it is divided by, which may be zero.
Mean(values) == [sum |-> SumFunction(values), n |-> Cardinality(DOMAIN values)]

\* What a bug would do that lets one seed that converges speak for all.
AnyConverged(cell) == \E i \in cell : runs[i].converged

CellConverged(cell) == \A i \in cell : runs[i].converged

CellSummary(t, j, nr) ==
  LET cell == CellRuns(t, j, nr)
  IN  [topology |-> t, jaccard_similarity |-> j, num_replicas |-> nr,
       mean_bytes |-> Mean([i \in cell |-> runs[i].total_bytes_sent]),
       mean_rounds |-> Mean([i \in cell |-> runs[i].rounds]),
       all_converged |-> CellConverged(cell)]

-----------------------------------------------------------------------------
(* The geometric mean                                                       *)

\* What a bug would do that asserts v >= 0.
NotNegative(mean) == mean.n > 0

\* Not a number, the mean of no runs, is not positive either.
Positive(mean) == mean.n > 0 /\ mean.sum > 0

ProductFunction(fun) == FoldFunction(LAMBDA a, b : a * b, 1, fun)

\* exp of the mean logarithm: a root of the product of the fractions.
GeometricMean(means) ==
  [product |-> ProductFunction([i \in DOMAIN means |-> means[i].sum]),
   divisor |-> ProductFunction([i \in DOMAIN means |-> means[i].n]),
   root    |-> Len(means)]

NoFitness == [product |-> 0, divisor |-> 1, root |-> 1]

-----------------------------------------------------------------------------
(* main                                                                     *)

Init ==
  /\ config \in EvalConfigs
  /\ runs = <<>>
  /\ simulated = <<>>
  /\ by_cell = <<>>
  /\ fitness = NoFitness
  /\ all_converged = FALSE
  /\ pc = "running"

CreateRunEntry ==
  /\ pc = "running"
  /\ Len(runs) < Len(Matrix)
  /\ LET sim == Matrix[Len(runs) + 1]
     IN  /\ \E r \in SimulationResults : runs' = Append(runs, RunEntry(sim, r))
         /\ simulated' = Append(simulated, sim)
  /\ UNCHANGED <<config, by_cell, fitness, all_converged, pc>>

BuildCells ==
  /\ pc = "running"
  /\ Len(runs) = Len(Matrix)
  /\ by_cell' = Map(LAMBDA c : CellSummary(c[1], c[2], c[3]), CellOrder)
  /\ pc' = "summing"
  /\ UNCHANGED <<config, runs, simulated, fitness, all_converged>>

\* The assertions of geometric_mean, on each value and on their number.
Summable ==
  /\ by_cell # <<>>
  /\ \A i \in DOMAIN by_cell : Positive(by_cell[i].mean_bytes)

Summarise ==
  /\ pc = "summing"
  /\ IF Summable
     THEN /\ fitness' = GeometricMean(Map(LAMBDA c : c.mean_bytes, by_cell))
          /\ all_converged' = \A i \in DOMAIN by_cell : by_cell[i].all_converged
          /\ pc' = "done"
     ELSE pc' = "panic" /\ UNCHANGED <<fitness, all_converged>>
  /\ UNCHANGED <<config, runs, simulated, by_cell>>

\* After the output, or the panic that takes its place, nothing happens.
Halted == pc \in {"done", "panic"} /\ UNCHANGED vars

Next == CreateRunEntry \/ BuildCells \/ Summarise \/ Halted

Spec == Init /\ [][Next]_vars

-----------------------------------------------------------------------------
(* Properties                                                               *)

\* Nothing is listed twice, similarities being the same within the tolerance.
DistinctLists ==
  /\ \A list \in {config.topologies, config.num_replicas, config.seeds} :
       IsInjective(list)
  /\ LET js == config.jaccard_similarities
     IN  \A i, k \in DOMAIN js : i # k => Abs(js[i] - js[k]) >= Tolerance

\* What the simulations of a triple cost, by what they were given.
CellBytes(t, j, nr) ==
  LET Cost(seed) ==
        LET i == CHOOSE i \in DOMAIN runs :
                   simulated[i] = SimConfig(t, j, nr, seed)
        IN  runs[i].total_bytes_sent
  IN  SumFunction([seed \in Range(config.seeds) |-> Cost(seed)])

\* The fitness is what README.md:233 defines: the geometric mean over all
\* triples of topology, similarity and number of replicas of the mean cost
\* over the seeds.  The runs are made in one order and gathered in another,
\* by comparing floating-point numbers: each must be found for its own cell
\* and no other, whatever is listed, as long as nothing is listed twice.
FitnessOfMatrix ==
  pc = "done" /\ DistinctLists =>
    LET cells == Range(config.topologies)
                   \X Range(config.jaccard_similarities)
                   \X Range(config.num_replicas)
    IN  /\ fitness.root = Cardinality(cells)
        /\ fitness.product =
             ProductFunction([c \in cells |-> CellBytes(c[1], c[2], c[3])])
        /\ fitness.divisor = ProductFunction([c \in cells |-> Len(config.seeds)])

\* The verdict by which an attempt is kept or rejected is true exactly if
\* every simulation that was run has converged, with whatever duplicates or
\* near duplicates in the lists: no run falls between the cells.
VerdictOfAllRuns ==
  pc = "done" =>
    (all_converged <=> \A i \in DOMAIN runs : runs[i].converged)

\* geometric_mean panics, after all the simulations have been run, exactly if
\* there is nothing to average, or if all the seeds of one listed triple
\* began with agreement or without a round to play.
PanicsForNothing ==
  pc \in {"done", "panic"} =>
    (pc = "panic" <=>
       \/ runs = <<>>
       \/ \E i \in DOMAIN runs : \A k \in DOMAIN runs :
            OfCell(runs[k], runs[i].topology, runs[i].jaccard_similarity,
                   runs[i].num_replicas) => runs[k].rounds = 0)

\* README.md:276-279: the outer seeds vary the protocol's randomness while the
\* workload is held fixed.  Runs that differ in the seed only would have the
\* same workload.
WorkloadFixed ==
  \A i, k \in DOMAIN simulated :
    LET a == simulated[i].workload
        b == simulated[k].workload
    IN  /\ a.jaccard_similarity = b.jaccard_similarity
        /\ a.num_replicas = b.num_replicas
        => a = b

=============================================================================
