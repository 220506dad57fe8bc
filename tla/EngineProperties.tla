-------------------------- MODULE EngineProperties --------------------------
(***************************************************************************)
(* What is claimed of the simulation loop.  The history variables `log`,   *)
(* how each round began, and `billed`, the bytes of the rounds that are    *)
(* over, are read by no step of the program.                               *)
(***************************************************************************)
EXTENDS Engine, Functions

VARIABLES log, billed

\* Who sends a sketch in the round, and what everyone held when it began.
RoundRecord ==
  [sets |-> sets, sketching |-> {v \in Node : carry_states[v] = NoCarry}]

LogInit == Init /\ log = <<>> /\ billed = 0

LogNext ==
  /\ Next
  /\ IF current_round' > current_round
     THEN /\ log' = Append(log, RoundRecord)
          /\ billed' = billed + bytes_state + bytes_metadata
     ELSE UNCHANGED <<log, billed>>

logVars == <<vars, log, billed>>

LogSpec == LogInit /\ [][LogNext]_logVars /\ WF_logVars(LogNext)

Sketching == config.protocol \notin Flooding

BetweenRounds == pc \in {"begin", "done"}

\* MetricsSnapshot::from_replicas and total_bytes_sent.
Total(per_node, field) == SumFunction([v \in Node |-> per_node[v][field]])

TotalBytesSent(per_node) ==
  Total(per_node, "state_bytes_sent") + Total(per_node, "metadata_bytes_sent")

-----------------------------------------------------------------------------

\* No element is lost and none is made up: at every step each replica holds
\* its workload and nothing outside the target union, so that the union of
\* all sets is the target_union that has_converged compares with.
NothingLostOrInvented ==
  \A v \in Node : initial[v] \subseteq sets[v] /\ sets[v] \subseteq target_union

\* The assertion in Network::send never fires: a carry is addressed to the
\* senders of received sketches, and these are neighbours.
NoPanic == pc # "panic"

\* What a replica is about to carry is exactly what the neighbour lacked at
\* the start of the round, if that neighbour sent a sketch, and nothing
\* otherwise: no false positive of a filter hides an element, and no merged
\* element leaks into the answer.
CarryIsDifference ==
  pc = "apply" /\ Sketching =>
    \A v, w \in Node :
      results[v].carry[w] =
        IF w \in Nbrs(v) /\ w \in log[current_round].sketching
        THEN sets[v] \ sets[w] ELSE {}

\* The result that run() returns is true of the replicas: it reports
\* convergence exactly when they all hold the target union, gives up only
\* when the round cap is used up, and marks the phases accordingly.
ResultSound ==
  pc = "done" =>
    /\ result.converged <=> \A v \in Node : sets[v] = target_union
    /\ result.rounds = current_round
    /\ result.rounds <= config.round_cap
    /\ ~result.converged => result.rounds = config.round_cap
    /\ \A v \in Node : (phase[v] = "Converged") <=> result.converged
    /\ result.per_node = stats

\* When a round's bytes are handed to the replicas, the totals of the
\* network are the sums of its per-node counters: no byte is billed to two
\* senders, to none, or to an earlier round's sender.
LedgersAgree ==
  pc = "apply" =>
    /\ bytes_state = SumFunction(per_node_state)
    /\ bytes_metadata = SumFunction(per_node_metadata)

\* The scalar that protocols are ranked by, the total of the bytes that the
\* replicas of the result have sent, is what the network has carried in all
\* rounds together: none is left out, none counted again in a later round.
EveryByteReported ==
  pc = "done" =>
    TotalBytesSent(result.per_node) = billed + bytes_state + bytes_metadata

\* No element is obtained for free: all replicas together have sent at least
\* the full wire size of every copy that any replica has added.
EveryCopyPaid ==
  Total(stats, "state_bytes_sent") >= WireSize * Total(stats, "elements_added")

\* A replica of a sketch protocol pays in one currency a round: sketches or
\* elements, never both and never neither.
OneRoleARound ==
  pc = "apply" /\ Sketching =>
    \A v \in Node : Nbrs(v) # {} =>
      ((per_node_state[v] > 0) <=> (per_node_metadata[v] = 0))

\* News travels one hop a round.  Under full state transfer it travels
\* exactly that fast: after r rounds a replica holds what was within r hops
\* of it.  No other protocol is faster.
Known(v) ==
  UNION {initial[w] : w \in Within(config.topology, v, current_round)}

SpeedOfNews ==
  BetweenRounds => \A v \in Node : /\ sets[v] \subseteq Known(v)
                                   /\ Sketching \/ sets[v] = Known(v)

\* The two-round exchange of the sketch protocols: whoever sends a sketch in
\* a round holds, when the next round is over, all that its neighbours held
\* when the sketch was sent.
TwoRoundExchange ==
  BetweenRounds /\ Sketching /\ current_round >= 2 =>
    LET sent == log[current_round - 1] IN
      \A w \in sent.sketching : \A v \in Nbrs(w) : sent.sets[v] \subseteq sets[w]

\* No three rounds in a row are idle: replicas busy sending what they carry
\* send no sketches, but they cannot starve the others of news for longer.
NoThreeIdleRounds ==
  BetweenRounds /\ current_round >= 3 => sets # log[current_round - 2].sets

\* A run stuck in extend_until got there in its third round or later.  All
\* replicas start with equally many elements, so the first sketches meet
\* receivers as large as their senders.
NoEarlyHang == pc = "hung" => current_round >= 3

\* Sets of at least twice the cost of a coded symbol in bits, less one, never
\* catch a run in extend_until, however far the replicas drift apart: a slice
\* has half a bit for each element, and the rescaling rounds up.
NoHangFromLargeSets ==
  config.set_size >= 2 * OverheadBits - 1 => pc # "hung"

\* The abstract rounds.
Rounds == INSTANCE Reconciliation WITH
  links   <- [v \in Node |-> Nbrs(v)],
  cap     <- config.round_cap,
  rounds  <- IF pc \in {"send", "drain", "recv", "bill", "apply", "hung", "panic"}
             THEN current_round - 1 ELSE current_round,
  verdict <- IF pc # "done" THEN "running"
             ELSE IF result.converged THEN "converged" ELSE "capped"

\* The simulation is a sequence of synchronous rounds ended by the right
\* verdict: although replicas are served one after the other, none receives
\* what was learnt in the same round, sets only grow, and the run stops as
\* soon as there is a verdict.
PlaysRounds == Rounds!Spec

-----------------------------------------------------------------------------

\* Every run returns.
Terminates == <>(pc = "done")

\* The copies that are missing at the start.  Each productive round adds one.
Missing == SumFunction([v \in Node |-> Cardinality(target_union \ initial[v])])

\* Given three rounds for each missing copy, every protocol converges on
\* every topology.
Converges ==
  config.round_cap >= 3 * Missing => <>(pc = "done" /\ result.converged)

=============================================================================
