--------------------------- MODULE RoundInvariant ---------------------------
(***************************************************************************)
(* The inductive invariants behind the theorems of RoundProofs: what the   *)
(* log records, where a round's messages are, what they will come to and   *)
(* what has been paid for them.                                            *)
(***************************************************************************)
EXTENDS EngineInvariant

RoundRecords == [sets : [Node -> SUBSET Element], sketching : SUBSET Node]

\* How the round at hand began, or the last one if none is being played; and
\* the one before it.
ThisRound == log[current_round]
PriorRound == log[current_round - 1]

\* The log has one record a round, of sets that had not yet converged, and
\* sets grow from each to the next.
LogInv ==
  /\ log \in Seq(RoundRecords) /\ Len(log) = current_round
  /\ InRound \/ pc = "hung" => ThisRound.sets = sets
  /\ \A i \in 1 .. current_round : ~HasConverged(log[i].sets)
  /\ \A i \in 2 .. current_round, v \in Node :
       log[i-1].sets[v] \subseteq log[i].sets[v]
  /\ current_round >= 1 => \A v \in Node : ThisRound.sets[v] \subseteq sets[v]

\* w has had its turn in the send loop, and v in the receive loop.
Spoken(w) == pc # "send" \/ w < cur
HasRead(v) == pc \in {"bill", "apply"} \/ (pc = "recv" /\ v < cur)

\* Mail lies in the inboxes until they are drained, then in the drained ones
\* until it is billed; outside of a round there is none.
PlaceInv ==
  \A v \in Node : /\ pc \notin {"send", "drain"} => inboxes[v] = <<>>
                  /\ pc \notin {"recv", "bill", "hung"} => drained[v] = <<>>
                  /\ pc = "bill" /\ v < cur => drained[v] = <<>>

\* Carries are taken up by the send loop, one replica at a time.
TurnInv ==
  /\ current_round = 0 => \A v \in Node : carry_states[v] = NoCarry
  /\ InRound => \A v \in Node :
       IF Spoken(v) THEN carry_states[v] = NoCarry
       ELSE v \in ThisRound.sketching <=> carry_states[v] = NoCarry

\* A message as its sender meant it: a sketch of all that the sender holds if
\* it is among those who sketch, elements if not.
Genuine(e) ==
  IF Sketching /\ e.from \in ThisRound.sketching
  THEN e.msg.kind = SketchKind(config.protocol) /\ e.msg.els = sets[e.from]
  ELSE e.msg.kind = "Elements"

GenuineInv ==
  \A v \in Node :
    /\ \A i \in DOMAIN inboxes[v] : Genuine(inboxes[v][i])
    /\ \A i \in DOMAIN drained[v] : Genuine(drained[v][i])

\* A box holds something from w.
From(w, box) == \E i \in DOMAIN box : box[i].from = w

\* Whoever sketches reaches all its neighbours.
ReachInv ==
  Sketching /\ InRound => \A w \in Node : w \in ThisRound.sketching => \A v \in Nbrs(w) :
    /\ pc \in {"send", "drain"} /\ Spoken(w) => From(w, inboxes[v])
    /\ pc = "recv" => From(w, drained[v])

\* What v carries away from its receive phase.
ReadInv ==
  Sketching => \A v \in Node : HasRead(v) =>
    \A w \in Node :
      results[v].carry[w] = IF w \in Nbrs(v) /\ w \in ThisRound.sketching
                            THEN sets[v] \ sets[w] ELSE {}

RoundInv ==
  LogInv /\ PlaceInv /\ TurnInv /\ GenuineInv /\ ReachInv /\ ReadInv

-----------------------------------------------------------------------------
(* Elements on their way                                                    *)

\* What w holds, or will when it has read its mail and the round is over.
Coming(w) == sets[w] \cup Received(inboxes[w]) \cup Received(drained[w])
                     \cup results[w].next_set

\* What lies in a box that has been read is spent, and what is made of the
\* others is not known yet.
SpentInv ==
  \A v \in Node :
    /\ HasRead(v) => Received(drained[v]) = {}
    /\ ~HasRead(v) /\ pc # "hung" => results[v].next_set = {}

\* The second half of the exchange: what the neighbours of a sketcher held in
\* the last round is on its way to it.
OweInv ==
  Sketching =>
    /\ BetweenRounds /\ current_round >= 1 =>
         \A w \in ThisRound.sketching : \A v \in Nbrs(w) :
           ThisRound.sets[v] \subseteq sets[w] \cup carry_states[v][w]
    /\ InRound /\ current_round >= 2 =>
         \A w \in PriorRound.sketching : \A v \in Nbrs(w) :
           PriorRound.sets[v] \subseteq Coming(w) \cup carry_states[v][w]

\* Under full state transfer there is no second half.
FloodInv ==
  ~Sketching =>
    /\ InRound => \A v \in Node : Spoken(v) =>
         \A w \in Nbrs(v) : sets[v] \subseteq Coming(w)
    /\ BetweenRounds /\ current_round >= 1 =>
         \A v \in Node : \A w \in Nbrs(v) : ThisRound.sets[v] \subseteq sets[w]

\* A carry is news to somebody: a round in which not everyone sketches makes
\* a set grow.
NewsInv ==
  Sketching =>
    /\ BetweenRounds /\ current_round >= 1 =>
         \A v \in Node : carry_states[v] # NoCarry =>
           \E w \in Node : ~(carry_states[v][w] \subseteq ThisRound.sets[w])
    /\ InRound /\ current_round >= 2 =>
         \A v \in Node \ ThisRound.sketching :
           \E w \in Node : ~(Coming(w) \cup carry_states[v][w] \subseteq PriorRound.sets[w])
    /\ BetweenRounds /\ current_round >= 2 =>
         ThisRound.sketching = Node \/ sets # PriorRound.sets
    /\ current_round >= 3 =>
         PriorRound.sketching = Node \/ ThisRound.sets # log[current_round - 2].sets

\* Everyone sketches in the first round, so that nothing is new in the second.
FirstInv ==
  Sketching =>
    /\ current_round = 1 => ThisRound.sketching = Node
    /\ current_round <= 1 => \A v \in Node : Coming(v) = initial[v]
    /\ current_round = 2 /\ ~BetweenRounds => sets = initial

\* News has come as far as there were rounds to bring it.
RoundsDone == IF InRound \/ pc = "hung" THEN current_round - 1 ELSE current_round

KnownAfter(v, r) == UNION {initial[w] : w \in Within(config.topology, v, r)}

HopInv ==
  \A v \in Node : /\ sets[v] \subseteq KnownAfter(v, RoundsDone)
                  /\ Sketching \/ sets[v] = KnownAfter(v, RoundsDone)

ExchangeInv ==
  SpentInv /\ OweInv /\ FloodInv /\ NewsInv /\ FirstInv /\ HopInv
  /\ TwoRoundExchange /\ NoEarlyHang

-----------------------------------------------------------------------------
(* Costs                                                                    *)

\* Who has spoken has paid for what it said, elements at once and sketches
\* when they are billed.
RoleInv ==
  Sketching /\ InRound => \A w \in Node :
    /\ per_node_state[w] > 0 <=> Spoken(w) /\ w \notin ThisRound.sketching
    /\ w \notin ThisRound.sketching => per_node_metadata[w] = 0
    /\ pc \in {"send", "drain", "recv"} => per_node_metadata[w] = 0
    /\ pc \in {"bill", "apply"} /\ w \in ThisRound.sketching =>
         \A v \in Nbrs(w) : From(w, drained[v]) \/ per_node_metadata[w] > 0

\* A sketch that has been read has a cost.
CostInv ==
  \A v \in Node : HasRead(v) =>
    \A i \in DOMAIN drained[v] :
      drained[v][i].msg.kind # "Elements" => MetadataBytes(drained[v][i].msg) > 0

\* Copies that will be new to whom they are sent to.
Copies == {p \in Node \X Element : p[2] \in Coming(p[1]) \ sets[p[1]]}

\* Every copy on its way has been paid for in this round.
CopiesInv ==
  InRound => bytes_state >= WireSize * Cardinality(Copies)

\* The replicas' counters lag behind the network's by the round at hand.
ReportInv ==
  TotalBytesSent(stats) =
    IF InRound \/ pc = "hung" THEN billed ELSE billed + bytes_state + bytes_metadata

LedgerInv ==
  /\ bytes_state = SumFunction(per_node_state)
  /\ bytes_metadata = SumFunction(per_node_metadata)

PaidInv ==
  RoleInv /\ CostInv /\ CopiesInv /\ ReportInv /\ LedgerInv /\ EveryCopyPaid

-----------------------------------------------------------------------------

\* All that the loop and its log maintain, besides EngineInvariant.
LoopInv == RoundInv /\ ExchangeInv /\ PaidInv

=============================================================================
