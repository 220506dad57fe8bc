------------------------------- MODULE Engine -------------------------------
(***************************************************************************)
(* The simulation loop of src/simulator/engine.rs over the network and the *)
(* protocols.  The program is one thread; its steps are the iterations of  *)
(* the loops in step(): one replica's send_phase, the draining of the      *)
(* inboxes, one replica's recv_phase, the billing of one message, and the  *)
(* application of all results.  What is not determined is the workload,    *)
(* the configuration, and what filters and sketches make of their inputs.  *)
(***************************************************************************)
EXTENDS Protocols

CONSTANTS
  Protocol,      \* the protocols under study, a subset of ProtocolKind
  Topologies,    \* the overlays, a subset of TopologyKind
  RoundCap,      \* values of SimulationConfig::round_cap
  SetSize        \* values of WorkloadConfig::set_size

ASSUME EngineAssumption ==
  /\ Protocol \subseteq ProtocolKind
  /\ Topologies \subseteq TopologyKind
  /\ RoundCap \subseteq Nat
  /\ SetSize \subseteq Nat \ {0}

VARIABLES
  config,          \* protocol, topology and round_cap of this simulation
  initial,         \* Workload::replica_sets (kept for the properties)
  target_union,
  sets,            \* replicas[v].set
  phase,           \* replicas[v].phase
  stats,           \* replicas[v].stats, without the clock times
  current_round,
  carry_states,
  drained,         \* the engine's local `inboxes`, post-drain
  results,         \* recv_results, computed so far in this round
  pc,              \* where run() is
  cur,             \* the replica its current loop is at
  result           \* the SimulationResult, once returned

engineVars == <<config, initial, target_union, sets, phase, stats,
                current_round, carry_states, drained, results, pc, cur, result>>

vars == <<netVars, engineVars>>

Stats == [state_bytes_sent : Nat, metadata_bytes_sent : Nat,
          elements_added : Nat]

Result == [converged : BOOLEAN, rounds : Nat, per_node : [Node -> Stats]]

NoResult == [converged |-> FALSE, rounds |-> 0, per_node |-> <<>>]

RecvResult == [next_set : SUBSET Element, carry : Carry]

NoRecvResult == [next_set |-> {}, carry |-> NoCarry]

Nbrs(v) == Neighbors(config.topology, v)

\* What a bug would do that is content with one complete replica.
HasConvergedSomewhere(s) == \E v \in Node : s[v] = target_union

HasConverged(s) == \A v \in Node : s[v] = target_union

-----------------------------------------------------------------------------
(* Simulation::new.  Every replica starts with set_size elements; any such  *)
(* family is a workload, that of jaccard_similarity 0 in particular.        *)

Init ==
  /\ config \in [protocol : Protocol, topology : Topologies,
                 round_cap : RoundCap, set_size : SetSize]
  /\ initial \in
       [Node -> {S \in SUBSET Element : Cardinality(S) = config.set_size}]
  /\ target_union = UNION {initial[v] : v \in Node}
  /\ sets = initial
  /\ phase = [v \in Node |-> "Idle"]
  /\ stats = [v \in Node |-> [state_bytes_sent |-> 0,
                              metadata_bytes_sent |-> 0,
                              elements_added |-> 0]]
  /\ current_round = 0
  /\ carry_states = [v \in Node |-> NoCarry]
  /\ drained = [v \in Node |-> <<>>]
  /\ results = [v \in Node |-> NoRecvResult]
  /\ pc = "start"
  /\ cur = 0
  /\ result = NoResult
  /\ NetworkInit

\* finish(): every replica is marked when the run converged, none otherwise.
Finish(converged, phases, counters, rounds) ==
  /\ pc' = "done"
  /\ phase' = IF converged THEN [v \in Node |-> "Converged"] ELSE phases
  /\ result' = [converged |-> converged, rounds |-> rounds,
                per_node |-> counters]

\* run(): replicas that agree from the start need no round.
Start ==
  /\ pc = "start"
  /\ IF HasConverged(sets)
     THEN Finish(TRUE, phase, stats, current_round)
     ELSE pc' = "begin" /\ UNCHANGED <<phase, result>>
  /\ UNCHANGED <<netVars, config, initial, target_union, sets, stats,
                 current_round, carry_states, drained, results, cur>>

\* step(), up to the send loop.
BeginRound ==
  /\ pc = "begin"
  /\ IF current_round >= config.round_cap
     THEN /\ Finish(FALSE, phase, stats, current_round)
          /\ UNCHANGED <<netVars, current_round>>
     ELSE /\ current_round' = current_round + 1
          /\ phase' = [v \in Node |-> "Active"]
          /\ Reset
          /\ pc' = "send"
          /\ UNCHANGED result
  /\ cur' = 0
  /\ UNCHANGED <<config, initial, target_union, sets, stats, carry_states,
                 drained, results>>

\* What a bug would do that lets a replica read its inbox before it sends:
\* news then travels several hops in one round.
SendAfterReading ==
  LET news == UNION {IF env.msg.kind = "Elements" THEN env.msg.els ELSE {} :
                     env \in {inboxes[cur][i] : i \in DOMAIN inboxes[cur]}}
      msgs == SendPhase(config.protocol, Nbrs(cur), sets[cur] \cup news,
                        carry_states[cur])
  IN  /\ pc = "send"
      /\ carry_states' = [carry_states EXCEPT ![cur] = NoCarry]
      /\ Deliver(cur, msgs)
      /\ pc' = IF cur = N-1 THEN "drain" ELSE "send"
      /\ cur' = IF cur = N-1 THEN 0 ELSE cur + 1
      /\ UNCHANGED <<config, initial, target_union, sets, phase, stats,
                     current_round, drained, results, result>>

\* One send_phase.  The carry is moved out of the engine; Network::send
\* panics on a destination that is not a neighbour.
Send ==
  LET msgs == SendPhase(config.protocol, Nbrs(cur), sets[cur],
                        carry_states[cur])
  IN  /\ pc = "send"
      /\ carry_states' = [carry_states EXCEPT ![cur] = NoCarry]
      /\ IF DOMAIN msgs \subseteq Nbrs(cur)
         THEN /\ Deliver(cur, msgs)
              /\ pc' = IF cur = N-1 THEN "drain" ELSE "send"
              /\ cur' = IF cur = N-1 THEN 0 ELSE cur + 1
         ELSE pc' = "panic" /\ UNCHANGED <<netVars, cur>>
      /\ UNCHANGED <<config, initial, target_union, sets, phase, stats,
                     current_round, drained, results, result>>

Drain ==
  /\ pc = "drain"
  /\ drained' = inboxes
  /\ DrainAll
  /\ pc' = "recv"
  /\ UNCHANGED <<config, initial, target_union, sets, phase, stats,
                 current_round, carry_states, results, cur, result>>

\* One recv_phase, against the replica's set at the start of the round.
Recv ==
  /\ pc = "recv"
  /\ IF \E i \in DOMAIN drained[cur] :
          ExtendsForever(sets[cur], drained[cur][i].msg)
     THEN pc' = "hung" /\ UNCHANGED <<cur, drained, results>>
     ELSE /\ \E out \in InboxOutcomes(sets[cur], drained[cur]) :
               /\ results' = [results EXCEPT ![cur] =
                    [next_set |-> NextSet(sets[cur], drained[cur]),
                     carry |-> NextCarry(drained[cur], out)]]
               /\ drained' = [drained EXCEPT ![cur] = Consumed(@, out)]
          /\ pc' = IF cur = N-1 THEN "bill" ELSE "recv"
          /\ cur' = IF cur = N-1 THEN 0 ELSE cur + 1
  /\ UNCHANGED <<netVars, config, initial, target_union, sets, phase, stats,
                 current_round, carry_states, result>>

\* The billing loop: one message of the inbox at hand, or on to the next.
Bill ==
  /\ pc = "bill"
  /\ IF drained[cur] # <<>>
     THEN /\ BillMetadata(Head(drained[cur]))
          /\ drained' = [drained EXCEPT ![cur] = Tail(@)]
          /\ UNCHANGED <<pc, cur>>
     ELSE /\ pc' = IF cur = N-1 THEN "apply" ELSE "bill"
          /\ cur' = IF cur = N-1 THEN 0 ELSE cur + 1
          /\ UNCHANGED <<netVars, drained>>
  /\ UNCHANGED <<config, initial, target_union, sets, phase, stats,
                 current_round, carry_states, results, result>>

\* What a bug would do that counts new elements by subtracting the sizes of
\* the sets the wrong way round.
NewStatsUnderflow(v) ==
  [state_bytes_sent    |-> stats[v].state_bytes_sent + per_node_state[v],
   metadata_bytes_sent |-> stats[v].metadata_bytes_sent + per_node_metadata[v],
   elements_added      |-> stats[v].elements_added + Cardinality(sets[v])
                             - Cardinality(results[v].next_set)]

\* The counters of replica v after this round.
NewStats(v) ==
  [state_bytes_sent    |-> stats[v].state_bytes_sent + per_node_state[v],
   metadata_bytes_sent |-> stats[v].metadata_bytes_sent + per_node_metadata[v],
   elements_added      |-> stats[v].elements_added
                             + Cardinality(results[v].next_set \ sets[v])]

\* What a bug would do that gives up as soon as a round changes nothing.
ConcludeWhenIdle(next, counters) ==
  IF HasConverged(next)
  THEN Finish(TRUE, phase, counters, current_round)
  ELSE IF current_round >= config.round_cap \/ next = sets
  THEN Finish(FALSE, phase, counters, current_round)
  ELSE pc' = "begin" /\ UNCHANGED <<phase, result>>

\* The outcome of step(), and what run() makes of it.
Conclude(next, counters) ==
  IF HasConverged(next)
  THEN Finish(TRUE, phase, counters, current_round)
  ELSE IF current_round >= config.round_cap
  THEN Finish(FALSE, phase, counters, current_round)
  ELSE pc' = "begin" /\ UNCHANGED <<phase, result>>

\* The apply loop.
Apply ==
  LET next == [v \in Node |-> results[v].next_set]
      counters == [v \in Node |-> NewStats(v)]
  IN  /\ pc = "apply"
      /\ stats' = counters
      /\ sets' = next
      /\ carry_states' = [v \in Node |-> results[v].carry]
      /\ Conclude(next, counters)
      /\ results' = [v \in Node |-> NoRecvResult]
      /\ UNCHANGED <<netVars, config, initial, target_union, current_round,
                     drained, cur>>

\* A returned run takes no step, and one caught in extend_until makes none
\* that another part of the program could see.
Halted == pc \in {"done", "hung"} /\ UNCHANGED vars

Next == Start \/ BeginRound \/ Send \/ Drain \/ Recv \/ Bill \/ Apply \/ Halted

Safety == Init /\ [][Next]_vars

\* One thread, no blocking call: the program takes its next step.
Spec == Safety /\ WF_vars(Next)

-----------------------------------------------------------------------------

TypeOK ==
  /\ NetworkTypeOK
  /\ config \in [protocol : Protocol, topology : Topologies,
                 round_cap : RoundCap, set_size : SetSize]
  /\ initial \in [Node -> SUBSET Element]
  /\ target_union \in SUBSET Element
  /\ sets \in [Node -> SUBSET Element]
  /\ phase \in [Node -> {"Idle", "Active", "Converged"}]
  /\ stats \in [Node -> Stats]
  /\ current_round \in Nat
  /\ carry_states \in [Node -> Carry]
  /\ drained \in [Node -> Seq(Envelope)]
  /\ results \in [Node -> RecvResult]
  /\ pc \in {"start", "begin", "send", "drain", "recv", "bill", "apply",
             "done", "panic", "hung"}
  /\ cur \in Node
  /\ result \in Result \cup {NoResult}

=============================================================================
