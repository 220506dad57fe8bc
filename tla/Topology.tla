------------------------------ MODULE Topology ------------------------------
(***************************************************************************)
(* The three overlays of src/simulator/topology.rs on the nodes            *)
(* 0..N-1.  An adjacency list is read as the set of its entries: the       *)
(* builders never add an entry twice, and no caller depends on its order.  *)
(***************************************************************************)
EXTENDS Integers, FiniteSets

CONSTANT N      \* number of replicas (WorkloadConfig::num_replicas)

\* validate_config refuses an empty simulation.
ASSUME NAssumption == N \in Nat \ {0}

Node == 0 .. N-1

TopologyKind == {"Star", "Tree", "Chord"}

-----------------------------------------------------------------------------

\* Every node but the hub 0 has one edge, to the hub.
StarNeighbors(v) == IF v = 0 THEN Node \ {0} ELSE {0}

Parent(v) == (v - 1) \div 2

\* The binary heap: node v > 0 hangs below (v-1)/2.
TreeNeighbors(v) == {w \in Node : \/ w > 0 /\ v = Parent(w)
                                  \/ v > 0 /\ w = Parent(v)}

\* w is a finger of v: the node at distance 2^p < N clockwise.
Finger(v, w) == \E p \in 0 .. N : 2^p < N /\ w = (v + 2^p) % N

\* add_undirected_edge refuses self-loops and records both directions.
ChordNeighbors(v) == {w \in Node \ {v} : Finger(v, w) \/ Finger(w, v)}

Neighbors(kind, v) ==
  CASE kind = "Star"  -> StarNeighbors(v)
    [] kind = "Tree"  -> TreeNeighbors(v)
    [] kind = "Chord" -> ChordNeighbors(v)

-----------------------------------------------------------------------------

\* The nodes within r hops of v.
Within(kind, v, r) ==
  LET ball[k \in 0 .. r] ==
        IF k = 0 THEN {v}
        ELSE ball[k-1] \cup UNION {Neighbors(kind, w) : w \in ball[k-1]}
  IN  ball[r]

=============================================================================
