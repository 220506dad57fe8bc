---------------------------- MODULE EngineProofs ----------------------------
(***************************************************************************)
(* Safety of the simulation loop for every number of replicas, universe,   *)
(* protocol, topology, round cap and workload, on lemmas about the overlay *)
(* and the messages of the protocols.                                      *)
(***************************************************************************)
EXTENDS EngineInvariant, SumProofs, SequenceTheorems

-----------------------------------------------------------------------------
(* Topology                                                                 *)

\* The nodes 0..N-1 are finitely many, and 0 is one of them.
LEMMA NodeFinite == IsFiniteSet(Node) /\ 0 \in Node
<1>1. N - 1 \in Int BY NAssumption
<1>2. IsFiniteSet(Node) BY <1>1, FS_Interval DEF Node
<1>3. QED BY <1>2, NAssumption DEF Node

\* Each builder of topology.rs yields neighbours that are nodes, and both
\* ends of an edge list each other.
LEMMA NeighborsSymmetric ==
  ASSUME NEW kind \in TopologyKind, NEW v \in Node
  PROVE  /\ Neighbors(kind, v) \in SUBSET Node
         /\ \A w \in Neighbors(kind, v) : v \in Neighbors(kind, w)
<1>1. CASE kind = "Star"
  <2>1. \A u : Neighbors(kind, u) = StarNeighbors(u) BY <1>1 DEF Neighbors
  <2>2. QED BY <2>1, NAssumption DEF StarNeighbors, Node
<1>2. CASE kind = "Tree"
  <2>1. \A u : Neighbors(kind, u) = TreeNeighbors(u) BY <1>2 DEF Neighbors
  <2>2. QED BY <2>1 DEF TreeNeighbors
<1>3. CASE kind = "Chord"
  <2>1. \A u : Neighbors(kind, u) = ChordNeighbors(u) BY <1>3 DEF Neighbors
  <2>2. QED BY <2>1 DEF ChordNeighbors
<1>4. QED BY <1>1, <1>2, <1>3 DEF TopologyKind

\* Every replica but the first has a neighbour with a lower number: the hub,
\* the parent, or the finger at distance one.
LEMMA LowerNeighbor ==
  ASSUME NEW kind \in TopologyKind, NEW v \in Node \ {0}
  PROVE  \E w \in Neighbors(kind, v) : w \in Node /\ w < v
<1>0. N \in Nat /\ v \in 1 .. N-1 BY NAssumption DEF Node
<1>1. CASE kind = "Star"
  BY <1>0, <1>1 DEF Neighbors, StarNeighbors, Node
<1>2. CASE kind = "Tree"
  <2>1. Parent(v) \in 0 .. v-1 BY <1>0 DEF Parent
  <2>2. Parent(v) \in Node BY <1>0, <2>1 DEF Node
  <2>3. Parent(v) \in TreeNeighbors(v) BY <1>0, <2>2 DEF TreeNeighbors
  <2>4. QED BY <1>0, <1>2, <2>1, <2>2, <2>3 DEF Neighbors
<1>3. CASE kind = "Chord"
  <2>1. 0 \in 0 .. N /\ 2^0 = 1 /\ v = ((v-1) + 1) % N BY <1>0
  <2>2. 2^0 < N /\ v = ((v-1) + 2^0) % N BY <1>0, <2>1
  <2>3. Finger(v-1, v) BY <2>1, <2>2 DEF Finger
  <2>4. v-1 \in Node \ {v} /\ v-1 < v BY <1>0 DEF Node
  <2>5. QED BY <1>3, <2>3, <2>4 DEF Neighbors, ChordNeighbors
<1>4. QED BY <1>1, <1>2, <1>3 DEF TopologyKind

\* The overlays are connected: what neighbours have in common all replicas
\* have in common.
LEMMA Connected ==
  ASSUME NEW kind \in TopologyKind, NEW f,
         \A v \in Node : \A w \in Neighbors(kind, v) : f[v] = f[w]
  PROVE  \A v \in Node : f[v] = f[0]
<1> DEFINE S == {v \in Node : f[v] # f[0]}
<1>1. ASSUME S # {} PROVE FALSE
  <2>1. S \in SUBSET Nat BY DEF Node
  <2>2. PICK m \in S : \A n \in S : m <= n BY <1>1, <2>1, LeastMember
  <2>3. PICK w \in Neighbors(kind, m) : w \in Node /\ w < m BY <2>2, LowerNeighbor
  <2>4. w \notin S BY <2>1, <2>2, <2>3
  <2>5. QED BY <2>2, <2>3, <2>4
<1>2. QED BY <1>1

-----------------------------------------------------------------------------
(* Distances                                                                *)

\* One hop further.
Hop(kind, ball) == ball \cup UNION {Neighbors(kind, w) : w \in ball}

\* The balls around v up to radius r, as Within computes them.
Balls(kind, v, r, f) ==
  f = [k \in 0 .. r |-> IF k = 0 THEN {v} ELSE Hop(kind, f[k-1])]

\* There are such balls for every radius,
LEMMA BallsExist ==
  ASSUME NEW kind, NEW v
  PROVE  \A r \in Nat : \E f : Balls(kind, v, r, f)
<1> DEFINE S == {r \in Nat : ~\E f : Balls(kind, v, r, f)}
<1>1. ASSUME S # {} PROVE FALSE
  <2>1. PICK m \in S : \A n \in S : m <= n BY <1>1, LeastMember
  <2>2. m # 0
    <3>1. Balls(kind, v, 0, [k \in 0 .. 0 |-> {v}]) BY DEF Balls
    <3>2. QED BY <3>1
  <2>3. m - 1 \in Nat /\ m - 1 \notin S BY <2>1, <2>2
  <2>4. PICK f : Balls(kind, v, m-1, f) BY <2>3
  <2> DEFINE g == [k \in 0 .. m |-> IF k = m THEN Hop(kind, f[m-1]) ELSE f[k]]
  <2>5. \A k \in 0 .. m : g[k] = IF k = 0 THEN {v} ELSE Hop(kind, g[k-1])
    <3> SUFFICES ASSUME NEW k \in 0 .. m
                 PROVE  g[k] = IF k = 0 THEN {v} ELSE Hop(kind, g[k-1])
      OBVIOUS
    <3>0. \A j \in 0 .. m-1 : f[j] = IF j = 0 THEN {v} ELSE Hop(kind, f[j-1])
      BY <2>4 DEF Balls
    <3>1. CASE k = m
      <4>1. g[k-1] = f[m-1] /\ g[k] = Hop(kind, f[m-1]) /\ k # 0 BY <2>2, <2>3, <3>1
      <4>2. QED BY <4>1
    <3>2. CASE k # m
      <4>1. k \in 0 .. m-1 /\ g[k] = f[k] BY <2>3, <3>2
      <4>2. k # 0 => k-1 \in 0 .. m /\ k-1 # m BY <2>3, <3>2
      <4>3. k # 0 => g[k-1] = f[k-1] BY <4>2
      <4>4. QED BY <3>0, <4>1, <4>3
    <3>3. QED BY <3>1, <3>2
  <2>6. Balls(kind, v, m, g)
    <3> HIDE DEF g
    <3>1. g = [k \in 0 .. m |-> g[k]] BY DEF g
    <3>2. QED BY <2>5, <3>1 DEF Balls
  <2>7. QED BY <2>1, <2>6
<1>2. QED BY <1>1

\* they agree as far as both go,
LEMMA BallsAgree ==
  ASSUME NEW kind, NEW v, NEW r \in Nat, NEW q \in Nat, NEW f, NEW g,
         Balls(kind, v, r, f), Balls(kind, v, q, g)
  PROVE  \A k \in Nat : k <= r /\ k <= q => f[k] = g[k]
<1> DEFINE S == {k \in Nat : k <= r /\ k <= q /\ f[k] # g[k]}
<1>1. ASSUME S # {} PROVE FALSE
  <2>1. PICK m \in S : \A n \in S : m <= n BY <1>1, LeastMember
  <2>2. /\ f[m] = IF m = 0 THEN {v} ELSE Hop(kind, f[m-1])
        /\ g[m] = IF m = 0 THEN {v} ELSE Hop(kind, g[m-1])
    <3>1. m \in 0 .. r /\ m \in 0 .. q BY <2>1
    <3>2. QED BY <3>1 DEF Balls
  <2>3. m # 0 => f[m-1] = g[m-1] BY <2>1
  <2>4. QED BY <2>1, <2>2, <2>3
<1>2. QED BY <1>1

\* and Within takes the last of them.
LEMMA WithinIsBall ==
  ASSUME NEW kind, NEW v, NEW r \in Nat
  PROVE  \E f : Balls(kind, v, r, f) /\ Within(kind, v, r) = f[r]
<1> DEFINE ball == CHOOSE f : Balls(kind, v, r, f)
<1>1. Balls(kind, v, r, ball) BY BallsExist
<1>2. Within(kind, v, r) = ball[r] BY DEF Within, Balls, Hop
<1>3. QED BY <1>1, <1>2

\* What is within one hop more is a hop away from what is within.
LEMMA WithinStep ==
  ASSUME NEW kind, NEW v
  PROVE  /\ Within(kind, v, 0) = {v}
         /\ \A r \in Nat : Within(kind, v, r+1) = Hop(kind, Within(kind, v, r))
<1>1. Within(kind, v, 0) = {v}
  <2>1. PICK f : Balls(kind, v, 0, f) /\ Within(kind, v, 0) = f[0] BY WithinIsBall
  <2>2. 0 \in 0 .. 0 OBVIOUS
  <2>3. QED BY <2>1, <2>2 DEF Balls
<1>2. ASSUME NEW r \in Nat PROVE Within(kind, v, r+1) = Hop(kind, Within(kind, v, r))
  <2>1. PICK f : Balls(kind, v, r, f) /\ Within(kind, v, r) = f[r] BY WithinIsBall
  <2>2. PICK g : Balls(kind, v, r+1, g) /\ Within(kind, v, r+1) = g[r+1] BY WithinIsBall
  <2>3. f[r] = g[r]
    <3>1. r+1 \in Nat /\ r <= r /\ r <= r+1 OBVIOUS
    <3>2. QED BY <2>1, <2>2, <3>1, BallsAgree
  <2>4. r+1 \in 0 .. r+1 /\ r+1 # 0 /\ (r+1)-1 = r OBVIOUS
  <2>5. g[r+1] = Hop(kind, g[r]) BY <2>2, <2>4 DEF Balls
  <2>6. QED BY <2>1, <2>2, <2>3, <2>5
<1>3. QED BY <1>1, <1>2

\* It is also what is within of a neighbour: the first hop may be taken first.
LEMMA WithinFirstHop ==
  ASSUME NEW kind, NEW v, NEW r \in Nat, NEW x
  PROVE  x \in Within(kind, v, r+1) <=>
           x \in Within(kind, v, r) \/ \E w \in Neighbors(kind, v) : x \in Within(kind, w, r)
<1> DEFINE near(u, q) == Within(kind, u, q)
           nbrs(u) == Neighbors(kind, u)
           first(q) == \A y : y \in near(v, q+1) <=>
                         y \in near(v, q) \/ \E w \in nbrs(v) : y \in near(w, q)
           S == {q \in Nat : ~first(q)}
<1>1. \A u, y : y \in near(u, 0) <=> y = u BY WithinStep
<1>2. \A u, y : \A q \in Nat : y \in near(u, q+1) <=>
        y \in near(u, q) \/ \E z \in near(u, q) : y \in nbrs(z)
  <2>1. \A u : \A q \in Nat : near(u, q+1) = Hop(kind, near(u, q)) BY WithinStep
  <2>2. \A ball, y : y \in Hop(kind, ball) <=> y \in ball \/ \E z \in ball : y \in nbrs(z)
    BY DEF Hop
  <2>3. QED BY <2>1, <2>2
<1> HIDE DEF near, nbrs
<1>3. ASSUME S # {} PROVE FALSE
  <2>1. PICK m \in S : \A n \in S : m <= n BY <1>3, LeastMember
  <2>2. CASE m = 0
    <3>1. \A y : y \in near(v, 0+1) <=>
            y \in near(v, 0) \/ \E z \in near(v, 0) : y \in nbrs(z)
      BY <1>2
    <3>2. \A y : y \in near(v, 0+1) <=> y = v \/ y \in nbrs(v) BY <1>1, <3>1
    <3>3. \A y : (\E w \in nbrs(v) : y \in near(w, 0)) <=> y \in nbrs(v) BY <1>1
    <3>4. QED BY <1>1, <2>1, <2>2, <3>2, <3>3
  <2>3. CASE m # 0
    <3> DEFINE n == m - 1
    <3>1. n \in Nat /\ n + 1 = m /\ n \notin S BY <2>1, <2>3
    <3>2. first(n) BY <3>1
    <3> HIDE DEF n
    <3>3. \A y : y \in near(v, m) <=>
            y \in near(v, n) \/ \E w \in nbrs(v) : y \in near(w, n)
      BY <3>1, <3>2
    <3>4. \A u, y : y \in near(u, m) <=>
            y \in near(u, n) \/ \E z \in near(u, n) : y \in nbrs(z)
      BY <1>2, <3>1
    <3>5. \A y : y \in near(v, m+1) <=>
            y \in near(v, m) \/ \E z \in near(v, m) : y \in nbrs(z)
      BY <1>2, <2>1
    <3>6. ASSUME NEW y
          PROVE  y \in near(v, m+1) <=>
                   y \in near(v, m) \/ \E w \in nbrs(v) : y \in near(w, m)
      <4>1. ASSUME NEW z \in near(v, m), y \in nbrs(z)
            PROVE  y \in near(v, m) \/ \E w \in nbrs(v) : y \in near(w, m)
        <5>1. CASE z \in near(v, n) BY <3>4, <4>1, <5>1
        <5>2. ASSUME NEW w \in nbrs(v), z \in near(w, n) PROVE y \in near(w, m)
          BY <3>4, <4>1, <5>2
        <5>3. QED BY <3>3, <4>1, <5>1, <5>2
      <4>2. ASSUME NEW w \in nbrs(v), y \in near(w, m)
            PROVE  y \in near(v, m) \/ \E z \in near(v, m) : y \in nbrs(z)
        <5>1. CASE y \in near(w, n) BY <3>3, <4>2, <5>1
        <5>2. ASSUME NEW z \in near(w, n), y \in nbrs(z) PROVE z \in near(v, m)
          BY <3>3, <4>2, <5>2
        <5>3. QED BY <3>4, <4>2, <5>1, <5>2
      <4>3. QED BY <3>5, <4>1, <4>2
    <3>7. QED BY <2>1, <3>6
  <2>4. QED BY <2>2, <2>3
<1>4. r \notin S BY <1>3
<1>5. first(r) BY <1>4
<1>6. QED BY <1>5 DEF near, nbrs

-----------------------------------------------------------------------------
(* Wire sizes                                                               *)

\* Every size of a set of elements is a natural number.
LEMMA ElementsFinite ==
  ASSUME NEW S \in SUBSET Element
  PROVE  IsFiniteSet(S) /\ Cardinality(S) \in Nat
BY FiltersAssumption, FS_Subset, FS_CardinalityType

\* div_ceil of natural numbers is one.
LEMMA CeilDivType ==
  ASSUME NEW a \in Nat, NEW b \in Nat, b > 0
  PROVE  CeilDiv(a, b) \in Nat
<1>1. a + b - 1 \in Nat OBVIOUS
<1>2. QED BY <1>1 DEF CeilDiv

\* ... and so is a product.
LEMMA ProductType ==
  ASSUME NEW a \in Nat, NEW b \in Nat
  PROVE  a * b \in Nat
OBVIOUS

\* metadata_bytes of a message is a number of bytes.
LEMMA MetadataBytesType ==
  ASSUME NEW m \in Message
  PROVE  MetadataBytes(m) \in Nat
<1> DEFINE n == Cardinality(m.els)
<1>1. /\ n \in Nat
      /\ m.consumed \in Nat
      /\ m.slices \in Nat
      /\ m.kind \in MsgKind
  BY ElementsFinite DEF Message
<1>2. RibltWireBytes(m) \in Nat BY <1>1 DEF RibltWireBytes
<1>3. BloomWireBytes(m) \in Nat
  <2>1. AtLeastOne(n) \in Nat BY <1>1 DEF AtLeastOne
  <2>2. AtLeastOne(n) * 958506 \in Nat BY <2>1
  <2>3. BloomBits(n) \in Nat BY <2>2, CeilDivType DEF BloomBits
  <2>4. CeilDiv(BloomBits(n), 8) \in Nat BY <2>3, CeilDivType
  <2>5. QED BY <2>4 DEF BloomWireBytes
<1>4. RatelessBloomWireBytes(m) \in Nat
  <2>1. CeilDiv(n, 2) \in Nat BY <1>1, CeilDivType
  <2>2. SliceBits(n) \in Nat BY <2>1, FiltersAssumption DEF SliceBits
  <2>3. CeilDiv(SliceBits(n), 8) \in Nat BY <2>2, CeilDivType
  <2>4. m.slices * CeilDiv(SliceBits(n), 8) \in Nat
    BY <1>1, <2>3, ProductType
  <2>5. QED BY <2>4 DEF RatelessBloomWireBytes
<1>5. QED BY <1>1, <1>2, <1>3, <1>4 DEF MetadataBytes, MsgKind

\* The payload a send phase is billed for is a number of bytes.
LEMMA StateBytesType ==
  ASSUME NEW D \in SUBSET Node, NEW msgs \in [D -> Message]
  PROVE  StateBytes(msgs) \in Nat
<1>1. IsFiniteSet(D) BY NodeFinite, FS_Subset
<1>2. IsFiniteSet(D \X Element) BY <1>1, FiltersAssumption, FS_Product
<1>3. Payload(msgs) \in SUBSET (D \X Element) BY DEF Payload
<1>4. Cardinality(Payload(msgs)) \in Nat
  BY <1>2, <1>3, FS_Subset, FS_CardinalityType
<1>5. WireSize \in Nat BY NetworkAssumption DEF WireSize
<1>6. QED BY <1>4, <1>5, ProductType DEF StateBytes

-----------------------------------------------------------------------------
(* send_phase                                                               *)

\* A new message is a message, and carries what it was built from.
LEMMA NewMsgType ==
  ASSUME NEW kind \in MsgKind, NEW els \in SUBSET Element
  PROVE  /\ NewMsg(kind, els) \in Message
         /\ NewMsg(kind, els).els = els
BY DEF NewMsg, Message

\* A send phase addresses neighbours only, provided that its carry does, and
\* its messages tell nothing that the sender does not hold, provided that its
\* carry does not either.
LEMMA SendPhaseType ==
  ASSUME NEW protocol \in ProtocolKind, NEW nbrs \in SUBSET Node,
         NEW set \in SUBSET Element, NEW c \in Carry
  PROVE  LET msgs == SendPhase(protocol, nbrs, set, c) IN
         /\ DOMAIN msgs \in SUBSET Node
         /\ msgs \in [DOMAIN msgs -> Message]
         /\ Pending(c) \subseteq nbrs => DOMAIN msgs \subseteq nbrs
         /\ (\A w \in Node : c[w] \subseteq set) =>
              \A w \in DOMAIN msgs : msgs[w].els \subseteq set
<1> DEFINE msgs == SendPhase(protocol, nbrs, set, c)
<1>1. CASE protocol \in Flooding
  <2>1. msgs = Flood(nbrs, set) BY <1>1 DEF SendPhase
  <2>2. "Elements" \in MsgKind BY DEF MsgKind
  <2>3. QED BY <2>1, <2>2, NewMsgType DEF Flood
<1>2. CASE protocol \notin Flooding /\ c = NoCarry
  <2>1. msgs = Sketches(protocol, nbrs, set) BY <1>2 DEF SendPhase
  <2>2. SketchKind(protocol) \in MsgKind
    BY <1>2 DEF SketchKind, MsgKind, ProtocolKind, Flooding
  <2>3. QED BY <2>1, <2>2, NewMsgType DEF Sketches
<1>3. CASE protocol \notin Flooding /\ c # NoCarry
  <2>1. msgs = CarriedElements(c) BY <1>3 DEF SendPhase
  <2>2. "Elements" \in MsgKind BY DEF MsgKind
  <2>3. Pending(c) \in SUBSET Node /\ \A w \in Pending(c) : c[w] \in SUBSET Element
    BY DEF Pending, Carry
  <2>4. QED BY <2>1, <2>2, <2>3, NewMsgType DEF CarriedElements
<1>4. QED BY <1>1, <1>2, <1>3

-----------------------------------------------------------------------------
(* recv_phase                                                               *)

\* Whatever the filter lets through, ruled-out and recovered elements make
\* up what the sender lacks: false positives cost symbols, never elements.
THEOREM FilterExact ==
  ASSUME NEW set \in SUBSET Element, NEW els \in SUBSET Element,
         NEW P \in Positives(set, els)
  PROVE  LocalOnly(set, P, els) = set \ els
BY DEF Positives, LocalOnly

\* The symbols that a decode may consume are counted in natural numbers.
LEMMA ConsumableType ==
  ASSUME NEW diff \in SUBSET Element
  PROVE  Consumable(diff) \subseteq Nat
BY ElementsFinite, SlackAssumption DEF Consumable, AtLeastOne

\* ... and so are those of the cross-check behind a filter.
LEMMA CrossCheckType ==
  ASSUME NEW P \in SUBSET Element, NEW els \in SUBSET Element
  PROVE  CrossCheck(P, els) \subseteq Nat
<1>1. SymDiff(P, els) \in SUBSET Element BY DEF SymDiff
<1>2. QED BY <1>1, ConsumableType DEF CrossCheck

\* A decoded sketch of any protocol yields exactly the receiver's elements
\* that the sender lacks; an Elements message yields none.
THEOREM DecodeExact ==
  ASSUME NEW set \in SUBSET Element, NEW m \in Message,
         NEW o \in Outcomes(set, m)
  PROVE  /\ o \in Outcome
         /\ o.local_only = IF m.kind = "Elements" THEN {} ELSE set \ m.els
<1>1. m.els \in SUBSET Element /\ m.kind \in MsgKind BY DEF Message
<1>2. CASE m.kind = "Elements"
  <2>1. o \in [local_only : {{}}, consumed : {0}, slices : {0}]
    BY <1>2 DEF Outcomes
  <2>2. QED BY <1>2, <2>1 DEF Outcome
<1>3. CASE m.kind = "Riblt"
  <2>1. o \in DecodeRiblt(set, m) BY <1>3 DEF Outcomes
  <2>2. SymDiff(set, m.els) \in SUBSET Element BY <1>1 DEF SymDiff
  <2>3. QED BY <1>1, <1>3, <2>1, <2>2, ConsumableType DEF DecodeRiblt, Outcome
<1>4. CASE m.kind = "BloomRiblt"
  <2>1. o \in DecodeBloomRiblt(set, m) BY <1>4 DEF Outcomes
  <2>2. PICK P \in Positives(set, m.els) :
          o \in [local_only : {LocalOnly(set, P, m.els)},
                 consumed : CrossCheck(P, m.els), slices : {0}]
    BY <2>1 DEF DecodeBloomRiblt
  <2>3. P \in SUBSET Element BY DEF Positives
  <2>4. LocalOnly(set, P, m.els) = set \ m.els BY <1>1, FilterExact
  <2>5. CrossCheck(P, m.els) \subseteq Nat BY <1>1, <2>3, CrossCheckType
  <2>6. QED BY <1>4, <2>2, <2>4, <2>5 DEF Outcome
<1>5. CASE m.kind = "RatelessBloomRiblt"
  <2>1. o \in DecodeRatelessBloomRiblt(set, m) BY <1>5 DEF Outcomes
  <2>2. PICK f \in FilterOutcomes(set, m.els) :
          o \in [local_only : {LocalOnly(set, f.positives, m.els)},
                 consumed : CrossCheck(f.positives, m.els),
                 slices : {f.slices}]
    BY <2>1 DEF DecodeRatelessBloomRiblt
  <2>3. f.positives \in Positives(set, m.els) /\ f.slices \in Nat
    <3>1. PICK P \in Positives(set, m.els) :
            f \in [positives : {P},
                   slices : SliceCounts(Cardinality(set \ P),
                     Threshold(Cardinality(set), Cardinality(m.els)))]
      BY DEF FilterOutcomes
    <3>2. QED BY <3>1 DEF SliceCounts
  <2>4. f.positives \in SUBSET Element BY <2>3 DEF Positives
  <2>5. LocalOnly(set, f.positives, m.els) = set \ m.els
    BY <1>1, <2>3, FilterExact
  <2>6. CrossCheck(f.positives, m.els) \subseteq Nat
    BY <1>1, <2>4, CrossCheckType
  <2>7. QED BY <1>5, <2>2, <2>3, <2>5, <2>6 DEF Outcome
<1>6. QED BY <1>1, <1>2, <1>3, <1>4, <1>5 DEF MsgKind

\* Each message of an inbox gets an outcome of its own, which lists only
\* elements of the receiver.
LEMMA OutcomesPerMessage ==
  ASSUME NEW set \in SUBSET Element, NEW inbox \in Seq(Envelope),
         NEW out \in InboxOutcomes(set, inbox), NEW i \in DOMAIN inbox
  PROVE  /\ inbox[i] \in Envelope
         /\ out[i] \in Outcomes(set, inbox[i].msg)
         /\ out[i] \in Outcome
         /\ out[i].local_only \subseteq set
<1>1. inbox[i] \in Envelope BY ElementOfSeq, LenProperties
<1>2. out[i] \in Outcomes(set, inbox[i].msg) BY DEF InboxOutcomes
<1>3. inbox[i].msg \in Message BY <1>1 DEF Envelope
<1>4. /\ out[i] \in Outcome
      /\ out[i].local_only = IF inbox[i].msg.kind = "Elements" THEN {}
                             ELSE set \ inbox[i].msg.els
  BY <1>2, <1>3, DecodeExact
<1>5. QED BY <1>1, <1>2, <1>4

\* Messages keep their type when a receive phase uses them up.
LEMMA ConsumedType ==
  ASSUME NEW set \in SUBSET Element, NEW inbox \in Seq(Envelope),
         NEW out \in InboxOutcomes(set, inbox), NEW T,
         \A i \in DOMAIN inbox : inbox[i] \in T,
         \A e \in T, o \in Outcome :
           [from |-> e.from, msg |-> UsedUp(e.msg, o)] \in T
  PROVE  Consumed(inbox, out) \in Seq(T)
<1>1. Len(inbox) \in Nat /\ DOMAIN inbox = 1 .. Len(inbox) BY LenProperties
<1>2. \A i \in 1 .. Len(inbox) : out[i] \in Outcome
  BY <1>1, OutcomesPerMessage
<1>3. Consumed(inbox, out) \in [1 .. Len(inbox) -> T]
  BY <1>1, <1>2 DEF Consumed
<1>4. QED BY <1>1, <1>3, SeqDef

\* The next carry is addressed to senders in the inbox, and holds only what
\* the receiver held when the round began.
LEMMA NextCarryType ==
  ASSUME NEW set \in SUBSET Element, NEW inbox \in Seq(Envelope),
         NEW out \in InboxOutcomes(set, inbox), NEW nbrs \in SUBSET Node,
         \A i \in DOMAIN inbox : inbox[i].from \in nbrs
  PROVE  LET c == NextCarry(inbox, out) IN
         /\ c \in Carry
         /\ Pending(c) \subseteq nbrs
         /\ \A w \in Node : c[w] \subseteq set
<1> DEFINE c == NextCarry(inbox, out)
<1>1. ASSUME NEW w \in Node
      PROVE  /\ c[w] \subseteq set
             /\ c[w] # {} => w \in nbrs
  <2>1. c[w] = UNION {out[i].local_only :
                      i \in {j \in DOMAIN inbox : inbox[j].from = w}}
    BY DEF NextCarry
  <2>2. \A i \in DOMAIN inbox : out[i].local_only \subseteq set
    BY OutcomesPerMessage
  <2> HIDE DEF c
  <2>3. QED BY <2>1, <2>2
<1>2. c \in Carry
  <2>1. DOMAIN c = Node /\ c = [w \in Node |-> c[w]] BY DEF NextCarry
  <2> HIDE DEF c
  <2>2. QED BY <1>1, <2>1 DEF Carry
<1> HIDE DEF c
<1>3. QED BY <1>1, <1>2 DEF Pending, c

\* What is merged was held by some sender.
LEMMA ReceivedFromSenders ==
  ASSUME NEW inbox \in Seq(Envelope)
  PROVE  /\ Received(inbox) \in SUBSET Element
         /\ \A x \in Received(inbox) :
              \E i \in DOMAIN inbox : x \in inbox[i].msg.els
<1>1. ASSUME NEW i \in DOMAIN inbox
      PROVE  inbox[i].msg.els \in SUBSET Element
  <2>1. inbox[i] \in Envelope BY LenProperties, ElementOfSeq
  <2>2. QED BY <2>1 DEF Envelope, Message
<1>2. QED BY <1>1 DEF Received

-----------------------------------------------------------------------------
(* Types                                                                    *)

\* The neighbours in this simulation's overlay are nodes, and mutual.
LEMMA NbrsType ==
  ASSUME config.topology \in TopologyKind, NEW v \in Node
  PROVE  Nbrs(v) \in SUBSET Node /\ \A w \in Nbrs(v) : v \in Nbrs(w)
BY NeighborsSymmetric DEF Nbrs

\* What the type of the configuration says of its fields.
LEMMA ConfigType ==
  ASSUME TypeOK
  PROVE  /\ config.protocol \in ProtocolKind
         /\ config.topology \in TopologyKind
         /\ config.round_cap \in Nat
BY EngineAssumption DEF TypeOK

\* An empty carry is a carry.
LEMMA NoCarryType == NoCarry \in Carry
BY DEF NoCarry, Carry

\* finish() keeps the phases and the result well-typed.
LEMMA FinishType ==
  ASSUME NEW converged \in BOOLEAN, NEW counters \in [Node -> Stats],
         NEW rounds \in Nat,
         phase \in [Node -> {"Idle", "Active", "Converged"}],
         Finish(converged, phase, counters, rounds)
  PROVE  /\ pc' = "done"
         /\ phase' \in [Node -> {"Idle", "Active", "Converged"}]
         /\ result' \in Result \cup {NoResult}
BY DEF Finish, Result

\* Billing one message keeps the counters natural numbers.
LEMMA BillType ==
  ASSUME NetworkTypeOK, NEW env \in Envelope, BillMetadata(env)
  PROVE  NetworkTypeOK'
<1> DEFINE cost == MetadataBytes(env.msg)
<1>1. env.from \in Node /\ cost \in Nat BY MetadataBytesType DEF Envelope
<1>2. /\ bytes_metadata' = bytes_metadata + cost
      /\ per_node_metadata' = [per_node_metadata EXCEPT ![env.from] = @ + cost]
      /\ UNCHANGED <<inboxes, bytes_state, per_node_state>>
  BY DEF BillMetadata
<1> HIDE DEF cost
<1>3. QED BY <1>1, <1>2 DEF NetworkTypeOK

\* The engine's records and functions have the types the source declares.
THEOREM TypeCorrect == Safety => []TypeOK
<1>1. Init => TypeOK
  <2> SUFFICES ASSUME Init PROVE TypeOK OBVIOUS
  <2>1. NetworkTypeOK
    <3>1. <<>> \in Seq(Envelope) BY EmptySeq
    <3>2. QED BY <3>1 DEF Init, NetworkInit, NetworkTypeOK
  <2>2. /\ initial \in [Node -> SUBSET Element]
        /\ sets \in [Node -> SUBSET Element]
        /\ target_union \in SUBSET Element
    <3>1. initial \in [Node -> SUBSET Element] BY DEF Init
    <3>2. QED BY <3>1 DEF Init
  <2>3. stats \in [Node -> Stats] BY DEF Init, Stats
  <2>4. /\ carry_states \in [Node -> Carry]
        /\ results \in [Node -> RecvResult]
    BY NoCarryType DEF Init, NoRecvResult, RecvResult
  <2>5. drained \in [Node -> Seq(Envelope)]
    <3>1. <<>> \in Seq(Envelope) BY EmptySeq
    <3>2. QED BY <3>1 DEF Init
  <2>6. QED BY <2>1, <2>2, <2>3, <2>4, <2>5, NodeFinite DEF Init, TypeOK
<1>2. TypeOK /\ [Next]_vars => TypeOK'
  <2> SUFFICES ASSUME TypeOK, [Next]_vars PROVE TypeOK' OBVIOUS
  <2>0. cur \in Node /\ cur + 1 \in Int /\ (cur # N-1 => cur + 1 \in Node) /\ 0 \in Node
    BY NAssumption DEF TypeOK, Node
  <2>1. CASE Start
    <3>1. CASE HasConverged(sets)
      <4>1. Finish(TRUE, phase, stats, current_round) BY <2>1, <3>1 DEF Start
      <4>2. /\ pc' = "done"
            /\ phase' \in [Node -> {"Idle", "Active", "Converged"}]
            /\ result' \in Result \cup {NoResult}
        BY <4>1, FinishType DEF TypeOK
      <4>3. QED BY <2>1, <4>2 DEF Start, TypeOK, NetworkTypeOK, netVars
    <3>2. CASE ~HasConverged(sets)
      BY <2>1, <3>2 DEF Start, TypeOK, NetworkTypeOK, netVars
    <3>3. QED BY <3>1, <3>2
  <2>2. CASE BeginRound
    <3>1. CASE current_round >= config.round_cap
      <4>1. Finish(FALSE, phase, stats, current_round)
        BY <2>2, <3>1 DEF BeginRound
      <4>2. /\ pc' = "done"
            /\ phase' \in [Node -> {"Idle", "Active", "Converged"}]
            /\ result' \in Result \cup {NoResult}
        BY <4>1, FinishType DEF TypeOK
      <4>3. QED
        BY <2>0, <2>2, <3>1, <4>2 DEF BeginRound, TypeOK, NetworkTypeOK, netVars
    <3>2. CASE ~(current_round >= config.round_cap)
      <4>1. Reset /\ UNCHANGED result /\ current_round' = current_round + 1
            /\ phase' = [v \in Node |-> "Active"] /\ pc' = "send"
        BY <2>2, <3>2 DEF BeginRound
      <4>2. NetworkTypeOK'
        <5>1. <<>> \in Seq(Envelope) BY EmptySeq
        <5>2. QED BY <4>1, <5>1 DEF Reset, NetworkTypeOK
      <4>3. QED BY <2>0, <2>2, <4>1, <4>2 DEF BeginRound, TypeOK
    <3>3. QED BY <3>1, <3>2
  <2>3. CASE Send
    <3> DEFINE msgs == SendPhase(config.protocol, Nbrs(cur), sets[cur],
                                 carry_states[cur])
    <3>1. carry_states' = [carry_states EXCEPT ![cur] = NoCarry] BY <2>3 DEF Send
    <3>2. carry_states' \in [Node -> Carry] BY <3>1, NoCarryType DEF TypeOK
    <3>3. CASE DOMAIN msgs \subseteq Nbrs(cur)
      <4>1. Deliver(cur, msgs) BY <2>3, <3>3 DEF Send
      <4>2. DOMAIN msgs \in SUBSET Node /\ msgs \in [DOMAIN msgs -> Message]
        <5>1. Nbrs(cur) \in SUBSET Node BY <2>0, ConfigType, NbrsType
        <5>2. sets[cur] \in SUBSET Element /\ carry_states[cur] \in Carry
          BY DEF TypeOK
        <5>3. QED BY <5>1, <5>2, ConfigType, SendPhaseType
      <4>3. StateBytes(msgs) \in Nat BY <4>2, StateBytesType
      <4> HIDE DEF msgs
      <4>4. \A w \in DOMAIN msgs : [from |-> cur, msg |-> msgs[w]] \in Envelope
        BY <2>0, <4>2 DEF Envelope
      <4>5. \A w \in Node : inboxes[w] \in Seq(Envelope)
        BY DEF TypeOK, NetworkTypeOK
      <4>6. inboxes' \in [Node -> Seq(Envelope)]
        BY <4>1, <4>4, <4>5 DEF Deliver
      <4>7. NetworkTypeOK'
        <5>1. bytes_state' \in Nat /\ per_node_state' \in [Node -> Nat]
          BY <2>0, <4>1, <4>3 DEF Deliver, TypeOK, NetworkTypeOK
        <5>2. bytes_metadata' \in Nat /\ per_node_metadata' \in [Node -> Nat]
          BY <4>1 DEF Deliver, TypeOK, NetworkTypeOK
        <5>3. QED BY <4>6, <5>1, <5>2 DEF NetworkTypeOK
      <4>8. pc' \in {"send", "drain"} /\ cur' \in Node
        BY <2>0, <2>3, <3>3 DEF Send, msgs
      <4>9. QED BY <2>3, <3>2, <4>7, <4>8 DEF Send, TypeOK
    <3>4. CASE ~(DOMAIN msgs \subseteq Nbrs(cur))
      BY <2>0, <2>3, <3>2, <3>4 DEF Send, TypeOK, NetworkTypeOK, netVars
    <3>5. QED BY <3>3, <3>4
  <2>4. CASE Drain
    <3>1. <<>> \in Seq(Envelope) BY EmptySeq
    <3>2. QED BY <2>4, <3>1 DEF Drain, DrainAll, TypeOK, NetworkTypeOK
  <2>5. CASE Recv
    <3> DEFINE stuck == \E i \in DOMAIN drained[cur] :
                          ExtendsForever(sets[cur], drained[cur][i].msg)
    <3>1. CASE stuck
      BY <2>5, <3>1 DEF Recv, TypeOK, NetworkTypeOK, netVars
    <3>2. CASE ~stuck
      <4>1. PICK out \in InboxOutcomes(sets[cur], drained[cur]) :
              /\ results' = [results EXCEPT ![cur] =
                   [next_set |-> NextSet(sets[cur], drained[cur]),
                    carry |-> NextCarry(drained[cur], out)]]
              /\ drained' = [drained EXCEPT ![cur] = Consumed(@, out)]
        BY <2>5, <3>2 DEF Recv
      <4>2. sets[cur] \in SUBSET Element /\ drained[cur] \in Seq(Envelope)
        BY <2>0 DEF TypeOK
      <4>3. NextSet(sets[cur], drained[cur]) \in SUBSET Element
        BY <4>2, ReceivedFromSenders DEF NextSet
      <4>4. NextCarry(drained[cur], out) \in Carry
        <5>1. \A i \in DOMAIN drained[cur] : drained[cur][i].from \in Node
          BY <4>2, OutcomesPerMessage DEF Envelope
        <5>2. QED BY <4>2, <5>1, NextCarryType
      <4>5. Consumed(drained[cur], out) \in Seq(Envelope)
        <5>1. \A i \in DOMAIN drained[cur] : drained[cur][i] \in Envelope
          BY <4>2, OutcomesPerMessage
        <5>2. \A e \in Envelope, o \in Outcome :
                [from |-> e.from, msg |-> UsedUp(e.msg, o)] \in Envelope
          BY DEF Envelope, Message, UsedUp, Outcome
        <5>3. QED BY <4>2, <5>1, <5>2, ConsumedType
      <4>6. results' \in [Node -> RecvResult]
        BY <2>0, <4>1, <4>3, <4>4 DEF TypeOK, RecvResult
      <4>7. drained' \in [Node -> Seq(Envelope)]
        BY <2>0, <4>1, <4>5 DEF TypeOK
      <4>8. pc' \in {"recv", "bill"} /\ cur' \in Node
        BY <2>0, <2>5, <3>2 DEF Recv
      <4>9. QED BY <2>5, <4>6, <4>7, <4>8
            DEF Recv, TypeOK, NetworkTypeOK, netVars
    <3>3. QED BY <3>1, <3>2
  <2>6. CASE Bill
    <3>1. CASE drained[cur] # <<>>
      <4>1. drained[cur] \in Seq(Envelope) BY <2>0 DEF TypeOK
      <4>2. /\ Head(drained[cur]) \in Envelope
            /\ Tail(drained[cur]) \in Seq(Envelope)
        BY <3>1, <4>1, HeadTailProperties
      <4>4. BillMetadata(Head(drained[cur])) BY <2>6, <3>1 DEF Bill
      <4>5. NetworkTypeOK' BY <4>2, <4>4, BillType DEF TypeOK
      <4>6. drained' \in [Node -> Seq(Envelope)]
        BY <2>0, <2>6, <3>1, <4>2 DEF Bill, TypeOK
      <4>7. QED BY <2>6, <3>1, <4>5, <4>6 DEF Bill, TypeOK
    <3>2. CASE drained[cur] = <<>>
      BY <2>0, <2>6, <3>2 DEF Bill, TypeOK, NetworkTypeOK, netVars
    <3>3. QED BY <3>1, <3>2
  <2>7. CASE Apply
    <3>1. \A v \in Node : NewStats(v) \in Stats
      <4> SUFFICES ASSUME NEW v \in Node PROVE NewStats(v) \in Stats OBVIOUS
      <4>1. results[v].next_set \ sets[v] \in SUBSET Element
        BY DEF TypeOK, RecvResult
      <4>2. Cardinality(results[v].next_set \ sets[v]) \in Nat
        BY <4>1, ElementsFinite
      <4>3. stats[v] \in Stats /\ per_node_state[v] \in Nat
            /\ per_node_metadata[v] \in Nat
        BY DEF TypeOK, NetworkTypeOK
      <4>4. QED BY <4>2, <4>3 DEF NewStats, Stats
    <3>2. stats' \in [Node -> Stats] BY <2>7, <3>1 DEF Apply, Conclude
    <3>3. \A v \in Node : /\ results[v].next_set \in SUBSET Element
                         /\ results[v].carry \in Carry
      BY DEF TypeOK, RecvResult
    <3>4. /\ sets' \in [Node -> SUBSET Element]
          /\ carry_states' \in [Node -> Carry]
      BY <2>7, <3>3 DEF Apply, Conclude
    <3>5. results' \in [Node -> RecvResult]
      BY <2>7, NoCarryType DEF Apply, Conclude, NoRecvResult, RecvResult
    <3>6. /\ pc' \in {"done", "begin"}
          /\ phase' \in [Node -> {"Idle", "Active", "Converged"}]
          /\ result' \in Result \cup {NoResult}
      <4> DEFINE counters == [v \in Node |-> NewStats(v)]
      <4>1. counters \in [Node -> Stats] BY <3>1
      <4>2. \/ Finish(TRUE, phase, counters, current_round)
            \/ Finish(FALSE, phase, counters, current_round)
            \/ pc' = "begin" /\ UNCHANGED <<phase, result>>
        BY <2>7 DEF Apply, Conclude
      <4> HIDE DEF counters
      <4>3. QED BY <4>1, <4>2, FinishType DEF TypeOK
    <3>7. QED BY <2>7, <3>2, <3>4, <3>5, <3>6
          DEF Apply, Conclude, TypeOK, NetworkTypeOK, netVars
  <2>8. CASE Halted \/ UNCHANGED vars
    BY <2>8 DEF Halted, vars, netVars, engineVars, TypeOK, NetworkTypeOK
  <2>9. QED BY <2>1, <2>2, <2>3, <2>4, <2>5, <2>6, <2>7, <2>8 DEF Next
<1>3. QED BY <1>1, <1>2, PTL DEF Safety

-----------------------------------------------------------------------------
(* The inductive invariant                                                  *)

\* An empty carry is addressed to nobody.
LEMMA NoCarryOK == ASSUME NEW v \in Node PROVE CarryOK(v, NoCarry)
BY DEF CarryOK, NoCarry, Pending

\* Steps that leave the sets alone leave everything defined from them alone.
Quiet == UNCHANGED <<config, initial, target_union, sets>>

\* Neighbours, acceptable mail, results and the test for convergence depend
\* on the sets alone.
LEMMA QuietFrame ==
  ASSUME Quiet, NEW v \in Node
  PROVE  /\ Nbrs(v)' = Nbrs(v)
         /\ Mail(v)' = Mail(v)
         /\ results'[v] = results[v] => ResultOK(v)' = ResultOK(v)
         /\ (HasConverged(sets)' <=> HasConverged(sets))
BY DEF Quiet, Nbrs, Mail, ResultOK, HasConverged

\* ... and so does what is claimed of the sets themselves.
LEMMA QuietSets == ASSUME SetsInv, Quiet PROVE SetsInv'
BY DEF Quiet, SetsInv, NothingLostOrInvented

\* A carry stays good when it is kept or taken away.
LEMMA QuietCarry ==
  ASSUME CarryInv, Quiet,
         \A v \in Node : \/ carry_states'[v] = carry_states[v]
                        \/ carry_states'[v] = NoCarry,
         \A v \in Node : \/ results'[v] = results[v]
                        \/ CarryOK(v, results'[v].carry)
  PROVE  CarryInv'
<1> SUFFICES ASSUME NEW v \in Node
    PROVE  (CarryOK(v, carry_states[v]) /\ CarryOK(v, results[v].carry))'
  BY DEF CarryInv
<1>1. CarryOK(v, carry_states'[v]) /\ CarryOK(v, results'[v].carry)
  BY NoCarryOK DEF CarryInv
<1>2. QED BY <1>1 DEF CarryOK, Quiet, Nbrs

\* Inboxes stay good when nothing is put in but good mail.
LEMMA QuietMail ==
  ASSUME MailInv, Quiet,
         \A v \in Node : inboxes'[v] = inboxes[v] \/ inboxes'[v] \in Seq(Mail(v)),
         \A v \in Node : drained'[v] = drained[v] \/ drained'[v] \in Seq(Mail(v))
  PROVE  MailInv'
<1> SUFFICES ASSUME NEW v \in Node
    PROVE  (inboxes[v] \in Seq(Mail(v)) /\ drained[v] \in Seq(Mail(v)))'
  BY DEF MailInv
<1>1. Mail(v)' = Mail(v) BY QuietFrame
<1>2. QED BY <1>1 DEF MailInv

\* An empty inbox holds only good mail.
LEMMA NoMail == ASSUME NEW v \in Node PROVE <<>> \in Seq(Mail(v))
BY EmptySeq

\* The mail a send phase adds is mail its destination may get.
LEMMA SendInv ==
  ASSUME TypeOK, SetsInv, MailInv, CarryInv, Send
  PROVE  pc' # "panic" /\ SetsInv' /\ MailInv' /\ CarryInv'
<1> DEFINE msgs == SendPhase(config.protocol, Nbrs(cur), sets[cur],
                             carry_states[cur])
<1>0. cur \in Node /\ Quiet BY DEF TypeOK, Send, Quiet
<1>1. Nbrs(cur) \in SUBSET Node /\ \A w \in Nbrs(cur) : cur \in Nbrs(w)
  BY <1>0, ConfigType, NbrsType
<1>2. /\ sets[cur] \in SUBSET Element
      /\ carry_states[cur] \in Carry
      /\ Pending(carry_states[cur]) \subseteq Nbrs(cur)
      /\ \A w \in Node : carry_states[cur][w] \subseteq sets[cur]
  BY <1>0 DEF TypeOK, CarryInv, CarryOK
<1>3. /\ DOMAIN msgs \subseteq Nbrs(cur)
      /\ msgs \in [DOMAIN msgs -> Message]
      /\ \A w \in DOMAIN msgs : msgs[w].els \subseteq sets[cur]
  BY <1>1, <1>2, ConfigType, SendPhaseType
<1>4. Deliver(cur, msgs) /\ pc' # "panic" BY <1>3 DEF Send
<1>5. MailInv'
  <2> HIDE DEF msgs
  <2>1. ASSUME NEW w \in Node
        PROVE  inboxes'[w] = inboxes[w] \/ inboxes'[w] \in Seq(Mail(w))
    <3>1. CASE w \in DOMAIN msgs
      <4>1. [from |-> cur, msg |-> msgs[w]] \in Mail(w)
        BY <1>0, <1>1, <1>3, <3>1 DEF Mail, Envelope
      <4>2. inboxes[w] \in Seq(Mail(w)) BY DEF MailInv
      <4>3. inboxes'[w] = Append(inboxes[w], [from |-> cur, msg |-> msgs[w]])
        BY <1>4, <3>1 DEF Deliver
      <4>4. QED BY <4>1, <4>2, <4>3
    <3>2. CASE w \notin DOMAIN msgs BY <1>4, <3>2 DEF Deliver
    <3>3. QED BY <3>1, <3>2
  <2>2. drained' = drained BY DEF Send
  <2>3. QED BY <1>0, <2>1, <2>2, QuietMail
<1>6. CarryInv'
  <2>1. carry_states' = [carry_states EXCEPT ![cur] = NoCarry] /\ results' = results
    BY DEF Send
  <2>2. QED BY <1>0, <2>1, QuietCarry DEF TypeOK
<1>7. QED BY <1>0, <1>4, <1>5, <1>6, QuietSets

\* What a receive phase computes comes from the replica and its neighbours.
LEMMA RecvInv ==
  ASSUME TypeOK, SetsInv, MailInv, CarryInv, ResultsInv, Recv
  PROVE  SetsInv' /\ MailInv' /\ CarryInv' /\ ResultsInv'
<1> DEFINE stuck == \E i \in DOMAIN drained[cur] :
                      ExtendsForever(sets[cur], drained[cur][i].msg)
<1>0. cur \in Node /\ pc = "recv" /\ Quiet BY DEF TypeOK, Recv, Quiet
<1>1. SetsInv' BY <1>0, QuietSets
<1>2. CASE stuck
  <2>1. /\ drained' = drained /\ results' = results /\ pc' = "hung"
        /\ inboxes' = inboxes /\ carry_states' = carry_states
    BY <1>2 DEF Recv, netVars
  <2>2. QED BY <1>0, <1>1, <2>1, QuietMail, QuietCarry DEF ResultsInv
<1>3. CASE ~stuck
  <2> DEFINE S == sets[cur]
             box == drained[cur]
  <2>1. PICK out \in InboxOutcomes(S, box) :
          /\ results' = [results EXCEPT ![cur] =
               [next_set |-> NextSet(S, box), carry |-> NextCarry(box, out)]]
          /\ drained' = [drained EXCEPT ![cur] = Consumed(@, out)]
    BY <1>3 DEF Recv
  <2>2. S \in SUBSET Element /\ box \in Seq(Envelope) /\ box \in Seq(Mail(cur))
    BY <1>0 DEF TypeOK, MailInv
  <2>3. \A i \in DOMAIN box : box[i] \in Mail(cur)
    BY <2>2, ElementOfSeq, LenProperties
  <2>4. /\ results'[cur].next_set = S \cup Received(box)
        /\ results'[cur].carry = NextCarry(box, out)
        /\ \A v \in Node : v # cur => results'[v] = results[v]
    BY <1>0, <2>1 DEF TypeOK, NextSet
  <2>5. MailInv'
    <3>1. \A e \in Mail(cur), o \in Outcome :
            [from |-> e.from, msg |-> UsedUp(e.msg, o)] \in Mail(cur)
      BY DEF Mail, Envelope, Message, UsedUp, Outcome
    <3>2. Consumed(box, out) \in Seq(Mail(cur))
      BY <2>2, <2>3, <3>1, ConsumedType
    <3>3. \A v \in Node : drained'[v] = drained[v] \/ drained'[v] \in Seq(Mail(v))
      BY <1>0, <2>1, <3>2 DEF TypeOK
    <3>4. inboxes' = inboxes BY DEF Recv, netVars
    <3>5. QED BY <1>0, <3>3, <3>4, QuietMail
  <2>6. CarryInv'
    <3>1. Nbrs(cur) \in SUBSET Node BY <1>0, ConfigType, NbrsType
    <3>2. \A i \in DOMAIN box : box[i].from \in Nbrs(cur) BY <2>3 DEF Mail
    <3>3. CarryOK(cur, NextCarry(box, out))
      BY <2>2, <3>1, <3>2, NextCarryType DEF CarryOK
    <3>4. carry_states' = carry_states BY DEF Recv
    <3>5. QED BY <1>0, <2>4, <3>3, <3>4, QuietCarry
  <2>7. ResultsInv'
    <3>1. ASSUME NEW v \in Node, v = cur PROVE ResultOK(v)'
      <4>1. Received(box) \subseteq UNION {sets[w] : w \in Nbrs(cur)}
        BY <2>2, <2>3, ReceivedFromSenders DEF Mail
      <4>2. QED BY <1>0, <2>4, <3>1, <4>1 DEF ResultOK, Quiet, Nbrs
    <3>2. ASSUME NEW v \in Node, v < cur PROVE ResultOK(v)'
      <4>1. ResultOK(v) /\ v # cur BY <1>0, <3>2 DEF ResultsInv, Node
      <4>2. QED BY <1>0, <2>4, <4>1, QuietFrame
    <3>3. \/ cur = N-1 /\ pc' = "bill"
          \/ cur # N-1 /\ pc' = "recv" /\ cur' = cur + 1
      BY <1>3 DEF Recv
    <3>4. CASE cur = N-1
      <4>1. \A v \in Node : v < cur \/ v = cur BY <1>0, <3>4, NAssumption DEF Node
      <4>2. \A v \in Node : ResultOK(v)' BY <3>1, <3>2, <4>1
      <4>3. QED BY <3>3, <3>4, <4>2 DEF ResultsInv
    <3>5. CASE cur # N-1
      <4>1. \A v \in Node : v < cur + 1 => v < cur \/ v = cur
        BY <1>0, NAssumption DEF Node
      <4>2. \A v \in Node : v < cur' => ResultOK(v)'
        BY <3>1, <3>2, <3>3, <3>5, <4>1
      <4>3. QED BY <3>3, <3>5, <4>2 DEF ResultsInv
    <3>6. QED BY <3>4, <3>5
  <2>8. QED BY <1>1, <2>5, <2>6, <2>7
<1>4. QED BY <1>2, <1>3

\* Applying the results keeps all that is still to be used valid: sets only
\* grow, and only inside the union.
LEMMA ApplyInv ==
  ASSUME TypeOK, SetsInv, MailInv, CarryInv, ResultsInv, Apply
  PROVE  SetsInv' /\ MailInv' /\ CarryInv' /\ ResultsInv'
<1>0. /\ UNCHANGED <<config, initial, target_union, drained>>
      /\ inboxes' = inboxes
      /\ pc' \in {"done", "begin"}
      /\ \A v \in Node : /\ sets'[v] = results[v].next_set
                        /\ carry_states'[v] = results[v].carry
                        /\ results'[v] = NoRecvResult
  BY DEF Apply, Conclude, Finish, netVars
<1>1. \A v \in Node : ResultOK(v) BY DEF Apply, Conclude, ResultsInv
<1>2. \A v \in Node : Nbrs(v)' = Nbrs(v) /\ Nbrs(v) \in SUBSET Node
  BY <1>0, ConfigType, NbrsType DEF Nbrs
<1>3. SetsInv'
  <2>1. ASSUME NEW v \in Node
        PROVE  initial[v] \subseteq sets'[v] /\ sets'[v] \subseteq target_union
    BY <1>0, <1>1, <1>2 DEF ResultOK, SetsInv, NothingLostOrInvented
  <2>2. QED BY <1>0, <2>1 DEF SetsInv, NothingLostOrInvented
<1>4. \A v \in Node : sets[v] \subseteq sets'[v] BY <1>0, <1>1 DEF ResultOK
<1>5. MailInv'
  <2> SUFFICES ASSUME NEW v \in Node
      PROVE  (inboxes[v] \in Seq(Mail(v)) /\ drained[v] \in Seq(Mail(v)))'
    BY DEF MailInv
  <2>1. Mail(v) \subseteq Mail(v)' BY <1>2, <1>4 DEF Mail
  <2>2. inboxes[v] \in Seq(Mail(v)) /\ drained[v] \in Seq(Mail(v)) BY DEF MailInv
  <2>3. QED BY <1>0, <2>1, <2>2, SeqMonotonic
<1>6. CarryInv'
  <2> SUFFICES ASSUME NEW v \in Node
      PROVE  (CarryOK(v, carry_states[v]) /\ CarryOK(v, results[v].carry))'
    BY DEF CarryInv
  <2>1. CarryOK(v, results[v].carry) BY DEF CarryInv
  <2>2. CarryOK(v, NoCarry) BY NoCarryOK
  <2>3. QED BY <1>0, <1>2, <1>4, <2>1, <2>2 DEF CarryOK, NoRecvResult
<1>7. ResultsInv' BY <1>0 DEF ResultsInv
<1>8. QED BY <1>3, <1>5, <1>6, <1>7

\* Returning with a true verdict.
LEMMA FinishControl ==
  ASSUME TypeOK, current_round' \in Nat, current_round' <= config.round_cap,
         config' = config, \A v \in Node : phase[v] # "Converged",
         \/ /\ HasConverged(sets)'
            /\ Finish(TRUE, phase, stats', current_round')
         \/ /\ ~HasConverged(sets)'
            /\ Finish(FALSE, phase, stats', current_round')
            /\ current_round' = config.round_cap
  PROVE  ControlInv'
<1>1. pc' = "done" BY DEF Finish
<1>2. ResultSound'
  BY NodeFinite DEF Finish, ResultSound, HasConverged
<1>3. QED BY <1>1, <1>2 DEF ControlInv, InRound

\* The control part: no panic, a round only while there is a difference, and
\* a true verdict.
LEMMA ControlStep ==
  ASSUME IInv, [Next]_vars
  PROVE  ControlInv'
<1>0. /\ TypeOK /\ ControlInv /\ current_round \in Nat /\ config.round_cap \in Nat
  BY ConfigType DEF IInv, TypeOK
<1>1. CASE Start
  <2>1. /\ pc = "start" /\ stats' = stats /\ current_round' = current_round
        /\ config' = config /\ (HasConverged(sets)' <=> HasConverged(sets))
        /\ current_round = 0 /\ \A v \in Node : phase[v] # "Converged"
    BY <1>0, <1>1 DEF Start, ControlInv, HasConverged
  <2>2. CASE HasConverged(sets)
    <3>1. Finish(TRUE, phase, stats', current_round')
      BY <1>1, <2>1, <2>2 DEF Start
    <3>2. QED BY <1>0, <2>1, <2>2, <3>1, FinishControl
  <2>3. CASE ~HasConverged(sets)
    <3>1. pc' = "begin" /\ phase' = phase BY <1>1, <2>3 DEF Start
    <3>2. QED BY <1>0, <2>1, <2>3, <3>1 DEF ControlInv, InRound, ResultSound
  <2>4. QED BY <2>2, <2>3
<1>2. CASE BeginRound
  <2>1. /\ pc = "begin" /\ stats' = stats /\ config' = config
        /\ (HasConverged(sets)' <=> HasConverged(sets)) /\ ~HasConverged(sets)
        /\ current_round <= config.round_cap
        /\ \A v \in Node : phase[v] # "Converged"
    BY <1>0, <1>2 DEF BeginRound, ControlInv, HasConverged
  <2>2. CASE current_round >= config.round_cap
    <3>1. /\ Finish(FALSE, phase, stats', current_round')
          /\ current_round' = current_round
      BY <1>2, <2>1, <2>2 DEF BeginRound
    <3>2. current_round' = config.round_cap BY <1>0, <2>1, <2>2, <3>1
    <3>3. QED BY <1>0, <2>1, <3>1, <3>2, FinishControl
  <2>3. CASE ~(current_round >= config.round_cap)
    <3>1. /\ pc' = "send" /\ current_round' = current_round + 1
          /\ \A v \in Node : phase'[v] = "Active"
      BY <1>2, <2>3 DEF BeginRound
    <3>2. QED BY <1>0, <2>1, <2>3, <3>1 DEF ControlInv, InRound, ResultSound
  <2>4. QED BY <2>2, <2>3
<1>3. ASSUME \/ Send \/ Drain \/ Recv \/ Bill
      PROVE  ControlInv'
  <2>1. /\ pc \in {"send", "drain", "recv", "bill"}
        /\ pc' \in {"send", "drain", "recv", "bill", "apply", "hung", "panic"}
        /\ UNCHANGED <<config, target_union, sets, phase, current_round>>
    BY <1>3 DEF Send, Drain, Recv, Bill
  <2>2. pc' # "panic"
    <3>1. CASE Send BY <3>1, SendInv DEF IInv
    <3>2. CASE Drain \/ Recv \/ Bill BY <3>2 DEF Drain, Recv, Bill
    <3>3. QED BY <1>3, <3>1, <3>2
  <2>3. HasConverged(sets)' <=> HasConverged(sets) BY <2>1 DEF HasConverged
  <2>4. QED BY <1>0, <2>1, <2>2, <2>3 DEF ControlInv, InRound, ResultSound
<1>4. CASE Apply
  <2> DEFINE next == [v \in Node |-> results[v].next_set]
  <2>1. /\ pc = "apply" /\ sets' = next /\ target_union' = target_union
        /\ stats' = [v \in Node |-> NewStats(v)]
        /\ current_round' = current_round /\ config' = config
        /\ \A v \in Node : phase[v] # "Converged"
        /\ current_round <= config.round_cap /\ current_round >= 1
    BY <1>0, <1>4 DEF Apply, Conclude, ControlInv, InRound
  <2>2. HasConverged(sets)' <=> HasConverged(next) BY <2>1 DEF HasConverged
  <2>3. CASE HasConverged(next)
    <3>1. Finish(TRUE, phase, stats', current_round')
      BY <1>4, <2>1, <2>3 DEF Apply, Conclude
    <3>2. QED BY <1>0, <2>1, <2>2, <2>3, <3>1, FinishControl
  <2>4. CASE ~HasConverged(next) /\ current_round >= config.round_cap
    <3>1. Finish(FALSE, phase, stats', current_round')
      BY <1>4, <2>1, <2>4 DEF Apply, Conclude
    <3>2. current_round' = config.round_cap BY <1>0, <2>1, <2>4
    <3>3. QED BY <1>0, <2>1, <2>2, <2>4, <3>1, <3>2, FinishControl
  <2>5. CASE ~HasConverged(next) /\ ~(current_round >= config.round_cap)
    <3>1. pc' = "begin" /\ phase' = phase BY <1>4, <2>5 DEF Apply, Conclude
    <3>2. QED
      BY <1>0, <2>1, <2>2, <2>5, <3>1 DEF ControlInv, InRound, ResultSound
  <2>6. QED BY <2>3, <2>4, <2>5
<1>5. CASE Halted \/ UNCHANGED vars
  <2>1. UNCHANGED vars BY <1>5 DEF Halted
  <2>2. QED BY <1>0, <2>1
        DEF vars, engineVars, ControlInv, InRound, ResultSound, HasConverged
<1>6. QED BY <1>1, <1>2, <1>3, <1>4, <1>5 DEF Next

\* The invariant holds of a new simulation.
LEMMA InitInv ==
  ASSUME Init, TypeOK
  PROVE  IInv
<1>1. SetsInv BY DEF Init, SetsInv, NothingLostOrInvented
<1>2. MailInv BY NoMail DEF Init, NetworkInit, MailInv
<1>3. CarryInv BY NoCarryOK DEF Init, CarryInv, NoRecvResult
<1>4. ResultsInv BY DEF Init, ResultsInv
<1>5. ControlInv
  <2>1. config.round_cap \in Nat BY ConfigType
  <2>2. QED BY <2>1 DEF Init, ControlInv, InRound, ResultSound
<1>6. QED BY <1>1, <1>2, <1>3, <1>4, <1>5 DEF IInv

\* Every step keeps the parts of the invariant about sets, mail and carries.
LEMMA StepInv ==
  ASSUME IInv, [Next]_vars
  PROVE  (SetsInv /\ MailInv /\ CarryInv /\ ResultsInv)'
<1>0. TypeOK /\ SetsInv /\ MailInv /\ CarryInv /\ ResultsInv BY DEF IInv
<1>1. CASE Start
  <2>1. /\ Quiet /\ inboxes' = inboxes /\ drained' = drained
        /\ carry_states' = carry_states /\ results' = results
        /\ pc' \in {"done", "begin"}
    BY <1>1 DEF Start, Finish, Quiet, netVars
  <2>2. ResultsInv' BY <2>1 DEF ResultsInv
  <2>3. QED BY <1>0, <2>1, <2>2, QuietSets, QuietMail, QuietCarry
<1>2. CASE BeginRound
  <2>1. /\ Quiet /\ drained' = drained
        /\ carry_states' = carry_states /\ results' = results
        /\ pc' \in {"done", "send"}
        /\ inboxes' = inboxes \/ inboxes' = [w \in Node |-> <<>>]
    BY <1>2 DEF BeginRound, Finish, Reset, Quiet, netVars
  <2>2. ResultsInv' BY <2>1 DEF ResultsInv
  <2>3. \A v \in Node : inboxes'[v] = inboxes[v] \/ inboxes'[v] \in Seq(Mail(v))
    BY <2>1, NoMail
  <2>4. QED BY <1>0, <2>1, <2>2, <2>3, QuietSets, QuietMail, QuietCarry
<1>3. CASE Send
  <2>1. /\ pc' \in {"send", "drain", "panic"}
        /\ pc' = "drain" => cur' = 0
    BY <1>3 DEF Send
  <2>2. ResultsInv' BY <2>1 DEF ResultsInv
  <2>3. QED BY <1>0, <1>3, <2>2, SendInv
<1>4. CASE Drain
  <2>1. /\ Quiet /\ drained' = inboxes /\ inboxes' = [w \in Node |-> <<>>]
        /\ carry_states' = carry_states /\ results' = results
        /\ pc' = "recv" /\ cur' = cur
    BY <1>4 DEF Drain, DrainAll, Quiet
  <2>2. \A v \in Node : inboxes'[v] \in Seq(Mail(v)) BY <2>1, NoMail
  <2>3. \A v \in Node : drained'[v] \in Seq(Mail(v)) BY <1>0, <2>1 DEF MailInv
  <2>4. ResultsInv'
    <3>1. cur = 0 BY <1>0, <1>4 DEF Drain, ResultsInv
    <3>2. \A v \in Node : ~(v < 0) BY DEF Node
    <3>3. QED BY <2>1, <3>1, <3>2 DEF ResultsInv
  <2>5. QED BY <1>0, <2>1, <2>2, <2>3, <2>4, QuietSets, QuietMail, QuietCarry
<1>5. CASE Recv BY <1>0, <1>5, RecvInv
<1>6. CASE Bill
  <2>1. /\ Quiet /\ inboxes' = inboxes /\ pc = "bill" /\ pc' \in {"bill", "apply"}
        /\ carry_states' = carry_states /\ results' = results
    BY <1>6 DEF Bill, BillMetadata, Quiet, netVars
  <2>2. ResultsInv' BY <1>0, <2>1, QuietFrame DEF ResultsInv
  <2>3. \A v \in Node : drained'[v] = drained[v] \/ drained'[v] \in Seq(Mail(v))
    <3>1. CASE drained[cur] # <<>>
      <4>1. cur \in Node /\ drained[cur] \in Seq(Mail(cur))
        BY <1>0 DEF TypeOK, MailInv
      <4>2. Tail(drained[cur]) \in Seq(Mail(cur))
        BY <3>1, <4>1, HeadTailProperties
      <4>3. drained' = [drained EXCEPT ![cur] = Tail(@)] BY <1>6, <3>1 DEF Bill
      <4>4. QED BY <1>0, <4>1, <4>2, <4>3 DEF TypeOK
    <3>2. CASE drained[cur] = <<>> BY <1>6, <3>2 DEF Bill
    <3>3. QED BY <3>1, <3>2
  <2>4. QED BY <1>0, <2>1, <2>2, <2>3, QuietSets, QuietMail, QuietCarry
<1>7. CASE Apply BY <1>0, <1>7, ApplyInv
<1>8. CASE Halted \/ UNCHANGED vars
  <2>1. /\ Quiet /\ inboxes' = inboxes /\ drained' = drained
        /\ carry_states' = carry_states /\ results' = results
        /\ pc' = pc /\ cur' = cur
    BY <1>8 DEF Halted, Quiet, vars, netVars, engineVars
  <2>2. ResultsInv' BY <1>0, <2>1, QuietFrame DEF ResultsInv
  <2>3. QED BY <1>0, <2>1, <2>2, QuietSets, QuietMail, QuietCarry
<1>9. QED BY <1>1, <1>2, <1>3, <1>4, <1>5, <1>6, <1>7, <1>8 DEF Next

\* The inductive invariant holds in every run.
THEOREM InvariantHolds == Safety => []IInv
<1>1. Init /\ TypeOK => IInv BY InitInv
<1>2. IInv /\ TypeOK' /\ [Next]_vars => IInv'
  <2> SUFFICES ASSUME IInv, TypeOK', [Next]_vars PROVE IInv' OBVIOUS
  <2>1. ControlInv' BY ControlStep
  <2>2. (SetsInv /\ MailInv /\ CarryInv /\ ResultsInv)' BY StepInv
  <2>3. QED BY <2>1, <2>2 DEF IInv
<1>3. QED BY <1>1, <1>2, TypeCorrect, PTL DEF Safety

\* Elements are neither lost nor made up.
THEOREM SetsHold == Safety => []NothingLostOrInvented
<1>1. IInv => NothingLostOrInvented BY DEF IInv, SetsInv
<1>2. QED BY <1>1, InvariantHolds, PTL

\* Network::send is never asked to reach beyond the neighbours.
THEOREM NeverPanics == Safety => []NoPanic
<1>1. IInv => NoPanic BY DEF IInv, ControlInv, NoPanic
<1>2. QED BY <1>1, InvariantHolds, PTL

\* The SimulationResult is true of the replicas it is returned with.
THEOREM ResultHolds == Safety => []ResultSound
<1>1. IInv => ResultSound BY DEF IInv, ControlInv
<1>2. QED BY <1>1, InvariantHolds, PTL

-----------------------------------------------------------------------------
(* The stopping threshold                                                   *)

\* A quotient rounded up is above every number that the dividend exceeds by a
\* multiple of the divisor.
LEMMA CeilDivAbove ==
  ASSUME NEW a \in Nat, NEW b \in Nat, b > 0, NEW k \in Nat, a > k * b
  PROVE  CeilDiv(a, b) > k
<1>1. a + b - 1 \in Nat /\ a + b - 1 >= (k + 1) * b OBVIOUS
<1>2. (a + b - 1) \div b >= k + 1 BY <1>1
<1>3. QED BY <1>2 DEF CeilDiv

\* A receiver that holds 2 * OverheadBits - 1 elements has a threshold above
\* zero, whatever the size of the sender.
LEMMA ThresholdPositive ==
  ASSUME NEW local \in Nat, NEW sender \in Nat, local >= 2 * OverheadBits - 1
  PROVE  Threshold(local, sender) # 0
<1> DEFINE n == AtLeastOne(sender)
           m == SliceBits(sender)
           o == OverheadBits
<1>1. o \in Nat /\ o > 0 BY FiltersAssumption
<1>2. n \in Nat /\ n > 0 /\ n >= sender BY DEF AtLeastOne
<1>3. CeilDiv(sender, 2) \in Nat /\ 2 * CeilDiv(sender, 2) >= sender
  BY DEF CeilDiv
<1>4. m \in Nat /\ m >= o /\ 2 * m >= sender BY <1>1, <1>3 DEF SliceBits
<1>5. 2 * m >= n /\ m > 0 BY <1>1, <1>4 DEF AtLeastOne
<1> HIDE DEF n, m, o
<1>6. local * m > (o - 1) * n
  <2>1. local * m >= (2 * o - 1) * m BY <1>1, <1>4 DEF o
  <2>2. (2 * o - 1) * m = (o - 1) * (2 * m) + m BY <1>1, <1>4
  <2>3. (o - 1) * (2 * m) >= (o - 1) * n BY <1>1, <1>2, <1>4, <1>5
  <2>4. local * m \in Nat /\ (o - 1) * n \in Nat /\ (o - 1) * (2 * m) \in Nat
    BY <1>1, <1>2, <1>4
  <2>5. QED BY <1>4, <1>5, <2>1, <2>2, <2>3, <2>4
<1>7. CeilDiv(local * m, n) > o - 1
  <2>1. local * m \in Nat /\ o - 1 \in Nat BY <1>1, <1>4
  <2>2. QED BY <1>2, <1>6, <2>1, CeilDivAbove
<1>8. CeilDiv(local * m, n) \in Nat
  <2>1. local * m \in Nat BY <1>4
  <2>2. QED BY <1>2, <2>1, CeilDivType
<1>9. CeilDiv(local * m, n) \div o # 0
  <2>1. CeilDiv(local * m, n) >= o BY <1>1, <1>7, <1>8
  <2>2. QED BY <1>1, <1>8, <2>1
<1>10. QED BY <1>9 DEF Threshold, n, m, o

\* Sets only grow, so they stay as large as they were.
LEMMA SetsStayLarge ==
  ASSUME TypeOK, SetsInv, NEW v \in Node
  PROVE  Cardinality(sets[v]) \in Nat /\ Cardinality(sets[v]) >= config.set_size
<1>1. /\ initial[v] \subseteq sets[v]
      /\ Cardinality(initial[v]) = config.set_size
  BY DEF SetsInv, NothingLostOrInvented
<1>2. sets[v] \in SUBSET Element BY DEF TypeOK
<1>3. IsFiniteSet(sets[v]) /\ Cardinality(sets[v]) \in Nat BY <1>2, ElementsFinite
<1>4. Cardinality(initial[v]) <= Cardinality(sets[v]) BY <1>1, <1>3, FS_Subset
<1>5. Cardinality(initial[v]) \in Nat BY <1>1, <1>2, ElementsFinite
<1>6. QED BY <1>1, <1>3, <1>4, <1>5

\* With sets that large no run is ever caught in extend_until.
THEOREM LargeSetsReturn == Safety => []NoHangFromLargeSets
<1>1. Init => NoHangFromLargeSets BY DEF Init, NoHangFromLargeSets
<1>2. IInv /\ NoHangFromLargeSets /\ [Next]_vars => NoHangFromLargeSets'
  <2> SUFFICES ASSUME IInv, [Next]_vars, pc # "hung", pc' = "hung",
                      config.set_size >= 2 * OverheadBits - 1
               PROVE  FALSE
    <3>1. [Next]_vars => config' = config
      BY DEF Next, Start, BeginRound, Send, Drain, Recv, Bill, Apply, Conclude, Halted,
             vars, engineVars
    <3>2. QED BY <3>1 DEF NoHangFromLargeSets
  <2>0. TypeOK /\ SetsInv /\ MailInv BY DEF IInv
  <2>1. Recv
    BY DEF Next, Start, BeginRound, Send, Drain, Bill, Apply, Conclude, Halted, Finish,
           vars, engineVars
  <2>2. PICK i \in DOMAIN drained[cur] :
               ExtendsForever(sets[cur], drained[cur][i].msg)
    BY <2>1 DEF Recv
  <2>3. cur \in Node BY <2>0 DEF TypeOK
  <2>4. Cardinality(drained[cur][i].msg.els) \in Nat
    <3>1. drained[cur] \in Seq(Envelope) BY <2>0, <2>3 DEF TypeOK
    <3>2. drained[cur][i] \in Envelope BY <2>2, <3>1
    <3>3. drained[cur][i].msg.els \in SUBSET Element BY <3>2 DEF Envelope, Message
    <3>4. QED BY <3>3, ElementsFinite
  <2>5. /\ Cardinality(sets[cur]) \in Nat
        /\ Cardinality(sets[cur]) >= 2 * OverheadBits - 1
    <3>1. config.set_size \in Nat /\ OverheadBits \in Nat
      BY <2>0, EngineAssumption, FiltersAssumption DEF TypeOK
    <3>2. QED BY <2>0, <2>3, <3>1, SetsStayLarge
  <2>6. QED BY <2>2, <2>4, <2>5, ThresholdPositive DEF ExtendsForever
<1>3. QED BY <1>1, <1>2, InvariantHolds, PTL DEF Safety

-----------------------------------------------------------------------------
(* Refinement                                                               *)

\* has_converged compares with a union computed once, at the start; it can
\* because agreeing and holding that union are the same thing.
LEMMA AgreeIsConverged ==
  ASSUME SetsInv
  PROVE  Rounds!Agree(sets) <=> HasConverged(sets)
<1>1. ASSUME \A v, w \in Node : sets[v] = sets[w], NEW v \in Node
      PROVE  sets[v] = target_union
  <2>1. \A w \in Node : initial[w] \subseteq sets[v]
    BY <1>1 DEF SetsInv, NothingLostOrInvented
  <2>2. QED BY <2>1 DEF SetsInv, NothingLostOrInvented
<1>2. QED BY <1>1 DEF Rounds!Agree, HasConverged

\* A new simulation is one of the abstract initial states.
LEMMA RefineInit == ASSUME Init, TypeOK PROVE Rounds!Init
<1>1. \A v \in Node : Nbrs(v) \in SUBSET Node BY ConfigType, NbrsType
<1>2. config.round_cap \in Nat BY ConfigType
<1>3. pc = "start" /\ current_round = 0 BY DEF Init
<1>4. QED BY <1>1, <1>2, <1>3 DEF Rounds!Init, TypeOK

\* Steps inside a round are invisible.
LEMMA RefineStutter ==
  ASSUME UNCHANGED <<config, sets>>, pc # "done", pc' # "done",
         \/ current_round' = current_round /\ (pc' \in {"start", "begin"} <=> pc \in {"start", "begin"})
         \/ /\ pc = "begin" /\ pc' = "send"
            /\ current_round' = current_round + 1 /\ current_round \in Nat,
         TypeOK, TypeOK'
  PROVE  UNCHANGED Rounds!vars
<1>1. [v \in Node |-> Nbrs(v)]' = [v \in Node |-> Nbrs(v)] BY DEF Nbrs
<1>2. /\ pc \in {"start", "begin", "send", "drain", "recv", "bill", "apply", "panic", "hung"}
      /\ pc' \in {"start", "begin", "send", "drain", "recv", "bill", "apply", "panic", "hung"}
  BY DEF TypeOK
<1>3. QED BY <1>1, <1>2 DEF Rounds!vars

\* A verdict without a round.
LEMMA RefineDecline ==
  ASSUME SetsInv, UNCHANGED <<config, sets, current_round>>,
         pc \in {"start", "begin"}, pc' = "done",
         \/ HasConverged(sets) /\ result'.converged = TRUE
         \/ /\ ~HasConverged(sets) /\ result'.converged = FALSE
            /\ current_round >= config.round_cap
  PROVE  Rounds!Decline
<1>1. [v \in Node |-> Nbrs(v)]' = [v \in Node |-> Nbrs(v)] BY DEF Nbrs
<1>2. Rounds!Agree(sets) <=> HasConverged(sets) BY AgreeIsConverged
<1>3. QED BY <1>1, <1>2 DEF Rounds!Decline, Rounds!Judgement

\* Applying the results is the abstract round.
LEMMA RefineRound ==
  ASSUME IInv, TypeOK', SetsInv', Apply
  PROVE  Rounds!Round
<1>1. /\ pc = "apply" /\ current_round' = current_round /\ config' = config
      /\ \A v \in Node : sets'[v] = results[v].next_set
  BY DEF Apply, Conclude
<1>2. /\ TypeOK /\ SetsInv /\ \A v \in Node : ResultOK(v)
      /\ ~HasConverged(sets) /\ current_round <= config.round_cap
  BY <1>1 DEF IInv, ResultsInv, ControlInv, InRound
<1>3. ~Rounds!Agree(sets) BY <1>2, AgreeIsConverged
<1>4. Rounds!Agree(sets') <=> HasConverged(sets)'
  <2>1. ASSUME \A v, w \in Node : sets'[v] = sets'[w], NEW v \in Node
        PROVE  sets'[v] = target_union'
    <3>1. \A w \in Node : initial'[w] \subseteq sets'[v]
      BY <2>1 DEF SetsInv, NothingLostOrInvented
    <3>2. QED BY <3>1 DEF SetsInv, NothingLostOrInvented
  <2>2. QED BY <2>1 DEF Rounds!Agree, HasConverged
<1>5. current_round \in Nat /\ config.round_cap \in Nat
  BY <1>2, ConfigType DEF TypeOK
<1>6. [v \in Node |-> Nbrs(v)]' = [v \in Node |-> Nbrs(v)] BY <1>1 DEF Nbrs
<1>7. \A v \in Node : /\ sets[v] \subseteq sets'[v]
                     /\ sets'[v] \subseteq Rounds!Reachable(v)
  BY <1>1, <1>2 DEF ResultOK, Rounds!Reachable
<1>8. \/ HasConverged(sets)' /\ pc' = "done" /\ result'.converged = TRUE
      \/ /\ ~HasConverged(sets)' /\ pc' = "done" /\ result'.converged = FALSE
         /\ current_round >= config.round_cap
      \/ /\ ~HasConverged(sets)' /\ pc' = "begin"
         /\ ~(current_round >= config.round_cap)
  BY <1>1 DEF Apply, Conclude, Finish, HasConverged
<1>9. QED BY <1>1, <1>2, <1>3, <1>4, <1>5, <1>6, <1>7, <1>8
          DEF Rounds!Round, Rounds!Judgement, TypeOK

\* Every step is an abstract round, an abstract refusal, or invisible.
LEMMA RefineStep ==
  ASSUME IInv, IInv', [Next]_vars
  PROVE  [Rounds!Next]_(Rounds!vars)
<1>0. TypeOK /\ TypeOK' /\ SetsInv /\ SetsInv' /\ ControlInv BY DEF IInv
<1>1. CASE Start
  <2>1. pc = "start" /\ UNCHANGED <<config, sets, current_round>> BY <1>1 DEF Start
  <2>2. CASE HasConverged(sets)
    <3>1. pc' = "done" /\ result'.converged = TRUE BY <1>1, <2>2 DEF Start, Finish
    <3>2. QED BY <1>0, <2>1, <2>2, <3>1, RefineDecline DEF Rounds!Next
  <2>3. CASE ~HasConverged(sets)
    <3>1. pc' = "begin" BY <1>1, <2>3 DEF Start
    <3>2. QED BY <1>0, <2>1, <3>1, RefineStutter
  <2>4. QED BY <2>2, <2>3
<1>2. CASE BeginRound
  <2>1. pc = "begin" /\ UNCHANGED <<config, sets>> /\ ~HasConverged(sets)
    BY <1>0, <1>2 DEF BeginRound, ControlInv
  <2>2. CASE current_round >= config.round_cap
    <3>1. pc' = "done" /\ result'.converged = FALSE /\ current_round' = current_round
      BY <1>2, <2>2 DEF BeginRound, Finish
    <3>2. QED BY <1>0, <2>1, <2>2, <3>1, RefineDecline DEF Rounds!Next
  <2>3. CASE ~(current_round >= config.round_cap)
    <3>1. pc' = "send" /\ current_round' = current_round + 1
      BY <1>2, <2>3 DEF BeginRound
    <3>2. QED BY <1>0, <2>1, <3>1, RefineStutter DEF TypeOK
  <2>4. QED BY <2>2, <2>3
<1>3. CASE Send \/ Drain \/ Recv \/ Bill
  <2>1. /\ pc \in {"send", "drain", "recv", "bill"}
        /\ pc' \in {"send", "drain", "recv", "bill", "apply", "hung", "panic"}
        /\ UNCHANGED <<config, sets, current_round>>
    BY <1>3 DEF Send, Drain, Recv, Bill
  <2>2. QED BY <1>0, <2>1, RefineStutter
<1>4. CASE Apply BY <1>0, <1>4, RefineRound DEF Rounds!Next
<1>5. CASE Halted \/ UNCHANGED vars
  <2>1. UNCHANGED <<config, sets, current_round, pc, result>>
    BY <1>5 DEF Halted, vars, engineVars
  <2>2. QED BY <2>1 DEF Rounds!vars, Nbrs
<1>6. QED BY <1>1, <1>2, <1>3, <1>4, <1>5 DEF Next

\* The simulation is a sequence of synchronous rounds with a true verdict.
THEOREM Refinement == Safety => PlaysRounds
<1>1. Init /\ TypeOK => Rounds!Init BY RefineInit
<1>2. IInv /\ IInv' /\ [Next]_vars => [Rounds!Next]_(Rounds!vars) BY RefineStep
<1>3. QED BY <1>1, <1>2, TypeCorrect, InvariantHolds, PTL
          DEF Safety, PlaysRounds, Rounds!Spec

=============================================================================
