--------------------------- MODULE WorkloadProofs ---------------------------
(***************************************************************************)
(* The generator returns sets of the configured size, any two of them as   *)
(* similar as configured, for every number of replicas and clusters, every *)
(* universe, similarity and set size, and whatever the digests.            *)
(***************************************************************************)
EXTENDS Workload, FiniteSetTheorems, TLAPS

\* What is common to two replicas is no more than a replica holds.
THEOREM CommonSizeBounded ==
  ASSUME NEW j \in 0 .. Den, NEW s \in Nat
  PROVE  CommonSize(j, s) \in Nat /\ CommonSize(j, s) <= s
<1> DEFINE d == Den + j
           a == 4 * s * j + d
<1>1. Den \in Nat /\ Den > 0 /\ j \in Nat /\ j <= Den BY WorkloadAssumption
<1>2. d \in Nat /\ d > 0 /\ 2 * j <= d BY <1>1
<1>3. s * (2 * j) <= s * d
  <2>1. s \in Nat /\ 2 * j \in Nat BY <1>1
  <2>2. QED BY <1>2, <2>1
<1>4. a \in Nat /\ a < (s + 1) * (2 * d)
  <2>1. 4 * s * j = 2 * (s * (2 * j)) /\ 4 * s * j \in Nat BY <1>1
  <2>2. (s + 1) * (2 * d) = 2 * (s * d) + 2 * d /\ s * d \in Nat BY <1>2
  <2>3. QED BY <1>2, <1>3, <2>1, <2>2
<1> HIDE DEF a, d
<1>5. a \div (2 * d) \in Nat /\ a \div (2 * d) <= s
  <2>1. 2 * d \in Nat /\ 2 * d > 0 BY <1>2
  <2>2. QED BY <1>4, <2>1
<1>6. QED BY <1>5 DEF CommonSize, a, d

\* The three parts of a replica's set add up to set_size.
LEMMA SizesAdd ==
  ASSUME config \in UniformConfig \cup ClusteredConfig
  PROVE  /\ GlobalSize \in Nat /\ SharedSize \in Nat /\ UniqueSize \in Nat
         /\ GlobalSize + SharedSize + UniqueSize = config.set_size
         /\ config.set_size \in Nat /\ config.set_size <= UniverseSize
         /\ config.pattern = "Uniform" => SharedSize = 0
<1>1. /\ config.set_size \in Nat /\ config.set_size <= UniverseSize
  <2>1. config.set_size \in SetSizes BY DEF UniformConfig, ClusteredConfig
  <2>2. config.set_size \in 1 .. UniverseSize BY <2>1, WorkloadAssumption
  <2>3. UniverseSize \in Nat BY WorkloadAssumption
  <2>4. QED BY <2>2, <2>3
<1>2. GlobalSize \in Nat /\ GlobalSize <= config.set_size
  <2>1. CASE config.pattern = "Uniform"
    <3>1. config.jaccard_similarity \in 0 .. Den
      BY <2>1 DEF UniformConfig, ClusteredConfig
    <3>2. QED BY <1>1, <2>1, <3>1, CommonSizeBounded DEF GlobalSize
  <2>2. CASE config.pattern # "Uniform"
    <3>1. config.jaccard_inter \in 0 .. Den
      BY <2>2 DEF UniformConfig, ClusteredConfig
    <3>2. QED BY <1>1, <2>2, <3>1, CommonSizeBounded DEF GlobalSize
  <2>3. QED BY <2>1, <2>2
<1>3. /\ SharedSize \in Nat /\ GlobalSize + SharedSize <= config.set_size
      /\ config.pattern = "Uniform" => SharedSize = 0
  <2>1. CASE config.pattern = "Uniform" BY <1>1, <1>2, <2>1 DEF SharedSize
  <2>2. CASE config.pattern # "Uniform"
    <3>1. config.jaccard_intra \in 0 .. Den
      BY <2>2 DEF UniformConfig, ClusteredConfig
    <3>2. /\ CommonSize(config.jaccard_intra, config.set_size) \in Nat
          /\ CommonSize(config.jaccard_intra, config.set_size) <= config.set_size
      BY <1>1, <3>1, CommonSizeBounded
    <3>3. QED BY <1>1, <1>2, <2>2, <3>2 DEF SharedSize, SaturatingSub
  <2>3. QED BY <2>1, <2>2
<1>4. /\ UniqueSize \in Nat
      /\ GlobalSize + SharedSize + UniqueSize = config.set_size
  BY <1>1, <1>2, <1>3 DEF UniqueSize, SaturatingSub
<1>5. QED BY <1>1, <1>2, <1>3, <1>4

\* Sets of digests are finite.
LEMMA DigestsFinite ==
  ASSUME NEW S \in SUBSET Digest
  PROVE  IsFiniteSet(S) /\ Cardinality(S) \in Nat
BY WorkloadAssumption, FS_Subset, FS_CardinalityType

\* A set and one that keeps clear of it are together as large as they are
\* apart.
LEMMA DisjointSizes ==
  ASSUME NEW S \in SUBSET Digest, NEW T \in SUBSET Digest, T \cap S = {}
  PROVE  Cardinality(S \cup T) = Cardinality(S) + Cardinality(T)
<1>1. /\ IsFiniteSet(S) /\ IsFiniteSet(T)
      /\ Cardinality(S) \in Nat /\ Cardinality(T) \in Nat
  BY DigestsFinite
<1>2. S \cap T = {} OBVIOUS
<1>3. Cardinality(S \cap T) = 0 BY <1>2, FS_EmptySet
<1>4. Cardinality(S \cup T)
        = Cardinality(S) + Cardinality(T) - Cardinality(S \cap T)
  BY <1>1, FS_Union
<1>5. QED BY <1>1, <1>3, <1>4

\* Replicas and clusters are numbered from 0, and a replica's cluster exists.
LEMMA Numbering ==
  ASSUME config \in UniformConfig \cup ClusteredConfig
  PROVE  /\ 0 \in Clusters /\ 0 \in Replica /\ Clusters \subseteq Replica
         /\ \A r \in Replica : ClusterOf(r) \in Clusters
<1>0. NumReplicas \in Nat /\ NumReplicas > 0 BY WorkloadAssumption
<1>1. CASE config.pattern = "Uniform" BY <1>0, <1>1 DEF Clusters, Replica, ClusterOf
<1>2. CASE config.pattern # "Uniform"
  <2>1. config.cluster_count \in 1 .. NumReplicas
    BY <1>2 DEF UniformConfig, ClusteredConfig
  <2>2. config.cluster_count \in Nat /\ config.cluster_count > 0
        /\ config.cluster_count <= NumReplicas
    BY <1>0, <2>1
  <2>3. \A r \in Replica : r % config.cluster_count \in 0 .. config.cluster_count - 1
    BY <1>0, <2>2 DEF Replica
  <2>4. QED BY <1>0, <1>2, <2>2, <2>3 DEF Clusters, Replica, ClusterOf
<1>3. QED BY <1>1, <1>2

\* A set that a sampling keeps clear of leaves room for the sample in what the
\* replica is to hold.
LEMMA RoomLeft ==
  ASSUME TypeOK, SizesInv
  PROVE  /\ Exclude \in SUBSET Digest
         /\ Count \in Nat
         /\ Cardinality(Exclude) \in Nat
         /\ Cardinality(Exclude) + Count <= config.set_size
<1>0. /\ GlobalSize \in Nat /\ SharedSize \in Nat /\ UniqueSize \in Nat
      /\ GlobalSize + SharedSize + UniqueSize = config.set_size
  BY SizesAdd DEF TypeOK
<1>1. CASE stage = "common"
  <2>1. Exclude = {} /\ Count = GlobalSize BY <1>1 DEF Exclude, Count
  <2>2. QED BY <1>0, <2>1, FS_EmptySet
<1>2. CASE stage = "cluster"
  <2>1. Exclude = global_common /\ Count = SharedSize BY <1>2 DEF Exclude, Count
  <2>2. Cardinality(global_common) = GlobalSize BY <1>2 DEF SizesInv
  <2>3. global_common \in SUBSET Digest BY DEF TypeOK
  <2>4. QED BY <1>0, <2>1, <2>2, <2>3
<1>3. CASE stage = "replica"
  <2>1. Exclude = bases[ClusterOf(at)] /\ Count = UniqueSize
    BY <1>3 DEF Exclude, Count
  <2>2. ClusterOf(at) \in Clusters BY Numbering DEF TypeOK
  <2>3. Cardinality(bases[ClusterOf(at)]) = GlobalSize + SharedSize
    BY <1>3, <2>2 DEF SizesInv
  <2>4. bases[ClusterOf(at)] \in SUBSET Digest BY <2>2 DEF TypeOK
  <2>5. QED BY <1>0, <2>1, <2>3, <2>4
<1>4. QED BY <1>1, <1>2, <1>3 DEF TypeOK

\* A finished sampling adds exactly what was asked for.
LEMMA SampleAdds ==
  ASSUME TypeOK, SizesInv, Sampled
  PROVE  /\ Cardinality(sample) = Count
         /\ Cardinality(Exclude \cup sample) = Cardinality(Exclude) + Count
<1>1. /\ sample \in SUBSET Digest /\ sample \cap Exclude = {}
      /\ Cardinality(sample) <= Count /\ Cardinality(sample) >= Count
  BY DEF TypeOK, SizesInv, Sampled
<1>2. Exclude \in SUBSET Digest /\ Count \in Nat BY RoomLeft
<1>3. Cardinality(sample) \in Nat BY <1>1, DigestsFinite
<1>4. Cardinality(sample) = Count BY <1>1, <1>2, <1>3
<1>5. QED BY <1>1, <1>2, <1>4, DisjointSizes

\* The invariant holds at the start.
LEMMA InitInv == ASSUME Init PROVE SizedInv
<1>1. 0 \in Replica BY Numbering DEF Init
<1>2. TypeOK BY <1>1 DEF Init, TypeOK
<1>3. SizesInv BY DEF Init, SizesInv
<1>4. QED BY <1>2, <1>3 DEF Init, SizedInv, NeverExhausted

\* The assertion passes and the loop begins with nothing.
LEMMA AskInv == ASSUME SizedInv, Ask PROVE SizedInv'
<1>0. TypeOK /\ SizesInv BY DEF SizedInv
<1>1. /\ UNCHANGED <<config, digest, stage, at, global_common, bases, replica_sets>>
      /\ pc = "ask" /\ sample' = {}
  BY DEF Ask
<1>2. Count <= SaturatingSub(UniverseSize, Cardinality(Exclude))
  <2>1. /\ Count \in Nat /\ Cardinality(Exclude) \in Nat
        /\ Cardinality(Exclude) + Count <= config.set_size
    BY <1>0, RoomLeft
  <2>2. config.set_size \in Nat /\ config.set_size <= UniverseSize
    BY <1>0, SizesAdd DEF TypeOK
  <2>3. UniverseSize \in Nat BY WorkloadAssumption
  <2>4. QED BY <2>1, <2>2, <2>3 DEF SaturatingSub
<1>3. pc' = "draw" BY <1>2 DEF Ask
<1>4. /\ Count' = Count /\ Clusters' = Clusters /\ GlobalSize' = GlobalSize
      /\ SharedSize' = SharedSize
  BY <1>1 DEF Count, Clusters, GlobalSize, SharedSize, UniqueSize
<1>5. TypeOK' BY <1>0, <1>1, <1>3, <1>4 DEF TypeOK
<1>6. Cardinality(sample') <= Count'
  <2>1. Cardinality({}) = 0 BY FS_EmptySet
  <2>2. Count \in Nat BY <1>0, RoomLeft
  <2>3. QED BY <1>1, <1>4, <2>1, <2>2
<1>7. SizesInv' BY <1>0, <1>1, <1>3, <1>4, <1>6 DEF SizesInv
<1>8. QED BY <1>3, <1>5, <1>7 DEF SizedInv, NeverExhausted

\* A draw adds at most one element, and none that is excluded.
LEMMA DrawInv == ASSUME SizedInv, NEW i \in Index, Draw(i) PROVE SizedInv'
<1>0. TypeOK /\ SizesInv BY DEF SizedInv
<1>1. /\ UNCHANGED <<config, digest, stage, at, pc, global_common, bases, replica_sets>>
      /\ pc = "draw" /\ Cardinality(sample) < Count
      /\ sample' = IF digest[i] \in Exclude THEN sample ELSE sample \cup {digest[i]}
  BY DEF Draw
<1>2. digest[i] \in Digest /\ sample \in SUBSET Digest BY <1>0 DEF TypeOK
<1>3. /\ Count' = Count /\ Clusters' = Clusters /\ GlobalSize' = GlobalSize
      /\ SharedSize' = SharedSize /\ Exclude' = Exclude
  BY <1>1 DEF Count, Clusters, GlobalSize, SharedSize, UniqueSize, Exclude, ClusterOf
<1>4. TypeOK' BY <1>0, <1>1, <1>2, <1>3 DEF TypeOK
<1>5. sample' \cap Exclude = {} BY <1>0, <1>1 DEF SizesInv
<1>6. Cardinality(sample') <= Count
  <2>1. IsFiniteSet(sample) /\ Cardinality(sample) \in Nat BY <1>2, DigestsFinite
  <2>2. Count \in Nat BY <1>0, RoomLeft
  <2>3. Cardinality(sample \cup {digest[i]})
          = IF digest[i] \in sample THEN Cardinality(sample)
            ELSE Cardinality(sample) + 1
    BY <2>1, FS_AddElement
  <2>4. QED BY <1>1, <2>1, <2>2, <2>3
<1>7. SizesInv' BY <1>0, <1>1, <1>3, <1>5, <1>6 DEF SizesInv
<1>8. QED BY <1>1, <1>4, <1>7 DEF SizedInv, NeverExhausted

\* The common elements become the base of every cluster.
LEMMA KeepCommonInv == ASSUME SizedInv, KeepCommon PROVE SizedInv'
<1>0. TypeOK /\ SizesInv /\ stage = "common" /\ Sampled
  BY DEF SizedInv, KeepCommon
<1>1. /\ UNCHANGED <<config, digest, at, sample, replica_sets>>
      /\ global_common' = sample /\ pc' = "ask"
      /\ bases' = [k \in Clusters |-> sample]
      /\ stage' = IF config.pattern = "Uniform" THEN "replica" ELSE "cluster"
  BY DEF KeepCommon
<1>2. /\ Clusters' = Clusters /\ GlobalSize' = GlobalSize /\ SharedSize' = SharedSize
  BY <1>1 DEF Clusters, GlobalSize, SharedSize
<1>3. TypeOK' BY <1>0, <1>1, <1>2 DEF TypeOK
<1>4. Cardinality(sample) = GlobalSize BY <1>0, SampleAdds DEF Count
<1>5. /\ GlobalSize \in Nat
      /\ config.pattern = "Uniform" => SharedSize = 0
      /\ config.pattern \in {"Uniform", "Clustered"}
  BY <1>0, SizesAdd DEF TypeOK, UniformConfig, ClusteredConfig
<1>6. at = 0 /\ 0 \in Clusters /\ Clusters \subseteq Nat
  BY <1>0, Numbering DEF SizesInv, TypeOK, Replica
<1>7. SizesInv'
  <2>1. \A k \in Clusters : bases'[k] = sample BY <1>1
  <2>2. CASE config.pattern = "Uniform"
    <3>1. stage' = "replica" BY <1>1, <2>2
    <3>2. GlobalSize + SharedSize = GlobalSize BY <1>5, <2>2
    <3>3. at' = 0 /\ \A r \in Replica : ~(r < 0)
      <4>1. \A r \in Replica : r \in Int /\ r >= 0
        BY WorkloadAssumption DEF Replica
      <4>2. QED BY <1>1, <1>6, <4>1
    <3>4. QED BY <1>1, <1>2, <1>4, <2>1, <3>1, <3>2, <3>3 DEF SizesInv
  <2>3. CASE config.pattern = "Clustered"
    <3>1. stage' = "cluster" BY <1>1, <2>3
    <3>2. at' = 0 /\ \A k \in Clusters : ~(k < 0) BY <1>1, <1>6
    <3>3. QED BY <1>1, <1>2, <1>4, <1>6, <2>1, <2>3, <3>1, <3>2 DEF SizesInv
  <2>4. QED BY <1>5, <2>2, <2>3
<1>8. QED BY <1>1, <1>3, <1>7 DEF SizedInv, NeverExhausted

\* A cluster's own elements are added to its base, and to no other.
LEMMA KeepSharedInv == ASSUME SizedInv, KeepShared PROVE SizedInv'
<1>0. TypeOK /\ SizesInv /\ stage = "cluster" /\ Sampled
  BY DEF SizedInv, KeepShared
<1>1. /\ UNCHANGED <<config, digest, sample, global_common, replica_sets>>
      /\ bases' = [bases EXCEPT ![at] = @ \cup sample] /\ pc' = "ask"
      /\ IF at + 1 \in Clusters THEN at' = at + 1 /\ UNCHANGED stage
         ELSE at' = 0 /\ stage' = "replica"
  BY <1>0 DEF KeepShared
<1>2. /\ Clusters' = Clusters /\ GlobalSize' = GlobalSize /\ SharedSize' = SharedSize
  BY <1>1 DEF Clusters, GlobalSize, SharedSize
<1>3. /\ config.pattern = "Clustered" /\ at \in Clusters
      /\ Cardinality(global_common) = GlobalSize
      /\ \A k \in Clusters :
           IF k < at THEN Cardinality(bases[k]) = GlobalSize + SharedSize
           ELSE bases[k] = global_common
  BY <1>0 DEF SizesInv
<1>4. /\ Clusters \subseteq Replica /\ 0 \in Replica /\ Replica \subseteq Int
      /\ at \in Replica
      /\ \A r \in Replica : ~(r < 0)
      /\ \A k \in Clusters : k > at => at + 1 \in Clusters
  <2>1. /\ Clusters \subseteq Replica /\ 0 \in Replica /\ at \in Replica
    BY <1>0, Numbering DEF TypeOK
  <2>2. Replica \subseteq Int /\ \A r \in Replica : r >= 0
    BY WorkloadAssumption DEF Replica
  <2>3. config.cluster_count \in Int
    BY <1>0, <1>3, WorkloadAssumption DEF TypeOK, UniformConfig, ClusteredConfig
  <2>4. Clusters = 0 .. config.cluster_count - 1 BY <1>3 DEF Clusters
  <2>5. \A k \in Clusters : k > at => at + 1 \in Clusters
    BY <2>1, <2>2, <2>3, <2>4
  <2>6. QED BY <2>1, <2>2, <2>5
<1>5. /\ bases[at] = global_common
      /\ Cardinality(bases[at] \cup sample) = GlobalSize + SharedSize
      /\ bases[at] \cup sample \in SUBSET Digest
  <2>1. bases[at] = global_common BY <1>3, <1>4
  <2>2. Exclude = global_common /\ Count = SharedSize
    BY <1>0 DEF Exclude, Count
  <2>3. Cardinality(global_common \cup sample) = GlobalSize + SharedSize
    BY <1>0, <1>3, <2>2, SampleAdds
  <2>4. global_common \in SUBSET Digest /\ sample \in SUBSET Digest
    BY <1>0 DEF TypeOK
  <2>5. QED BY <2>1, <2>3, <2>4
<1>6. /\ bases' \in [Clusters -> SUBSET Digest]
      /\ bases'[at] = bases[at] \cup sample
      /\ \A k \in Clusters : k # at => bases'[k] = bases[k]
  <2>1. bases \in [Clusters -> SUBSET Digest] BY <1>0 DEF TypeOK
  <2>2. QED BY <1>1, <1>3, <1>5, <2>1
<1>7. TypeOK'
  <2>1. at' \in Replica BY <1>1, <1>4
  <2>2. QED BY <1>0, <1>1, <1>2, <1>6, <2>1 DEF TypeOK
<1>8. SizesInv'
  <2>1. \A k \in Clusters : k <= at =>
          Cardinality(bases'[k]) = GlobalSize + SharedSize
    <3> SUFFICES ASSUME NEW k \in Clusters, k <= at
                 PROVE  Cardinality(bases'[k]) = GlobalSize + SharedSize
      OBVIOUS
    <3>1. CASE k = at BY <1>5, <1>6, <3>1
    <3>2. CASE k # at
      <4>1. k < at BY <1>3, <1>4, <3>2
      <4>2. bases'[k] = bases[k] BY <1>6, <3>2
      <4>3. Cardinality(bases[k]) = GlobalSize + SharedSize BY <1>3, <4>1
      <4>4. QED BY <4>2, <4>3
    <3>3. QED BY <3>1, <3>2
  <2>2. CASE at + 1 \in Clusters
    <3>1. at' = at + 1 /\ stage' = "cluster" BY <1>0, <1>1, <2>2
    <3>2. \A k \in Clusters : IF k < at + 1
            THEN Cardinality(bases'[k]) = GlobalSize + SharedSize
            ELSE bases'[k] = global_common
      <4> SUFFICES ASSUME NEW k \in Clusters
                   PROVE  IF k < at + 1
                            THEN Cardinality(bases'[k]) = GlobalSize + SharedSize
                            ELSE bases'[k] = global_common
        OBVIOUS
      <4>1. k \in Int /\ at \in Int BY <1>4
      <4>2. CASE k < at + 1
        <5>1. k <= at BY <4>1, <4>2
        <5>2. QED BY <2>1, <4>2, <5>1
      <4>3. CASE ~(k < at + 1)
        <5>1. k # at /\ ~(k < at) BY <4>1, <4>3
        <5>2. bases'[k] = bases[k] BY <1>6, <5>1
        <5>3. bases[k] = global_common BY <1>3, <5>1
        <5>4. QED BY <4>3, <5>2, <5>3
      <4>4. QED BY <4>2, <4>3
    <3>3. QED BY <1>1, <1>2, <1>3, <2>2, <3>1, <3>2 DEF SizesInv
  <2>3. CASE at + 1 \notin Clusters
    <3>1. at' = 0 /\ stage' = "replica" BY <1>1, <2>3
    <3>2. \A k \in Clusters : Cardinality(bases'[k]) = GlobalSize + SharedSize
      BY <1>4, <2>1, <2>3
    <3>3. QED BY <1>1, <1>2, <1>3, <1>4, <3>1, <3>2 DEF SizesInv
  <2>4. QED BY <2>2, <2>3
<1>9. QED BY <1>1, <1>7, <1>8 DEF SizedInv, NeverExhausted

\* A replica is given its cluster's base and as many elements as that lacks.
LEMMA KeepReplicaInv == ASSUME SizedInv, KeepReplica PROVE SizedInv'
<1>0. TypeOK /\ SizesInv /\ stage = "replica" /\ Sampled
  BY DEF SizedInv, KeepReplica
<1>1. /\ UNCHANGED <<config, digest, stage, sample, global_common, bases>>
      /\ replica_sets' = [replica_sets EXCEPT ![at] = bases[ClusterOf(at)] \cup sample]
      /\ IF at + 1 \in Replica THEN at' = at + 1 /\ pc' = "ask"
         ELSE pc' = "done" /\ UNCHANGED at
  BY <1>0 DEF KeepReplica
<1>2. /\ Clusters' = Clusters /\ GlobalSize' = GlobalSize /\ SharedSize' = SharedSize
  BY <1>1 DEF Clusters, GlobalSize, SharedSize
<1>3. pc = "draw" /\ at \in Replica BY <1>0 DEF TypeOK, Sampled
<1>4. /\ Cardinality(bases[ClusterOf(at)] \cup sample) = config.set_size
      /\ bases[ClusterOf(at)] \cup sample \in SUBSET Digest
  <2>1. ClusterOf(at) \in Clusters BY <1>0, <1>3, Numbering DEF TypeOK
  <2>2. Exclude = bases[ClusterOf(at)] /\ Count = UniqueSize
    BY <1>0 DEF Exclude, Count
  <2>3. Cardinality(bases[ClusterOf(at)]) = GlobalSize + SharedSize
    BY <1>0, <2>1 DEF SizesInv
  <2>4. Cardinality(bases[ClusterOf(at)] \cup sample)
          = GlobalSize + SharedSize + UniqueSize
    BY <1>0, <2>2, <2>3, SampleAdds
  <2>5. GlobalSize + SharedSize + UniqueSize = config.set_size
    BY <1>0, SizesAdd DEF TypeOK
  <2>6. bases[ClusterOf(at)] \in SUBSET Digest /\ sample \in SUBSET Digest
    BY <1>0, <2>1 DEF TypeOK
  <2>7. QED BY <2>4, <2>5, <2>6
<1>5. /\ replica_sets' \in [Replica -> SUBSET Digest]
      /\ replica_sets'[at] = bases[ClusterOf(at)] \cup sample
      /\ \A r \in Replica : r # at => replica_sets'[r] = replica_sets[r]
  <2>1. replica_sets \in [Replica -> SUBSET Digest] BY <1>0 DEF TypeOK
  <2>2. QED BY <1>1, <1>3, <1>4, <2>1
<1>6. TypeOK'
  <2>1. at' \in Replica /\ pc' \in {"ask", "draw", "done", "panic"}
    BY <1>1, <1>3
  <2>2. QED BY <1>0, <1>1, <1>2, <1>5, <2>1 DEF TypeOK
<1>7. \A r \in Replica : r <= at =>
        Cardinality(replica_sets'[r]) = config.set_size
  <2>1. \A r \in Replica : r < at => Cardinality(replica_sets[r]) = config.set_size
    BY <1>0 DEF SizesInv
  <2>2. Replica \subseteq Int BY WorkloadAssumption DEF Replica
  <2>3. QED BY <1>3, <1>4, <1>5, <2>1, <2>2
<1>8. \A r \in Replica : r < at' \/ pc' = "done" =>
        Cardinality(replica_sets'[r]) = config.set_size
  <2>1. /\ Replica \subseteq Int
        /\ at + 1 \notin Replica => \A r \in Replica : r <= at
    BY <1>3, WorkloadAssumption DEF Replica
  <2> SUFFICES ASSUME NEW r \in Replica, r < at' \/ pc' = "done"
               PROVE  r <= at
    BY <1>7
  <2>2. r \in Int /\ at \in Int BY <1>3, <2>1
  <2>3. CASE at + 1 \in Replica
    <3>1. at' = at + 1 /\ pc' = "ask" BY <1>1, <2>3
    <3>2. QED BY <2>2, <3>1
  <2>4. CASE at + 1 \notin Replica BY <2>1, <2>4
  <2>5. QED BY <2>3, <2>4
<1>9. SizesInv'
  <2>1. /\ Cardinality(global_common) = GlobalSize
        /\ \A k \in Clusters : Cardinality(bases[k]) = GlobalSize + SharedSize
    BY <1>0 DEF SizesInv
  <2>2. pc' # "draw" BY <1>1
  <2>3. QED BY <1>0, <1>1, <1>2, <1>8, <2>1, <2>2 DEF SizesInv
<1>10. QED BY <1>1, <1>6, <1>9 DEF SizedInv, NeverExhausted

-----------------------------------------------------------------------------
(* What is put into a part stays there.                                     *)

\* At the start no part is finished.
LEMMA InitParts == ASSUME Init PROVE PartsInv
BY DEF Init, PartsInv

\* A sampling touches no part.
LEMMA PartsStay ==
  ASSUME PartsInv, pc # "done", pc' # "done",
         UNCHANGED <<config, stage, at, global_common, bases, replica_sets>>
  PROVE  PartsInv'
BY DEF PartsInv, Clusters, ClusterOf

\* A base starts as the common elements; no replica has been given any.
LEMMA KeepCommonParts == ASSUME SizedInv, KeepCommon PROVE PartsInv'
<1>1. /\ UNCHANGED <<config, at, sample>> /\ stage = "common"
      /\ global_common' = sample /\ pc' = "ask"
      /\ bases' = [k \in Clusters |-> sample]
  BY DEF KeepCommon
<1>2. Clusters' = Clusters BY <1>1 DEF Clusters
<1>3. at' = 0 BY <1>1 DEF SizedInv, SizesInv
<1>4. \A r \in Replica : ~(r < at')
  BY <1>3, WorkloadAssumption DEF Replica
<1>5. \A k \in Clusters : bases'[k] = sample BY <1>1
<1>6. QED BY <1>1, <1>2, <1>4, <1>5 DEF PartsInv

\* A base only grows, and no replica has been given it yet.
LEMMA KeepSharedParts == ASSUME SizedInv, PartsInv, KeepShared PROVE PartsInv'
<1>1. /\ UNCHANGED <<config, global_common>> /\ stage = "cluster" /\ pc' = "ask"
      /\ bases' = [bases EXCEPT ![at] = @ \cup sample]
      /\ IF at + 1 \in Clusters THEN at' = at + 1 /\ UNCHANGED stage
         ELSE at' = 0 /\ stage' = "replica"
  BY DEF KeepShared
<1>2. Clusters' = Clusters BY <1>1 DEF Clusters
<1>3. bases \in [Clusters -> SUBSET Digest] BY DEF SizedInv, TypeOK
<1>4. \A k \in Clusters : bases[k] \subseteq bases'[k]
  <2>1. \A k \in Clusters :
          bases'[k] = IF k = at THEN bases[k] \cup sample ELSE bases[k]
    BY <1>1, <1>3
  <2>2. QED BY <2>1
<1>5. \A k \in Clusters : global_common \subseteq bases[k]
  BY <1>1 DEF PartsInv
<1>6. stage' = "replica" => \A r \in Replica : ~(r < at')
  BY <1>1, WorkloadAssumption DEF Replica
<1>7. QED BY <1>1, <1>2, <1>4, <1>5, <1>6 DEF PartsInv

\* A replica is given all of its cluster's base.
LEMMA KeepReplicaParts == ASSUME SizedInv, PartsInv, KeepReplica PROVE PartsInv'
<1>1. /\ UNCHANGED <<config, stage, global_common, bases>> /\ stage = "replica"
      /\ replica_sets' = [replica_sets EXCEPT ![at] = bases[ClusterOf(at)] \cup sample]
      /\ pc = "draw"
      /\ IF at + 1 \in Replica THEN at' = at + 1 /\ pc' = "ask"
         ELSE pc' = "done" /\ UNCHANGED at
  BY DEF KeepReplica, Sampled
<1>2. Clusters' = Clusters BY <1>1 DEF Clusters
<1>3. /\ replica_sets \in [Replica -> SUBSET Digest] /\ at \in Replica
  BY DEF SizedInv, TypeOK
<1>4. /\ replica_sets'[at] = bases[ClusterOf(at)] \cup sample
      /\ \A r \in Replica : r # at => replica_sets'[r] = replica_sets[r]
  BY <1>1, <1>3
<1>5. ASSUME NEW r \in Replica, r < at' \/ pc' = "done"
      PROVE  bases[ClusterOf(r)] \subseteq replica_sets'[r]
  <2>1. CASE r = at BY <1>4, <2>1
  <2>2. CASE r # at
    <3>1. r < at
      <4>1. /\ Replica \subseteq Int
            /\ at + 1 \notin Replica => \A q \in Replica : q <= at
        BY <1>3, WorkloadAssumption DEF Replica
      <4>2. r \in Int /\ at \in Int BY <1>3, <4>1
      <4>3. CASE at + 1 \in Replica
        <5>1. at' = at + 1 /\ pc' = "ask" BY <1>1, <4>3
        <5>2. QED BY <1>5, <2>2, <4>2, <5>1
      <4>4. CASE at + 1 \notin Replica BY <2>2, <4>1, <4>2, <4>4
      <4>5. QED BY <4>3, <4>4
    <3>2. bases[ClusterOf(r)] \subseteq replica_sets[r]
      BY <1>1, <3>1 DEF PartsInv
    <3>3. QED BY <1>4, <2>2, <3>2
  <2>3. QED BY <2>1, <2>2
<1>6. \A r \in Replica : ClusterOf(r)' = ClusterOf(r) BY <1>1 DEF ClusterOf
<1>7. \A k \in Clusters : global_common \subseteq bases[k]
  BY <1>1 DEF PartsInv
<1>8. QED BY <1>1, <1>2, <1>5, <1>6, <1>7 DEF PartsInv

\* Every reachable state of the generator satisfies the inductive invariant,
\* which holds its types and the size of every part it has put together.
THEOREM WorkloadInvariant == Safety => []IInv
<1>1. Init => IInv BY InitInv, InitParts DEF IInv
<1>2. IInv /\ [Next]_vars => IInv'
  <2> SUFFICES ASSUME IInv, [Next]_vars PROVE IInv' OBVIOUS
  <2>0. SizedInv /\ PartsInv BY DEF IInv
  <2>1. CASE Ask BY <2>0, <2>1, AskInv, PartsStay DEF IInv, Ask
  <2>2. ASSUME NEW i \in Index, Draw(i) PROVE IInv'
    BY <2>0, <2>2, DrawInv, PartsStay DEF IInv, Draw
  <2>3. CASE KeepCommon BY <2>0, <2>3, KeepCommonInv, KeepCommonParts DEF IInv
  <2>4. CASE KeepShared BY <2>0, <2>4, KeepSharedInv, KeepSharedParts DEF IInv
  <2>5. CASE KeepReplica BY <2>0, <2>5, KeepReplicaInv, KeepReplicaParts DEF IInv
  <2>6. CASE UNCHANGED vars
    BY <2>6 DEF vars, IInv, SizedInv, PartsInv, TypeOK, SizesInv, NeverExhausted,
                Clusters, GlobalSize, SharedSize, UniqueSize, Count, Exclude, ClusterOf
  <2>7. QED BY <2>1, <2>2, <2>3, <2>4, <2>5, <2>6 DEF Next, Returned
<1>3. QED BY <1>1, <1>2, PTL DEF Safety

\* generate returns exactly set_size elements for every replica, for all
\* similarities, roundings, clusterings and digests.
THEOREM SizesExact == Safety => []ExactSizes
<1>1. IInv => ExactSizes BY DEF IInv, SizedInv, SizesInv, ExactSizes
<1>2. QED BY <1>1, WorkloadInvariant, PTL

\* The assertion in sample_unique_zipf never fires.
THEOREM NeverExhausts == Safety => []NeverExhausted
<1>1. IInv => NeverExhausted BY DEF IInv, SizedInv
<1>2. QED BY <1>1, WorkloadInvariant, PTL

-----------------------------------------------------------------------------
(* How similar two replicas are.                                            *)

\* A product of a factor that is negative or nothing with one that is not.
LEMMA NotPositive ==
  ASSUME NEW a \in Int, NEW b \in Nat, a <= 0 PROVE a * b <= 0
<1>1. (-a) \in Nat OBVIOUS
<1>2. (-a) * b >= 0 BY <1>1
<1>3. (-a) * b = -(a * b) OBVIOUS
<1>4. a * b \in Int OBVIOUS
<1>5. QED BY <1>2, <1>3, <1>4

\* A product grows with a factor.
LEMMA Monotone ==
  ASSUME NEW a \in Int, NEW b \in Int, NEW m \in Nat, a <= b PROVE a * m <= b * m
<1>1. b - a \in Nat OBVIOUS
<1>2. (b - a) * m \in Nat BY <1>1
<1>3. (b - a) * m = b * m - a * m OBVIOUS
<1>4. a * m \in Int /\ b * m \in Int OBVIOUS
<1>5. QED BY <1>2, <1>3, <1>4

\* A factor that is positive can be taken out of an inequality.
LEMMA Cancels ==
  ASSUME NEW a \in Int, NEW b \in Int, NEW m \in Nat, m > 0, a * m <= b * m
  PROVE  a <= b
<1> SUFFICES ASSUME a > b PROVE FALSE OBVIOUS
<1>1. a - b - 1 \in Nat OBVIOUS
<1>2. (a - b - 1) * m \in Nat BY <1>1
<1>3. (a - b - 1) * m = a * m - b * m - m OBVIOUS
<1>4. a * m \in Int /\ b * m \in Int OBVIOUS
<1>5. QED BY <1>2, <1>3, <1>4

\* How far rounding takes the size of what is common from 2 s j / (Den + j).
LEMMA RoundedSize ==
  ASSUME NEW j \in 0 .. Den, NEW s \in Nat, NEW x \in Nat, CommonSize(j, s) <= x
  PROVE  4 * s * j - (Den + j) + 1 <= 2 * (Den + j) * x
<1> DEFINE d == Den + j
           n == 4 * s * j + d
<1>1. /\ Den \in Nat /\ Den > 0 /\ j \in Nat BY WorkloadAssumption
<1>2. d \in Nat /\ d > 0 /\ 4 * s * j \in Nat BY <1>1
<1>3. n \in Nat /\ 2 * d \in Nat /\ 2 * d > 0 BY <1>2
<1>4. CommonSize(j, s) = n \div (2 * d) BY DEF CommonSize
<1> HIDE DEF n
<1>5. n < (2 * d) * (x + 1)
  <2> DEFINE e == 2 * d
             q == n \div e
  <2>0. e \in Nat /\ e > 0 BY <1>3
  <2>a. q <= x BY <1>4
  <2> HIDE DEF e
  <2>1. n < e * (q + 1) /\ q \in Nat BY <1>3, <2>0
  <2> HIDE DEF q
  <2>2. (q + 1) * e <= (x + 1) * e BY <2>0, <2>1, <2>a, Monotone
  <2>3. e * (q + 1) = (q + 1) * e /\ e * (x + 1) = (x + 1) * e
        /\ (q + 1) * e \in Nat /\ (x + 1) * e \in Nat
    BY <2>0, <2>1
  <2>4. n < e * (x + 1) BY <1>3, <2>1, <2>2, <2>3
  <2>5. QED BY <2>4 DEF e
<1>6. (2 * d) * (x + 1) = 2 * d * x + 2 * d /\ 2 * d * x \in Nat BY <1>2
<1>7. 4 * s * j - d + 1 <= 2 * d * x BY <1>2, <1>5, <1>6 DEF n
<1>8. QED BY <1>7

\* Two sets of s elements with as many in common as CommonSize asks for are as
\* similar as j/Den, less 1/s: half of one element rounded off what is common
\* is at most twice that in the Jaccard index.
LEMMA SimilarEnough ==
  ASSUME NEW j \in 0 .. Den, NEW s \in Nat, NEW x \in Nat,
         CommonSize(j, s) <= x, x <= s
  PROVE  (j * s - Den) * (2 * s - x) <= x * Den * s
<1> DEFINE D == Den
           d == D + j
           m == j * s - D
           t == 2 * s - x
<1>1. D \in Nat /\ D > 0 /\ j \in Nat /\ j <= D BY WorkloadAssumption
<1>2. j * s \in Nat /\ t \in Nat /\ m \in Int /\ d \in Nat /\ d > 0 BY <1>1
<1>3. x * D * s >= 0 /\ x * D * s \in Nat BY <1>1
<1>4. CASE m <= 0
  <2> HIDE DEF m, t
  <2>1. m * t <= 0 /\ m * t \in Int BY <1>2, <1>4, NotPositive
  <2>2. m * t <= x * D * s BY <1>3, <2>1
  <2>3. QED BY <2>2 DEF m, t
<1>5. CASE m > 0
  <2>1. m \in Nat BY <1>2, <1>5
  <2> DEFINE w == D * s + m
             b == 2 * d * x
             l == 4 * s * j - d + 1
  <2>2. w \in Nat /\ w = d * s - D
    <3>1. D * s \in Nat BY <1>1
    <3>2. d * s = D * s + j * s BY <1>1
    <3>3. QED BY <1>1, <1>2, <2>1, <3>1, <3>2
  <2>3. l \in Int /\ b \in Int BY <1>1, <1>2
  <2>4. l <= b BY <1>1, RoundedSize
  <2>5. l * w <= b * w
    <3> HIDE DEF l, b, w
    <3>1. QED BY <2>2, <2>3, <2>4, Monotone
  <2>6. 4 * d * s * m <= l * w
    <3> DEFINE v == d * s
    <3>1. d * d <= 4 * D * D
      <4>1. d * d <= (2 * D) * d
        <5>1. d <= 2 * D BY <1>1
        <5>2. QED BY <1>1, <1>2, <5>1, Monotone
      <4>2. d * (2 * D) <= (2 * D) * (2 * D)
        <5>1. d <= 2 * D /\ 2 * D \in Nat BY <1>1
        <5>2. QED BY <1>1, <1>2, <5>1, Monotone
      <4>3. QED BY <1>1, <1>2, <4>1, <4>2
    <3>2. (d * d) * s <= (4 * D * D) * s
      <4>1. d * d \in Int /\ 4 * D * D \in Int BY <1>1
      <4>2. QED BY <3>1, <4>1, Monotone
    <3>3. l * w = 4 * d * s * m
                    + ((4 * D * D) * s - (d * d) * s) + (d * D - D) + d * s
      <4>1. l * w = (4 * s * j - d + 1) * (d * s - D) BY <2>2
      <4>2. (4 * s * j - d + 1) * (d * s - D)
              = 4 * s * j * d * s - 4 * s * j * D - d * d * s + d * D + d * s - D
        BY <1>1, <1>2
      <4>3. 4 * d * s * m = 4 * s * j * d * s - 4 * d * s * D BY <1>1, <1>2
      <4>4. 4 * d * s * D = (4 * D * D) * s + 4 * s * j * D BY <1>1
      <4>5. QED BY <1>1, <1>2, <4>1, <4>2, <4>3, <4>4
    <3>4. d * D >= D
      <4>1. 1 * D <= d * D BY <1>1, <1>2, Monotone
      <4>2. QED BY <1>1, <4>1
    <3>5. d * s >= 0 /\ d * s \in Int /\ d * D \in Int /\ (d * d) * s \in Int
          /\ (4 * D * D) * s \in Int /\ 4 * d * s * m \in Int /\ l * w \in Int
      BY <1>1, <1>2, <2>1, <2>2, <2>3
    <3>6. QED BY <1>1, <3>2, <3>3, <3>4, <3>5
  <2>7. (2 * s * m) * (2 * d) <= (x * w) * (2 * d)
    <3>1. (2 * s * m) * (2 * d) = 4 * d * s * m BY <1>2
    <3>2. (x * w) * (2 * d) = b * w BY <1>2, <2>2
    <3>3. 4 * d * s * m \in Int /\ l * w \in Int /\ b * w \in Int
      BY <1>2, <2>2, <2>3
    <3>4. QED BY <2>5, <2>6, <3>1, <3>2, <3>3
  <2>8. 2 * s * m <= x * w
    <3>1. 2 * s * m \in Int /\ x * w \in Int /\ 2 * d \in Nat /\ 2 * d > 0
      BY <1>2, <2>2
    <3> HIDE DEF m, w, d
    <3>2. QED BY <2>7, <3>1, Cancels
  <2>9. x * w = x * D * s + x * m
    <3>1. x * w = x * (D * s + m) OBVIOUS
    <3> HIDE DEF m, w
    <3>2. QED BY <1>1, <1>2, <3>1
  <2>10. m * t = 2 * s * m - x * m
    <3> HIDE DEF m
    <3>1. QED BY <1>2
  <2>11. x * m \in Int /\ 2 * s * m \in Int BY <1>2
  <2>12. m * t <= x * D * s
    <3> HIDE DEF m, t, w
    <3>1. QED BY <1>3, <2>8, <2>9, <2>10, <2>11
  <2>13. QED BY <2>12
<1>6. QED BY <1>2, <1>4, <1>5

\* Numbers whose difference a cluster count divides leave the same remainder.
LEMMA SameRemainder ==
  ASSUME NEW r \in Nat, NEW t \in Nat, NEW c \in Nat, c > 0, (r - t) % c = 0
  PROVE  r % c = t % c
<1> DEFINE q == (r - t) \div c
           p == t \div c
           u == t % c
<1>1. r - t \in Int OBVIOUS
<1>2. q \in Int /\ r - t = c * q + ((r - t) % c) BY <1>1
<1>3. p \in Int /\ u \in 0 .. c - 1 /\ t = c * p + u OBVIOUS
<1> HIDE DEF q, p, u
<1>4. r = c * (q + p) + u
  <2>1. c * (q + p) = c * q + c * p /\ c * q \in Int /\ c * p \in Int BY <1>2, <1>3
  <2>2. QED BY <1>2, <1>3, <2>1
<1>5. r % c = u
  <2> DEFINE k == q + p
             l == r \div c
             v == r % c
  <2>1. k \in Int BY <1>2, <1>3
  <2>2. l \in Int /\ v \in 0 .. c - 1 /\ r = c * l + v OBVIOUS
  <2>3. r = c * k + u BY <1>4
  <2> HIDE DEF k, l, v
  <2>4. c * k \in Int /\ c * l \in Int BY <2>1, <2>2
  <2>5. k <= l
    <3>1. CASE k > l
      <4>1. (l + 1) * c <= k * c BY <2>1, <2>2, <3>1, Monotone
      <4>2. (l + 1) * c = c * l + c /\ k * c = c * k BY <2>1, <2>2
      <4>3. QED BY <1>3, <2>2, <2>3, <2>4, <4>1, <4>2
    <3>2. QED BY <2>1, <2>2, <3>1
  <2>6. l <= k
    <3>1. CASE l > k
      <4>1. (k + 1) * c <= l * c BY <2>1, <2>2, <3>1, Monotone
      <4>2. (k + 1) * c = c * k + c /\ l * c = c * l BY <2>1, <2>2
      <4>3. QED BY <1>3, <2>2, <2>3, <2>4, <4>1, <4>2
    <3>2. QED BY <2>1, <2>2, <3>1
  <2>7. v = u
    <3>1. k = l BY <2>1, <2>2, <2>5, <2>6
    <3>2. QED BY <1>3, <2>2, <2>3, <2>4, <3>1
  <2>8. QED BY <2>7 DEF v
<1>6. QED BY <1>5 DEF u

\* Two replicas share a set of at least as many elements as they were
\* configured to have in common.
LEMMA EnoughShared ==
  ASSUME IInv, pc = "done", NEW r \in Replica, NEW t \in Replica
  PROVE  /\ Similarity(r, t) \in 0 .. Den
         /\ \E S \in SUBSET Digest :
              /\ S \subseteq replica_sets[r] \cap replica_sets[t]
              /\ CommonSize(Similarity(r, t), config.set_size) <= Cardinality(S)
<1>0. TypeOK /\ SizesInv /\ PartsInv BY DEF IInv, SizedInv
<1>1. /\ stage = "replica"
      /\ Cardinality(global_common) = GlobalSize
      /\ \A k \in Clusters : Cardinality(bases[k]) = GlobalSize + SharedSize
      /\ \A k \in Clusters : global_common \subseteq bases[k]
      /\ bases[ClusterOf(r)] \subseteq replica_sets[r]
      /\ bases[ClusterOf(t)] \subseteq replica_sets[t]
  BY <1>0 DEF SizesInv, PartsInv
<1>2. /\ ClusterOf(r) \in Clusters /\ ClusterOf(t) \in Clusters
      /\ GlobalSize \in Nat /\ SharedSize \in Nat
      /\ config.pattern = "Uniform" => SharedSize = 0
      /\ config.set_size \in Nat
  BY <1>0, Numbering, SizesAdd DEF TypeOK
<1>3. /\ bases[ClusterOf(r)] \in SUBSET Digest /\ global_common \in SUBSET Digest
  BY <1>0, <1>2 DEF TypeOK
<1>4. CASE config.pattern = "Uniform"
  <2>1. /\ Similarity(r, t) = config.jaccard_similarity
        /\ GlobalSize = CommonSize(config.jaccard_similarity, config.set_size)
        /\ ClusterOf(r) = ClusterOf(t)
    BY <1>4 DEF Similarity, GlobalSize, ClusterOf
  <2>2. config.jaccard_similarity \in 0 .. Den
    BY <1>0, <1>4 DEF TypeOK, UniformConfig, ClusteredConfig
  <2>3. Cardinality(bases[ClusterOf(r)]) = GlobalSize BY <1>1, <1>2, <1>4
  <2>4. CommonSize(Similarity(r, t), config.set_size)
          <= Cardinality(bases[ClusterOf(r)])
    BY <1>2, <2>1, <2>3
  <2>5. QED BY <1>1, <1>3, <2>1, <2>2, <2>4
<1>5. CASE config.pattern # "Uniform"
  <2>1. /\ config.pattern = "Clustered"
        /\ config.cluster_count \in 1 .. NumReplicas
        /\ config.jaccard_intra \in 0 .. Den /\ config.jaccard_inter \in 0 .. Den
    BY <1>0, <1>5 DEF TypeOK, UniformConfig, ClusteredConfig
  <2>2. GlobalSize = CommonSize(config.jaccard_inter, config.set_size)
    BY <1>5 DEF GlobalSize
  <2>3. CASE (r - t) % config.cluster_count = 0
    <3>1. Similarity(r, t) = config.jaccard_intra
      BY <2>1, <2>3 DEF Similarity
    <3>2. ClusterOf(r) = ClusterOf(t)
      <4>1. r \in Nat /\ t \in Nat BY WorkloadAssumption DEF Replica
      <4>2. config.cluster_count \in Nat /\ config.cluster_count > 0
        BY <2>1, WorkloadAssumption
      <4>3. r % config.cluster_count = t % config.cluster_count
        BY <2>3, <4>1, <4>2, SameRemainder
      <4>4. QED BY <1>5, <4>3 DEF ClusterOf
    <3>3. CommonSize(config.jaccard_intra, config.set_size) \in Nat
      BY <1>2, <2>1, CommonSizeBounded
    <3>4. CommonSize(config.jaccard_intra, config.set_size)
            <= GlobalSize + SharedSize
      BY <1>2, <1>5, <3>3 DEF SharedSize, SaturatingSub
    <3>5. CommonSize(Similarity(r, t), config.set_size)
            <= Cardinality(bases[ClusterOf(r)])
      BY <1>1, <1>2, <3>1, <3>4
    <3>6. QED BY <1>1, <1>3, <2>1, <3>1, <3>2, <3>5
  <2>4. CASE (r - t) % config.cluster_count # 0
    <3>1. Similarity(r, t) = config.jaccard_inter
      BY <2>1, <2>4 DEF Similarity
    <3>2. CommonSize(Similarity(r, t), config.set_size)
            <= Cardinality(global_common)
      BY <1>1, <1>2, <2>2, <3>1
    <3>3. global_common \subseteq replica_sets[r] \cap replica_sets[t]
      BY <1>1, <1>2
    <3>4. QED BY <1>3, <2>1, <3>1, <3>2, <3>3
  <2>5. QED BY <2>3, <2>4
<1>6. QED BY <1>4, <1>5

\* Any two replicas of a generated workload are as similar as configured, up to
\* the rounding of one size, for all sizes, similarities and clusterings.
THEOREM SimilarityHolds == Safety => []AsSimilar
<1>1. ASSUME IInv PROVE AsSimilar
  <2> SUFFICES ASSUME pc = "done", NEW r \in Replica, NEW t \in Replica
               PROVE  Cardinality(replica_sets[r] \cap replica_sets[t])
                          * Den * config.set_size
                        >= (Similarity(r, t) * config.set_size - Den)
                             * Cardinality(replica_sets[r] \cup replica_sets[t])
    BY DEF AsSimilar
  <2> DEFINE R == replica_sets[r]
             T == replica_sets[t]
             x == Cardinality(R \cap T)
             a == Cardinality(R \cup T)
             s == config.set_size
             j == Similarity(r, t)
  <2>1. /\ Cardinality(R) = s /\ Cardinality(T) = s /\ s \in Nat
        /\ R \in SUBSET Digest /\ T \in SUBSET Digest
    BY <1>1, SizesAdd DEF IInv, SizedInv, TypeOK, SizesInv
  <2>2. PICK S \in SUBSET Digest :
          S \subseteq R \cap T /\ CommonSize(j, s) <= Cardinality(S)
    BY <1>1, EnoughShared
  <2>3. j \in 0 .. Den BY <1>1, EnoughShared
  <2>4. /\ IsFiniteSet(R) /\ IsFiniteSet(T) /\ IsFiniteSet(R \cap T)
        /\ x \in Nat /\ R \cap T \subseteq R
    <3>1. R \cap T \in SUBSET Digest BY <2>1
    <3>2. QED BY <2>1, <3>1, DigestsFinite
  <2>5. x <= s /\ Cardinality(S) <= x /\ Cardinality(S) \in Nat
    BY <2>1, <2>2, <2>4, FS_Subset, DigestsFinite
  <2>6. a = 2 * s - x
    <3>1. a = Cardinality(R) + Cardinality(T) - x BY <2>4, FS_Union
    <3> HIDE DEF x, a, R, T
    <3>2. QED BY <2>1, <2>4, <3>1
  <2>7. CommonSize(j, s) <= x
    <3>1. CommonSize(j, s) \in Nat BY <2>1, <2>3, CommonSizeBounded
    <3> HIDE DEF x, j, s
    <3>2. QED BY <2>2, <2>4, <2>5, <3>1
  <2>8. (j * s - Den) * (2 * s - x) <= x * Den * s
    <3> HIDE DEF x, j, s
    <3>1. QED BY <2>1, <2>3, <2>4, <2>5, <2>7, SimilarEnough
  <2>9. (j * s - Den) * (2 * s - x) \in Int /\ x * Den * s \in Int
    <3> HIDE DEF x, j, s
    <3>1. Den \in Int /\ j \in Int BY <2>3, WorkloadAssumption
    <3>2. QED BY <2>1, <2>4, <3>1
  <2>10. x * Den * s >= (j * s - Den) * a
    <3> HIDE DEF x, j, s, a
    <3>1. QED BY <2>6, <2>8, <2>9
  <2>11. QED BY <2>10
<1>2. QED BY <1>1, WorkloadInvariant, PTL

=============================================================================
