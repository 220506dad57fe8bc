------------------------------ MODULE Workload ------------------------------
(***************************************************************************)
(* The workload generator of src/simulator/workload.rs: a sequence of      *)
(* samplings without replacement, of the elements all replicas share, of   *)
(* those a cluster shares, and of those a replica has for itself.          *)
(*                                                                         *)
(* The Zipf sampler is any choice of an index, all weights being positive. *)
(* An element is its digest, and masked_digest is any function from the    *)
(* indices: with few digest bits different indices collide.  A Jaccard     *)
(* similarity is a multiple of 1/Den, and rounding is done on integers.    *)
(***************************************************************************)
EXTENDS Integers, FiniteSets

CONSTANTS
  NumReplicas,     \* WorkloadConfig::num_replicas
  UniverseSize,    \* WorkloadConfig::universe_size
  Digest,          \* the digests that masked_digest can return
  Den,             \* similarities are the fractions 0/Den .. Den/Den
  SetSizes         \* values of WorkloadConfig::set_size

\* What validate_config demands.
ASSUME WorkloadAssumption ==
  /\ NumReplicas \in Nat \ {0}
  /\ UniverseSize \in Nat
  /\ IsFiniteSet(Digest)
  /\ Den \in Nat \ {0}
  /\ SetSizes \subseteq 1 .. UniverseSize

VARIABLES
  config,
  digest,          \* the digest of each index of the universe
  stage,           \* which sampling is under way,
  at,              \* ... and for which cluster or replica
  pc,              \* "ask" before its assertion, then "draw"
  sample,          \* the HashSet it fills
  global_common,   \* common_set in generate_uniform
  bases,           \* cluster_bases, a single one in generate_uniform
  replica_sets

vars == <<config, digest, stage, at, pc, sample, global_common, bases,
          replica_sets>>

Index == 0 .. UniverseSize-1

Replica == 0 .. NumReplicas-1

UniformConfig ==
  [pattern : {"Uniform"}, set_size : SetSizes, jaccard_similarity : 0 .. Den]

ClusteredConfig ==
  {c \in [pattern : {"Clustered"}, set_size : SetSizes,
          cluster_count : 1 .. NumReplicas,
          jaccard_inter : 0 .. Den, jaccard_intra : 0 .. Den] :
     c.jaccard_intra >= c.jaccard_inter}

-----------------------------------------------------------------------------
(* Sizes.                                                                   *)

\* 2 s j / (1 + j), rounded to the nearest integer, for the similarity j/Den.
CommonSize(j, set_size) ==
  (4 * set_size * j + (Den + j)) \div (2 * (Den + j))

SaturatingSub(a, b) == IF a >= b THEN a - b ELSE 0

GlobalSize ==
  CommonSize(IF config.pattern = "Uniform" THEN config.jaccard_similarity
             ELSE config.jaccard_inter, config.set_size)

SharedSize ==
  IF config.pattern = "Uniform" THEN 0
  ELSE SaturatingSub(CommonSize(config.jaccard_intra, config.set_size), GlobalSize)

\* What a bug would do that forgets that a cluster's own elements count.
UniqueSizeBesideGlobal == SaturatingSub(config.set_size, GlobalSize)

\* generate_uniform subtracts without saturating; nothing is negative there
\* (CommonSizeBounded in WorkloadProofs).
UniqueSize == SaturatingSub(config.set_size, GlobalSize + SharedSize)

Clusters ==
  IF config.pattern = "Uniform" THEN {0} ELSE 0 .. config.cluster_count - 1

\* What a bug would do that gives neighbouring replicas to a cluster.
ClusterByBlocks(r) ==
  IF config.pattern = "Uniform" THEN 0
  ELSE IF r \div config.cluster_count \in Clusters
       THEN r \div config.cluster_count ELSE 0

ClusterOf(r) == IF config.pattern = "Uniform" THEN 0 ELSE r % config.cluster_count

-----------------------------------------------------------------------------
(* sample_unique_zipf, called with count Count and exclude Exclude.         *)

Count == CASE stage = "common"  -> GlobalSize
           [] stage = "cluster" -> SharedSize
           [] stage = "replica" -> UniqueSize

\* What a bug would do that keeps clear of the other replicas' elements too.
ExcludeAllSeen ==
  global_common \cup UNION {bases[k] : k \in Clusters}
    \cup UNION {replica_sets[r] : r \in Replica}

\* What a bug would do that keeps clear of the common elements alone.
ExcludeGlobal == global_common

Exclude == CASE stage = "common"  -> {}
             [] stage = "cluster" -> global_common
             [] stage = "replica" -> bases[ClusterOf(at)]

Init ==
  /\ config \in UniformConfig \cup ClusteredConfig
  /\ digest \in [Index -> Digest]
  /\ stage = "common"
  /\ at = 0
  /\ pc = "ask"
  /\ sample = {}
  /\ global_common = {}
  /\ bases = [k \in Clusters |-> {}]
  /\ replica_sets = [r \in Replica |-> {}]

\* The assertion before the loop counts indices, not elements.
Ask ==
  /\ pc = "ask"
  /\ pc' = IF Count <= SaturatingSub(UniverseSize, Cardinality(Exclude))
           THEN "draw" ELSE "panic"
  /\ sample' = {}
  /\ UNCHANGED <<config, digest, stage, at, global_common, bases, replica_sets>>

\* One turn of the loop.
Draw(i) ==
  /\ pc = "draw"
  /\ Cardinality(sample) < Count
  /\ sample' = IF digest[i] \in Exclude THEN sample ELSE sample \cup {digest[i]}
  /\ UNCHANGED <<config, digest, stage, at, pc, global_common, bases, replica_sets>>

Sampled == pc = "draw" /\ Cardinality(sample) >= Count

-----------------------------------------------------------------------------
(* generate_uniform and generate_clustered.                                 *)

KeepCommon ==
  /\ stage = "common"
  /\ Sampled
  /\ global_common' = sample
  /\ bases' = [k \in Clusters |-> sample]
  /\ stage' = IF config.pattern = "Uniform" THEN "replica" ELSE "cluster"
  /\ pc' = "ask"
  /\ UNCHANGED <<config, digest, at, sample, replica_sets>>

KeepShared ==
  /\ stage = "cluster"
  /\ Sampled
  /\ bases' = [bases EXCEPT ![at] = @ \cup sample]
  /\ IF at + 1 \in Clusters THEN at' = at + 1 /\ UNCHANGED stage
     ELSE at' = 0 /\ stage' = "replica"
  /\ pc' = "ask"
  /\ UNCHANGED <<config, digest, sample, global_common, replica_sets>>

\* What a bug would do that runs over the last replica.
KeepReplicaInclusive ==
  /\ stage = "replica"
  /\ Sampled
  /\ replica_sets' = [replica_sets EXCEPT ![at] = bases[ClusterOf(at)] \cup sample]
  /\ IF at \in Replica THEN at' = at + 1 /\ pc' = "ask"
     ELSE pc' = "done" /\ UNCHANGED at
  /\ UNCHANGED <<config, digest, stage, sample, global_common, bases>>

KeepReplica ==
  /\ stage = "replica"
  /\ Sampled
  /\ replica_sets' = [replica_sets EXCEPT ![at] = bases[ClusterOf(at)] \cup sample]
  /\ IF at + 1 \in Replica THEN at' = at + 1 /\ pc' = "ask"
     ELSE pc' = "done" /\ UNCHANGED at
  /\ UNCHANGED <<config, digest, stage, sample, global_common, bases>>

Returned == pc = "done" /\ UNCHANGED vars

Next ==
  \/ Ask
  \/ \E i \in Index : Draw(i)
  \/ KeepCommon
  \/ KeepShared
  \/ KeepReplica
  \/ Returned

Safety == Init /\ [][Next]_vars

\* Every index has a positive weight, so that some draw changes the sample in
\* the end if any can; draws that change nothing are stuttering.
Spec == Safety /\ WF_vars(Next)

-----------------------------------------------------------------------------

TypeOK ==
  /\ config \in UniformConfig \cup ClusteredConfig
  /\ digest \in [Index -> Digest]
  /\ stage \in {"common", "cluster", "replica"}
  /\ at \in Replica
  /\ pc \in {"ask", "draw", "done", "panic"}
  /\ sample \in SUBSET Digest
  /\ global_common \in SUBSET Digest
  /\ bases \in [Clusters -> SUBSET Digest]
  /\ replica_sets \in [Replica -> SUBSET Digest]

\* Every replica starts with exactly set_size elements, which is what the
\* rest of the program takes a workload to be: the parts that it is put
\* together from do not overlap, and their rounded sizes add up.
ExactSizes ==
  pc = "done" => \A r \in Replica : Cardinality(replica_sets[r]) = config.set_size

\* The assertion never fires once validate_config has passed.
NeverExhausted == pc # "panic"

\* The similarity that a pair of replicas is configured to have.
Similarity(r, s) ==
  CASE config.pattern = "Uniform" -> config.jaccard_similarity
    [] config.pattern = "Clustered" /\ (r - s) % config.cluster_count = 0 ->
         config.jaccard_intra
    [] OTHER -> config.jaccard_inter

\* Any two replicas are as similar as configured, up to the rounding of one
\* size: their Jaccard index is at least that similarity less 1/set_size.  It
\* may be larger, since replicas draw their own elements independently.
AsSimilar ==
  pc = "done" => \A r, s \in Replica :
    LET shared == Cardinality(replica_sets[r] \cap replica_sets[s])
        all == Cardinality(replica_sets[r] \cup replica_sets[s])
    IN  shared * Den * config.set_size
          >= (Similarity(r, s) * config.set_size - Den) * all

\* What the generator maintains: each part has its size, and the sample at
\* hand keeps clear of the part it is to be added to.
SizesInv ==
  /\ pc = "done" => stage = "replica"
  /\ stage = "common" => at = 0
  /\ stage = "cluster" => config.pattern = "Clustered" /\ at \in Clusters
  /\ stage # "common" => Cardinality(global_common) = GlobalSize
  /\ stage = "cluster" => \A k \in Clusters :
       IF k < at THEN Cardinality(bases[k]) = GlobalSize + SharedSize
       ELSE bases[k] = global_common
  /\ stage = "replica" => \A k \in Clusters :
       Cardinality(bases[k]) = GlobalSize + SharedSize
  /\ pc = "draw" => sample \cap Exclude = {} /\ Cardinality(sample) <= Count
  /\ stage = "replica" => \A r \in Replica :
       r < at \/ pc = "done" => Cardinality(replica_sets[r]) = config.set_size

SizedInv == TypeOK /\ SizesInv /\ NeverExhausted

\* Nothing that was put into a part is lost from what is built on it: the
\* common elements are in every base, and a base is in every replica of its
\* cluster.  This is what makes two replicas similar.
PartsInv ==
  /\ stage # "common" => \A k \in Clusters : global_common \subseteq bases[k]
  /\ stage = "replica" => \A r \in Replica :
       r < at \/ pc = "done" => bases[ClusterOf(r)] \subseteq replica_sets[r]

IInv == SizedInv /\ PartsInv

\* Given as many distinct digests as a replica has elements, the generator
\* returns, however many replicas there are.
ReturnsIfDistinct ==
  Cardinality({digest[i] : i \in Index}) >= config.set_size => <>(pc = "done")

\* The generator returns or panics: the assertion "cannot sample {} unique
\* elements from only {} available" is all that sampling needs.
Returns == <>(pc \in {"done", "panic"})

=============================================================================
