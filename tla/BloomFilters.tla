---------------------------- MODULE BloomFilters ----------------------------
(***************************************************************************)
(* The Bloom filters of bloom.rs and rateless_bloom.rs at work in a        *)
(* recv_phase.  A static filter splits the receiver's set at once.  The    *)
(* rateless one is extended slice by slice, each with hash functions of    *)
(* its own, until ExpectedCost finds that a slice was not worth its bits.  *)
(*                                                                         *)
(* The hash functions are any functions.  A filter is kept as the set of   *)
(* the elements that it contains: its bits are set when it is built, and   *)
(* not changed any more.                                                   *)
(***************************************************************************)
EXTENDS Filters, Sequences

CONSTANTS
  Word,        \* where hash arithmetic wraps (2^64 in the code)
  Hash,        \* the hash values that occur
  Hashes,      \* hash functions of the static filter (7 in the code)
  MaxSlices    \* a bound of the model: no slice is added beyond it

ASSUME BloomAssumption ==
  /\ Word \in Nat \ {0}
  /\ Hash \subseteq 0 .. Word - 1
  /\ Hashes \in Nat \ {0}
  /\ MaxSlices \in Nat

VARIABLES
  kind,             \* which filter the protocol sends
  data,             \* the sender's elements, which the filter is built from
  elements,         \* the receiver's
  bloom_filters,    \* the slices so far
  positives,        \* ExpectedCost::positives, or candidate_positives
  negatives,        \* ExpectedCost::negatives, or confirmed_local_only
  new_negatives,    \* what the last slice ruled out, None before the first
  pc

vars == <<kind, data, elements, bloom_filters, positives, negatives,
          new_negatives, pc>>

None == -1

-----------------------------------------------------------------------------

\* The bits of an element with the pair h of hashes, k in a filter of m bits.
Bits(h, k, m) == {((h[1] + i * h[2]) % Word) % m : i \in 0 .. k - 1}

\* What a bug would do that flips the bits of an element instead of setting
\* them.
FilterOfFlippedBits(els, bits) ==
  {e \in Element :
     \A b \in bits[e] : Cardinality({d \in els : b \in bits[d]}) % 2 = 1}

\* What a filter contains when els have been inserted.
FilterOf(els, bits) ==
  {e \in Element : bits[e] \subseteq UNION {bits[d] : d \in els}}

-----------------------------------------------------------------------------

Init ==
  /\ kind \in {"static", "rateless"}
  /\ data \in SUBSET Element \ {{}}
  /\ elements \in SUBSET Element \ {{}}
  /\ bloom_filters = <<>>
  /\ positives = elements
  /\ negatives = {}
  /\ new_negatives = None
  /\ pc = IF kind = "static" THEN "classify" ELSE "extend"

\* The receiver's loop over its digests, against a static filter.
Classify ==
  LET m == BloomBits(Cardinality(data)) IN
  /\ pc = "classify"
  /\ \E bits \in [Element -> {Bits(h, Hashes, m) : h \in Hash \X Hash}] :
       /\ positives' = elements \cap FilterOf(data, bits)
       /\ negatives' = elements \ FilterOf(data, bits)
  /\ pc' = "done"
  /\ UNCHANGED <<kind, data, elements, bloom_filters, new_negatives>>

\* extend(): with one hash function an element has one bit, which may be any.
Extend ==
  LET m == SliceBits(Cardinality(data)) IN
  /\ pc = "extend"
  /\ Len(bloom_filters) < MaxSlices
  /\ \E bit \in [Element -> 0 .. m - 1] :
       bloom_filters' = Append(bloom_filters,
                               FilterOf(data, [e \in Element |-> {bit[e]}]))
  /\ pc' = "on_extend"
  /\ UNCHANGED <<kind, data, elements, positives, negatives, new_negatives>>

LastSlice == bloom_filters[Len(bloom_filters)]

\* What a bug would do that keeps the count of all that is ruled out.
OnExtendCountingAll ==
  /\ pc = "on_extend"
  /\ positives' = positives \cap LastSlice
  /\ negatives' = negatives \cup (positives \ LastSlice)
  /\ new_negatives' = Cardinality(negatives')
  /\ pc' = "should_stop"
  /\ UNCHANGED <<kind, data, elements, bloom_filters>>

\* What a bug would do that forgets what earlier slices ruled out.
OnExtendReplacing ==
  /\ pc = "on_extend"
  /\ positives' = positives \cap LastSlice
  /\ negatives' = positives \ LastSlice
  /\ new_negatives' = Cardinality(negatives')
  /\ pc' = "should_stop"
  /\ UNCHANGED <<kind, data, elements, bloom_filters>>

\* ExpectedCost::on_extend.
OnExtend ==
  /\ pc = "on_extend"
  /\ positives' = positives \cap LastSlice
  /\ negatives' = negatives \cup (positives \ LastSlice)
  /\ new_negatives' = Cardinality(positives \ LastSlice)
  /\ pc' = "should_stop"
  /\ UNCHANGED <<kind, data, elements, bloom_filters>>

StopAt == Threshold(Cardinality(elements), Cardinality(data))

\* ExpectedCost::should_stop.  (Its answer for None is never asked for.)
ShouldStop ==
  /\ pc = "should_stop"
  /\ pc' = IF new_negatives >= StopAt THEN "extend" ELSE "done"
  /\ UNCHANGED <<kind, data, elements, bloom_filters, positives, negatives,
                 new_negatives>>

\* The call has returned, or the bound of the model is reached.
Halted ==
  /\ pc \in {"done", "extend"}
  /\ pc = "extend" => Len(bloom_filters) >= MaxSlices
  /\ UNCHANGED vars

Next == Classify \/ Extend \/ OnExtend \/ ShouldStop \/ Halted

Safety == Init /\ [][Next]_vars

Spec == Safety /\ WF_vars(Next)

-----------------------------------------------------------------------------

TypeOK ==
  /\ kind \in {"static", "rateless"}
  /\ data \in SUBSET Element
  /\ elements \in SUBSET Element
  /\ bloom_filters \in Seq(SUBSET Element)
  /\ positives \in SUBSET elements
  /\ negatives \in SUBSET elements
  /\ new_negatives \in Nat \cup {None}
  /\ pc \in {"classify", "extend", "on_extend", "should_stop", "done"}
  /\ kind = "static" => bloom_filters = <<>> /\ pc \in {"classify", "done"}
  /\ kind = "rateless" => pc # "classify"

\* Each slice contains what it was built from, so no shared element is ever
\* ruled out, and each element is on one side.
SplitInv ==
  /\ \A i \in DOMAIN bloom_filters : data \subseteq bloom_filters[i]
  /\ negatives = elements \ positives
  /\ elements \cap data \subseteq positives

\* Every slice but the last has ruled out at least the threshold.
SlicesInv ==
  LET s     == Len(bloom_filters)
      ruled == Cardinality(negatives)
  IN  kind = "rateless" =>
        /\ pc \in {"on_extend", "should_stop", "done"} => s >= 1
        /\ pc = "extend" => s * StopAt <= ruled /\ (s = 0 => ruled = 0)
        /\ s >= 1 /\ pc # "extend" => (s - 1) * StopAt <= ruled
        /\ pc = "on_extend" /\ s = 1 => ruled = 0
        /\ pc = "should_stop" =>
             /\ new_negatives \in Nat
             /\ s = 1 => ruled = new_negatives
             /\ (s - 1) * StopAt + new_negatives <= ruled
        /\ pc = "done" => StopAt > 0 /\ (s = 1 => ruled < StopAt)

\* The inductive invariant: the two sides partition the receiver's set with
\* all shared elements on the right one, and the slices have been worth it.
FilterInv == TypeOK /\ SplitInv /\ SlicesInv

Outcome ==
  IF pc = "done"
  THEN [positives |-> positives, negatives |-> negatives,
        slices |-> Len(bloom_filters)]
  ELSE [positives |-> {}, negatives |-> {}, slices |-> -1]

Promise == INSTANCE Filtering WITH
  set <- elements, els <- data, outcome <- Outcome

\* Whatever the hash functions, a filter does to a receiver's set no more
\* than the protocols are modelled to cope with: what both sides hold always
\* passes, the rest is split in two, and the number of slices, which is what
\* gets billed, is one that the stopping rule allows for what was ruled out.
FiltersAsPromised == Promise!Spec

\* extend_until returns exactly when the threshold is not zero, however the
\* hash functions turn out; a static filter always does.
Stops == kind = "static" \/ StopAt > 0

ReturnsExactly ==
  /\ Stops => <>(pc = "done")
  /\ ~Stops => [](pc # "done")

=============================================================================
