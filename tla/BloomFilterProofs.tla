------------------------- MODULE BloomFilterProofs --------------------------
(***************************************************************************)
(* A Bloom filter keeps its promise to the protocols, for all sets, hash   *)
(* functions, sizes and costs of a coded symbol.                           *)
(***************************************************************************)
EXTENDS BloomFilters, FiniteSetTheorems, TLAPS

\* Sets of elements are finite.
LEMMA ElementsFinite ==
  ASSUME NEW S \in SUBSET Element
  PROVE  IsFiniteSet(S) /\ Cardinality(S) \in Nat
BY FiltersAssumption, FS_Subset, FS_CardinalityType

\* Rounding up gives a natural number.
LEMMA CeilDivType ==
  ASSUME NEW a \in Nat, NEW b \in Nat, b > 0
  PROVE  CeilDiv(a, b) \in Nat
<1>1. a + b - 1 \in Nat OBVIOUS
<1>2. QED BY <1>1 DEF CeilDiv

\* The stopping threshold is a natural number.
LEMMA StopAtType == TypeOK => StopAt \in Nat
<1> SUFFICES ASSUME TypeOK PROVE StopAt \in Nat OBVIOUS
<1> DEFINE l == Cardinality(elements)
           n == Cardinality(data)
<1>1. l \in Nat /\ n \in Nat BY ElementsFinite DEF TypeOK
<1> HIDE DEF l, n
<1>2. OverheadBits \in Nat /\ OverheadBits > 0 BY FiltersAssumption
<1>3. CeilDiv(n, 2) \in Nat BY <1>1, CeilDivType
<1>4. SliceBits(n) \in Nat BY <1>2, <1>3 DEF SliceBits
<1>5. AtLeastOne(n) \in Nat /\ AtLeastOne(n) > 0 BY <1>1 DEF AtLeastOne
<1>6. l * SliceBits(n) \in Nat BY <1>1, <1>4
<1>7. CeilDiv(l * SliceBits(n), AtLeastOne(n)) \in Nat
  BY <1>5, <1>6, CeilDivType
<1>8. CeilDiv(l * SliceBits(n), AtLeastOne(n)) \div OverheadBits \in Nat
  BY <1>2, <1>7
<1>9. QED BY <1>8 DEF StopAt, Threshold, l, n

\* A filter contains what it was built from.
LEMMA NoFalseNegatives ==
  ASSUME NEW els \in SUBSET Element, NEW bits
  PROVE  FilterOf(els, bits) \in SUBSET Element /\ els \subseteq FilterOf(els, bits)
BY DEF FilterOf

\* One more slice adds one more threshold.
LEMMA OneMore ==
  ASSUME NEW s \in Nat, NEW t \in Nat
  PROVE  (s + 1) * t = s * t + t /\ s * t \in Nat
OBVIOUS

\* The two sides add up.
LEMMA RuledAdds ==
  ASSUME NEW A \in SUBSET Element, NEW B \in SUBSET Element, A \cap B = {}
  PROVE  Cardinality(A \cup B) = Cardinality(A) + Cardinality(B)
<1>1. IsFiniteSet(A) /\ IsFiniteSet(B) BY ElementsFinite
<1>2. Cardinality(A \cup B)
        = Cardinality(A) + Cardinality(B) - Cardinality(A \cap B)
  BY <1>1, FS_Union
<1>3. Cardinality(A \cap B) = 0 BY FS_EmptySet
<1>4. Cardinality(A) \in Nat /\ Cardinality(B) \in Nat BY ElementsFinite
<1>5. QED BY <1>2, <1>3, <1>4

-----------------------------------------------------------------------------
(* The invariant                                                            *)

LEMMA InitInv == Init => FilterInv
<1> SUFFICES ASSUME Init PROVE FilterInv OBVIOUS
<1>1. TypeOK BY DEF Init, TypeOK
<1>2. SplitInv BY DEF Init, SplitInv
<1>3. SlicesInv
  <2>1. StopAt \in Nat BY <1>1, StopAtType
  <2>2. Len(bloom_filters) = 0 BY DEF Init
  <2>3. Cardinality(negatives) = 0 BY FS_EmptySet DEF Init
  <2>4. kind = "rateless" => pc = "extend" BY DEF Init
  <2>5. QED BY <2>1, <2>2, <2>3, <2>4 DEF SlicesInv
<1>4. QED BY <1>1, <1>2, <1>3 DEF FilterInv

LEMMA ClassifyInv == FilterInv /\ Classify => FilterInv'
<1> SUFFICES ASSUME FilterInv, Classify PROVE FilterInv' OBVIOUS
<1> USE DEF FilterInv
<1>1. PICK bits :
        /\ positives' = elements \cap FilterOf(data, bits)
        /\ negatives' = elements \ FilterOf(data, bits)
  BY DEF Classify
<1>2. data \subseteq FilterOf(data, bits) BY NoFalseNegatives DEF TypeOK
<1>3. kind = "static" BY DEF Classify, TypeOK
<1>4. TypeOK' BY <1>1, <1>3 DEF Classify, TypeOK
<1>5. SplitInv' BY <1>1, <1>2 DEF Classify, SplitInv
<1>6. SlicesInv' BY <1>3 DEF Classify, SlicesInv
<1>7. QED BY <1>4, <1>5, <1>6

LEMMA ExtendInv == FilterInv /\ Extend => FilterInv'
<1> SUFFICES ASSUME FilterInv, Extend PROVE FilterInv' OBVIOUS
<1> USE DEF FilterInv
<1>1. PICK slice \in SUBSET Element :
        data \subseteq slice /\ bloom_filters' = Append(bloom_filters, slice)
  <2>1. PICK bit : bloom_filters' = Append(bloom_filters,
                         FilterOf(data, [e \in Element |-> {bit[e]}]))
    BY DEF Extend
  <2>2. QED BY <2>1, NoFalseNegatives DEF TypeOK
<1>2. /\ bloom_filters \in Seq(SUBSET Element)
      /\ pc' = "on_extend" /\ pc = "extend" /\ kind = "rateless"
      /\ UNCHANGED <<kind, data, elements, positives, negatives, new_negatives>>
  BY DEF Extend, TypeOK
<1>3. /\ bloom_filters' \in Seq(SUBSET Element)
      /\ Len(bloom_filters') = Len(bloom_filters) + 1
      /\ Len(bloom_filters) \in Nat
      /\ \A i \in DOMAIN bloom_filters' :
           bloom_filters'[i] = slice \/ /\ i \in DOMAIN bloom_filters
                                        /\ bloom_filters'[i] = bloom_filters[i]
  BY <1>1, <1>2
<1>4. TypeOK' BY <1>2, <1>3 DEF TypeOK
<1>5. SplitInv' BY <1>1, <1>2, <1>3 DEF SplitInv
<1>6. SlicesInv'
  <2> DEFINE s == Len(bloom_filters)
             r == Cardinality(negatives)
  <2>1. StopAt \in Nat /\ StopAt' = StopAt BY <1>2, StopAtType DEF StopAt
  <2>2. s * StopAt <= r BY <1>2 DEF SlicesInv
  <2>3. (s + 1) - 1 = s /\ s + 1 >= 1 BY <1>3
  <2>4. s + 1 = 1 => r = 0
    BY <1>2, <1>3 DEF SlicesInv
  <2>5. QED BY <1>2, <1>3, <2>1, <2>2, <2>3, <2>4 DEF SlicesInv
<1>7. QED BY <1>4, <1>5, <1>6

\* How the elements that the last slice rules out change the counts.
LEMMA OnExtendInv == FilterInv /\ OnExtend => FilterInv'
<1> SUFFICES ASSUME FilterInv, OnExtend PROVE FilterInv' OBVIOUS
<1> USE DEF FilterInv
<1> DEFINE s == Len(bloom_filters)
           new == positives \ LastSlice
<1>1. /\ pc = "on_extend" /\ pc' = "should_stop" /\ kind = "rateless"
      /\ UNCHANGED <<kind, data, elements, bloom_filters>>
      /\ positives' = positives \cap LastSlice
      /\ negatives' = negatives \cup new
      /\ new_negatives' = Cardinality(new)
  BY DEF OnExtend, TypeOK
<1>2. s \in Nat /\ s >= 1 BY <1>1 DEF TypeOK, SlicesInv
<1>3. LastSlice \in SUBSET Element /\ data \subseteq LastSlice
  BY <1>2 DEF LastSlice, TypeOK, SplitInv
<1>4. new \in SUBSET elements /\ new \in SUBSET Element /\ negatives \cap new = {}
  BY DEF TypeOK, SplitInv
<1>5. Cardinality(new) \in Nat BY <1>4, ElementsFinite
<1>6. TypeOK' BY <1>1, <1>4, <1>5 DEF TypeOK
<1>7. SplitInv' BY <1>1, <1>3 DEF SplitInv, TypeOK
<1>8. SlicesInv'
  <2>1. StopAt \in Nat /\ StopAt' = StopAt BY <1>1, StopAtType DEF StopAt
  <2>2. negatives \in SUBSET Element BY DEF TypeOK
  <2>3. /\ Cardinality(negatives') = Cardinality(negatives) + Cardinality(new)
        /\ Cardinality(negatives) \in Nat
    BY <1>1, <1>4, <2>2, RuledAdds, ElementsFinite
  <2>4. (s - 1) * StopAt <= Cardinality(negatives)
    BY <1>1, <1>2 DEF SlicesInv
  <2>5. s = 1 => Cardinality(negatives) = 0 BY <1>1 DEF SlicesInv
  <2>6. (s - 1) * StopAt \in Nat
    <3>1. s - 1 \in Nat BY <1>2
    <3>2. QED BY <2>1, <3>1
  <2> HIDE DEF new
  <2>7. (s - 1) * StopAt + new_negatives' <= Cardinality(negatives')
    BY <1>1, <1>5, <2>3, <2>4, <2>6
  <2>8. (s - 1) * StopAt <= Cardinality(negatives')
    BY <1>5, <2>3, <2>4, <2>6
  <2>9. s = 1 => Cardinality(negatives') = new_negatives'
    BY <1>1, <1>5, <2>3, <2>5
  <2>10. QED BY <1>1, <1>2, <1>5, <2>1, <2>7, <2>8, <2>9 DEF SlicesInv
<1>9. QED BY <1>6, <1>7, <1>8

LEMMA ShouldStopInv == FilterInv /\ ShouldStop => FilterInv'
<1> SUFFICES ASSUME FilterInv, ShouldStop PROVE FilterInv' OBVIOUS
<1> USE DEF FilterInv
<1> DEFINE s == Len(bloom_filters)
           r == Cardinality(negatives)
<1>1. /\ pc = "should_stop" /\ kind = "rateless"
      /\ pc' = IF new_negatives >= StopAt THEN "extend" ELSE "done"
      /\ UNCHANGED <<kind, data, elements, bloom_filters, positives, negatives,
                     new_negatives>>
  BY DEF ShouldStop, TypeOK
<1>2. TypeOK' BY <1>1 DEF TypeOK
<1>3. SplitInv' BY <1>1 DEF SplitInv
<1>4. SlicesInv'
  <2>1. StopAt \in Nat /\ StopAt' = StopAt BY <1>1, StopAtType DEF StopAt
  <2>2. /\ s >= 1 /\ new_negatives \in Nat
        /\ s = 1 => r = new_negatives
        /\ (s - 1) * StopAt <= r
        /\ (s - 1) * StopAt + new_negatives <= r
    BY <1>1 DEF SlicesInv
  <2>3. s \in Nat /\ s - 1 \in Nat BY <2>2 DEF TypeOK
  <2>4. r \in Nat BY ElementsFinite DEF TypeOK
  <2>5. s * StopAt = (s - 1) * StopAt + StopAt /\ (s - 1) * StopAt \in Nat
    <3>1. (s - 1) + 1 = s BY <2>3
    <3>2. QED BY <2>1, <2>3, <3>1, OneMore
  <2> HIDE DEF s, r
  <2>6. CASE new_negatives >= StopAt
    <3>1. s * StopAt <= r BY <2>1, <2>2, <2>4, <2>5, <2>6
    <3>2. pc' = "extend" /\ s # 0 BY <1>1, <2>2, <2>6
    <3>3. QED BY <1>1, <2>1, <2>2, <3>1, <3>2 DEF SlicesInv, s, r
  <2>7. CASE ~(new_negatives >= StopAt)
    <3>1. pc' = "done" BY <1>1, <2>7
    <3>2. StopAt > 0 /\ new_negatives < StopAt BY <2>1, <2>2, <2>7
    <3>3. QED BY <1>1, <2>1, <2>2, <3>1, <3>2 DEF SlicesInv, s, r
  <2>8. QED BY <2>6, <2>7
<1>5. QED BY <1>2, <1>3, <1>4

\* The inductive invariant holds: for all hash functions, the receiver's set
\* stays split in two, what is shared stays on the passing side, and the
\* slices have each ruled out the threshold.
THEOREM FilterInvariant == Safety => []FilterInv
<1>1. Init => FilterInv BY InitInv
<1>2. FilterInv /\ [Next]_vars => FilterInv'
  <2> SUFFICES ASSUME FilterInv, [Next]_vars PROVE FilterInv' OBVIOUS
  <2>1. CASE Classify BY <2>1, ClassifyInv
  <2>2. CASE Extend BY <2>2, ExtendInv
  <2>3. CASE OnExtend BY <2>3, OnExtendInv
  <2>4. CASE ShouldStop BY <2>4, ShouldStopInv
  <2>5. CASE UNCHANGED vars
    BY <2>5 DEF FilterInv, TypeOK, SplitInv, SlicesInv, StopAt, vars
  <2>6. QED BY <2>1, <2>2, <2>3, <2>4, <2>5 DEF Next, Halted
<1>3. QED BY <1>1, <1>2, PTL DEF Safety

-----------------------------------------------------------------------------
(* The refinement                                                           *)

\* With a positive threshold the slices are bounded by what they ruled out.
LEMMA SlicesBounded ==
  ASSUME FilterInv, pc = "done", kind = "rateless"
  PROVE  Len(bloom_filters) \in SliceCounts(Cardinality(negatives), StopAt)
<1> DEFINE s == Len(bloom_filters)
           r == Cardinality(negatives)
<1>1. /\ s >= 1 /\ (s - 1) * StopAt <= r
      /\ StopAt > 0 /\ (s = 1 => r < StopAt)
  BY DEF FilterInv, SlicesInv
<1>2. s \in Nat /\ s - 1 \in Nat BY <1>1 DEF FilterInv, TypeOK
<1>3. r \in Nat BY ElementsFinite DEF FilterInv, TypeOK
<1>4. StopAt \in Nat BY StopAtType DEF FilterInv
<1> HIDE DEF s, r
<1>5. s - 1 <= (s - 1) * StopAt
  <2>1. PICK k \in Nat : StopAt = k + 1
    <3>1. StopAt - 1 \in Nat /\ StopAt = (StopAt - 1) + 1 BY <1>1, <1>4
    <3>2. QED BY <3>1
  <2>2. (s - 1) * (k + 1) = (s - 1) * k + (s - 1) /\ (s - 1) * k \in Nat
    BY <1>2
  <2>3. QED BY <1>2, <2>1, <2>2
<1>6. (s - 1) * StopAt \in Nat BY <1>2, <1>4
<1>7. s \in 1 .. r + 1 BY <1>1, <1>2, <1>3, <1>5, <1>6
<1>8. QED BY <1>1, <1>7 DEF SliceCounts, s, r

\* The abstract specification speaks of the same filters.
LEMMA SameFilters ==
  /\ Promise!Positives(elements, data) = Positives(elements, data)
  /\ Promise!FilterOutcomes(elements, data) = FilterOutcomes(elements, data)
<1>1. \A A, B : Promise!Positives(A, B) = Positives(A, B)
  BY DEF Positives, Promise!Positives
<1>2. \A n : Promise!SliceBits(n) = SliceBits(n)
  BY DEF SliceBits, CeilDiv, Promise!SliceBits, Promise!CeilDiv
<1>3. \A l, n : Promise!Threshold(l, n) = Threshold(l, n)
  BY <1>2 DEF Threshold, CeilDiv, AtLeastOne, Promise!Threshold,
              Promise!CeilDiv, Promise!AtLeastOne
<1>4. \A r, t : Promise!SliceCounts(r, t) = SliceCounts(r, t)
  BY DEF SliceCounts, Promise!SliceCounts
<1>5. QED BY <1>1, <1>3, <1>4, Zenon
         DEF FilterOutcomes, Promise!FilterOutcomes, Cardinality, Promise!Cardinality

Allowed ==
  \E f \in Promise!Promised :
    /\ f.positives = positives /\ elements \ f.positives = negatives
    /\ f.slices = Len(bloom_filters)

\* When the filter is done, its outcome is one that the protocols allow for.
LEMMA OutcomeAllowed ==
  ASSUME FilterInv, pc = "done"
  PROVE  Allowed
<1> USE DEF Allowed
<1>1. positives \in Positives(elements, data) /\ negatives = elements \ positives
  BY DEF FilterInv, SplitInv, TypeOK, Positives
<1> DEFINE f == [positives |-> positives, slices |-> Len(bloom_filters)]
<1>2. CASE kind = "static"
  <2>1. Len(bloom_filters) = 0 BY <1>2 DEF FilterInv, TypeOK
  <2>2. f \in [positives : Positives(elements, data), slices : {0}]
    BY <1>1, <2>1
  <2>3. f \in Promise!Promised BY <1>2, <2>2, SameFilters DEF Promise!Promised
  <2>4. QED BY <1>1, <2>3
<1>3. CASE kind # "static"
  <2>1. kind = "rateless" BY <1>3 DEF FilterInv, TypeOK
  <2>2. Len(bloom_filters) \in SliceCounts(Cardinality(elements \ positives), StopAt)
    BY <1>1, <2>1, SlicesBounded
  <2>3. f \in [positives : {positives},
               slices : SliceCounts(Cardinality(elements \ positives), StopAt)]
    BY <2>2
  <2>4. f \in FilterOutcomes(elements, data)
    BY <1>1, <2>3 DEF FilterOutcomes, StopAt
  <2>5. f \in Promise!Promised BY <1>3, <2>4, SameFilters DEF Promise!Promised
  <2>6. QED BY <1>1, <2>5
<1>4. QED BY <1>2, <1>3

\* Whatever the hash functions, what a filter makes of a receiver's set is
\* what the protocols are modelled to cope with, in one step: the detailed
\* filters implement the abstract ones.
THEOREM FilterRefines == Safety => FiltersAsPromised
<1>1. Init => Promise!Init
  BY DEF Init, Promise!Init, Outcome, Promise!NotYet
<1>2. FilterInv => (pc = "done" => Allowed) BY OutcomeAllowed
<1>3. (pc = "done" => Allowed)' /\ [Next]_vars => [Promise!Next]_Promise!vars
  <2> SUFFICES ASSUME pc' = "done" => Allowed', [Next]_vars
               PROVE  [Promise!Next]_Promise!vars
    OBVIOUS
  <2>1. UNCHANGED <<kind, data, elements>>
    BY DEF Next, Classify, Extend, OnExtend, ShouldStop, Halted, vars
  <2>2. CASE pc # "done" /\ pc' = "done"
    <3>1. PICK f \in Promise!Promised' :
            /\ f.positives = positives' /\ elements' \ f.positives = negatives'
            /\ f.slices = Len(bloom_filters')
      BY <2>2 DEF Allowed
    <3>2. f \in Promise!Promised BY <2>1, <3>1 DEF Promise!Promised
    <3>3. Outcome = Promise!NotYet BY <2>2 DEF Outcome, Promise!NotYet
    <3>4. Outcome' = Promise!Split(f)
      BY <2>1, <2>2, <3>1 DEF Outcome, Promise!Split
    <3>5. QED BY <2>1, <3>2, <3>3, <3>4 DEF Promise!Next
  <2>3. CASE pc = "done"
    <3>1. UNCHANGED vars
      BY <2>3 DEF Next, Classify, Extend, OnExtend, ShouldStop, Halted
    <3>2. Outcome' = Outcome BY <3>1 DEF vars, Outcome
    <3>3. QED BY <2>1, <3>2 DEF Promise!vars
  <2>4. CASE pc # "done" /\ pc' # "done"
    <3>1. Outcome' = Outcome BY <2>4 DEF Outcome
    <3>2. QED BY <2>1, <3>1 DEF Promise!vars
  <2>5. QED BY <2>2, <2>3, <2>4
<1>4. QED BY <1>1, <1>2, <1>3, FilterInvariant, PTL
      DEF Safety, FiltersAsPromised, Promise!Spec

=============================================================================
