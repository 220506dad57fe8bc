------------------------------ MODULE Filters -------------------------------
(***************************************************************************)
(* Bloom filters, static and rateless: their sizes, what an element sets   *)
(* and looks up, when the rateless one stops growing, and what either may  *)
(* make of a receiver's set.  BloomFilters shows that the code's filters   *)
(* make no more of it than FilterOutcomes and Positives say.               *)
(***************************************************************************)
EXTENDS FiniteSets, Integers

CONSTANTS
  Element,        \* the universe of set elements
  OverheadBits    \* RATELESS_SET_RECONCILIATION_OVERHEAD * 8 (320 in the code)

ASSUME FiltersAssumption == IsFiniteSet(Element) /\ OverheadBits \in Nat \ {0}

CeilDiv(a, b) == (a + b - 1) \div b

AtLeastOne(n) == IF n = 0 THEN 1 ELSE n

-----------------------------------------------------------------------------
(* Sizes in bits.                                                           *)

\* the static filter: -n ln(0.01) / (ln 2)^2, to five decimals
BloomBits(n) == CeilDiv(AtLeastOne(n) * 958506, 100000)

\* What a bug would do that takes the requested ratio as it is.
SliceBitsUnclamped(n) == CeilDiv(n, 2)

\* one slice of the rateless filter: m_ratio = 1/2, at least one sketch
\* symbol's worth so that the stopping threshold is not zero
SliceBits(n) ==
  IF CeilDiv(n, 2) > OverheadBits THEN CeilDiv(n, 2) ELSE OverheadBits

-----------------------------------------------------------------------------
(* The stopping rule of the rateless filter.                                *)

\* What a bug would do that rounds the rescaled slice down.
ThresholdRoundedDown(local, sender) ==
  ((local * SliceBits(sender)) \div AtLeastOne(sender)) \div OverheadBits

\* ExpectedCost stops when a slice rules out fewer elements than this: the
\* slice rescaled to the receiver's size, over the cost of one symbol.  (The
\* code rescales in f64, which can only raise an exact quotient by one.)
Threshold(local, sender) ==
  CeilDiv(local * SliceBits(sender), AtLeastOne(sender)) \div OverheadBits

-----------------------------------------------------------------------------
(* What a filter built from els may do to a receiver's set.                 *)

\* The receiver's elements that may pass: all it shares with the sender, and
\* any false positives.
Positives(set, els) == {P \in SUBSET set : set \cap els \subseteq P}

\* Numbers of slices after which ruled_out elements are gone in total: each
\* slice but the last took at least the threshold, the last one fewer.
SliceCounts(ruled_out, threshold) ==
  {s \in 1 .. ruled_out + 1 : /\ (s - 1) * threshold <= ruled_out
                              /\ s = 1 => ruled_out < threshold}

\* What extend_until may return: the elements that passed every slice, and
\* the number of slices.  Where the threshold is zero it does not return.
FilterOutcomes(set, els) ==
  UNION {[positives : {P},
          slices : SliceCounts(Cardinality(set \ P),
                               Threshold(Cardinality(set), Cardinality(els)))] :
         P \in Positives(set, els)}

=============================================================================
