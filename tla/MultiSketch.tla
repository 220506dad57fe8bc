---------------------------- MODULE MultiSketch -----------------------------
(***************************************************************************)
(* The multiparty sketch of multiparty_sketch.rs: sketches of several sets *)
(* are added and subtracted, and what is left is decoded by peeling.       *)
(*                                                                         *)
(* The two field sums of a cell, of digests and of their hashes, are kept  *)
(* as the coefficient of each element in them, a residue.  This is exact   *)
(* unless two different sums happen to agree in both.  Cells are numbered  *)
(* from 1.                                                                 *)
(***************************************************************************)
EXTENDS Field, Sequences, FiniteSets, Functions, FiniteSetsExt

CONSTANTS
  Element,      \* digests, below P
  Sizes,        \* lengths of sketches
  MaxCopies     \* a bound of the model: copies of an element, either sign

ASSUME SketchAssumption ==
  /\ IsFiniteSet(Element)
  /\ Sizes \subseteq Nat /\ IsFiniteSet(Sizes) /\ Sizes # {}
  /\ MaxCopies \in Nat
  /\ MaxCopies * Cardinality(Element) < P

VARIABLES
  mapping,       \* the cells of each element (SymbolMapping), of the longest
  cells,         \* MSketch::cells
  net,           \* history: copies of each element added, less those removed
  work,          \* try_decode's copy of the cells
  remote_only,
  changed,
  at,            \* the cell its scan has come to
  answer,        \* what it returned
  pc

decoding == <<work, remote_only, changed, at, answer>>

vars == <<mapping, cells, net, decoding, pc>>

MaxSize == CHOOSE n \in Sizes : \A m \in Sizes : m <= n

\* Every element is mapped to the first cell.
Mapping == {S \in SUBSET (1 .. MaxSize) : MaxSize > 0 => 1 \in S}

Cell == [sum : [Element -> Residue], count : Int]

EmptyCell == [sum |-> [e \in Element |-> 0], count |-> 0]

NoAnswer == [some |-> FALSE, list |-> <<>>]

Some(list) == [some |-> TRUE, list |-> list]

-----------------------------------------------------------------------------
(* Building and combining sketches                                          *)

NewSketch(size) == [j \in 1 .. size |-> EmptyCell]

Encoded(sketch, e, sign) ==
  [j \in DOMAIN sketch |->
     IF j \notin mapping[e] THEN sketch[j]
     ELSE IF sign > 0
     THEN [sum |-> [sketch[j].sum EXCEPT ![e] = Fadd(@, 1)],
           count |-> sketch[j].count + 1]
     ELSE [sum |-> [sketch[j].sum EXCEPT ![e] = Fsub(@, 1)],
           count |-> sketch[j].count - 1]]

\* A sketch of its own, of elements inserted and removed (build_sketch inserts
\* a replica's).
BuildSketch(copies, size) ==
  FoldSet(LAMBDA e, sketch : Encoded(sketch, e, copies[e]), NewSketch(size),
          {e \in Element : copies[e] # 0})

\* zip: cells that only the other sketch has are passed over.
Added(sketch, other) ==
  [j \in DOMAIN sketch |->
     [sum |-> [e \in Element |-> Fadd(sketch[j].sum[e], other[j].sum[e])],
      count |-> sketch[j].count + other[j].count]]

Subtracted(sketch, other) ==
  [j \in DOMAIN sketch |->
     [sum |-> [e \in Element |-> Fsub(sketch[j].sum[e], other[j].sum[e])],
      count |-> sketch[j].count - other[j].count]]

Init ==
  /\ mapping \in [Element -> Mapping]
  /\ \E size \in Sizes : cells = NewSketch(size)
  /\ net = [e \in Element |-> 0]
  /\ work = <<>>
  /\ remote_only = <<>>
  /\ changed = FALSE
  /\ at = 1
  /\ answer = NoAnswer
  /\ pc = "combine"

InBounds(n) == \A e \in Element : n[e] \in -MaxCopies .. MaxCopies

EncodeElement(e, sign) ==
  /\ pc = "combine"
  /\ cells' = Encoded(cells, e, sign)
  /\ net' = [net EXCEPT ![e] = @ + sign]
  /\ InBounds(net')
  /\ UNCHANGED <<mapping, decoding, pc>>

\* The other sketch is at least as long: of a shorter one, zip would leave
\* out the elements in the cells beyond it.
AddSketch(copies) ==
  /\ pc = "combine"
  /\ net' = [e \in Element |-> net[e] + copies[e]]
  /\ InBounds(net')
  /\ cells' = Added(cells, BuildSketch(copies, MaxSize))
  /\ UNCHANGED <<mapping, decoding, pc>>

SubSketch(copies) ==
  /\ pc = "combine"
  /\ net' = [e \in Element |-> net[e] - copies[e]]
  /\ InBounds(net')
  /\ cells' = Subtracted(cells, BuildSketch(copies, MaxSize))
  /\ UNCHANGED <<mapping, decoding, pc>>

-----------------------------------------------------------------------------
(* try_decode                                                               *)

TryDecode ==
  /\ pc = "combine"
  /\ work' = cells
  /\ remote_only' = <<>>
  /\ changed' = FALSE
  /\ at' = 1
  /\ pc' = "scan"
  /\ UNCHANGED <<mapping, cells, net, answer>>

\* The element that a cell would hold, were it pure: its sums over its count.
Candidate(cell) ==
  [e \in Element |-> Fdiv(cell.sum[e], CountToField(cell.count))]

Only(e) == [f \in Element |-> IF f = e THEN 1 ELSE 0]

IsPure(cell) ==
  cell.count # 0 /\ \E e \in Element : Candidate(cell) = Only(e)

RecoverDigest(cell) == CHOOSE e \in Element : Candidate(cell) = Only(e)

\* What a bug would do that takes out the elements of one side only.
WithoutSurplus(sketch, e, cell) ==
  [j \in DOMAIN sketch |->
     IF j \notin mapping[e] \/ cell.count < 0 THEN sketch[j]
     ELSE [sum |-> [f \in Element |-> Fsub(sketch[j].sum[f], cell.sum[f])],
           count |-> sketch[j].count - cell.count]]

\* The whole of a pure cell is taken out of all cells of its element.
Without(sketch, e, cell) ==
  [j \in DOMAIN sketch |->
     IF j \notin mapping[e] THEN sketch[j]
     ELSE [sum |-> [f \in Element |-> Fsub(sketch[j].sum[f], cell.sum[f])],
           count |-> sketch[j].count - cell.count]]

Skip ==
  /\ pc = "scan" /\ at \in DOMAIN work
  /\ ~IsPure(work[at])
  /\ at' = at + 1
  /\ UNCHANGED <<mapping, cells, net, work, remote_only, changed, answer, pc>>

\* What a bug would do that takes the elements of both sides.
PeelBothSides ==
  /\ pc = "scan" /\ at \in DOMAIN work
  /\ IsPure(work[at])
  /\ LET e == RecoverDigest(work[at])
     IN  /\ remote_only' = Append(remote_only, e)
         /\ work' = Without(work, e, work[at])
  /\ changed' = TRUE
  /\ at' = at + 1
  /\ UNCHANGED <<mapping, cells, net, answer, pc>>

Peel ==
  /\ pc = "scan" /\ at \in DOMAIN work
  /\ IsPure(work[at])
  /\ LET e == RecoverDigest(work[at])
     IN  /\ remote_only' = IF work[at].count > 0 THEN Append(remote_only, e)
                           ELSE remote_only
         /\ work' = Without(work, e, work[at])
  /\ changed' = TRUE
  /\ at' = at + 1
  /\ UNCHANGED <<mapping, cells, net, answer, pc>>

\* What a bug would do that is content with one pass.
RepeatNever == FALSE

\* Another pass, if the last one has found anything.
Repeat == changed

\* What a bug would do that is content with one empty cell.
AcceptsAny == \E j \in DOMAIN work : work[j].count = 0

\* The test at the end looks at the counts alone.
Accepts == \A j \in DOMAIN work : work[j].count = 0

EndPass ==
  /\ pc = "scan" /\ at \notin DOMAIN work
  /\ IF Repeat
     THEN at' = 1 /\ changed' = FALSE /\ UNCHANGED <<answer, pc>>
     ELSE /\ answer' = IF Accepts THEN Some(remote_only) ELSE NoAnswer
          /\ pc' = "done"
          /\ UNCHANGED <<at, changed>>
  /\ UNCHANGED <<mapping, cells, net, work, remote_only>>

Halted == pc = "done" /\ UNCHANGED vars

Combine ==
  \/ \E e \in Element, sign \in {1, -1} : EncodeElement(e, sign)
  \/ \E copies \in [Element -> {-1, 0, 1}] : AddSketch(copies) \/ SubSketch(copies)

Decode == Skip \/ Peel \/ EndPass

Next == Combine \/ TryDecode \/ Decode \/ Halted

Spec == Init /\ [][Next]_vars /\ WF_vars(Decode)

-----------------------------------------------------------------------------

TypeOK ==
  /\ mapping \in [Element -> Mapping]
  /\ cells \in Seq(Cell)
  /\ net \in [Element -> Int]
  /\ work \in Seq(Cell)
  /\ remote_only \in Seq(Element)
  /\ changed \in BOOLEAN
  /\ at \in Nat \ {0}
  /\ answer \in [some : BOOLEAN, list : Seq(Element)]
  /\ pc \in {"combine", "scan", "done"}

\* The cell j that holds of each element of S what the sketches amount to.
Content(j, S) ==
  LET here == {e \in S : j \in mapping[e]}
  IN  [sum |-> [e \in Element |-> IF e \in here THEN net[e] % P ELSE 0],
       count |-> SumFunction([e \in here |-> net[e]])]

\* What there is a surplus of, and what is in the cells of the decoder still:
\* every element is mapped to the first cell.
Surplus == {e \in Element : net[e] > 0}

Left == {e \in Element : work[1].sum[e] # 0}

\* However sketches have been put together, a cell holds exactly the elements
\* mapped to it, as often as they were added less removed; and while they are
\* peeled off, an element is in all of its cells or in none.
CellsTell ==
  /\ \A j \in DOMAIN cells : cells[j] = Content(j, Element)
  /\ pc # "combine" => \A j \in DOMAIN work : work[j] = Content(j, Left)

\* How far decoding has come: what has been listed is the surplus that is not
\* left, and a pass that has changed nothing has met no pure cell.
Progress ==
  /\ Len(cells) \in Sizes
  /\ InBounds(net)
  /\ pc = "combine" => remote_only = <<>>
  /\ pc # "combine" =>
       /\ Len(work) = Len(cells)
       /\ Range(remote_only) = IF Len(work) = 0 THEN {} ELSE Surplus \ Left
  /\ pc = "scan" =>
       /\ at \in 1 .. Len(work) + 1
       /\ changed \/ \A j \in 1 .. at - 1 : ~IsPure(work[j])
  /\ pc = "done" =>
       /\ \A j \in DOMAIN work : ~IsPure(work[j])
       /\ answer = IF Accepts THEN Some(remote_only) ELSE NoAnswer

\* The types, what the cells hold, and how far decoding has come.
SketchInv == TypeOK /\ CellsTell /\ Progress

\* Nothing is returned that is not in surplus, and nothing twice.
NothingInvented ==
  /\ \A i \in DOMAIN remote_only : net[remote_only[i]] > 0
  /\ \A i, j \in DOMAIN remote_only : remote_only[i] = remote_only[j] => i = j

\* The answer lists all that there is a surplus of.
Complete == answer.some /\ Range(answer.list) = Surplus

\* If nothing was removed more often than added, a decode that accepts has
\* found all of it: with one sign, counts do not cancel.
OneSidedExact ==
  /\ pc = "done" /\ answer.some
  /\ Len(cells) > 0
  /\ \A e \in Element : net[e] >= 0
  => Complete

\* No part of what is in the sketch blocks every cell it is mapped to.
Peelable ==
  LET Present == {e \in Element : net[e] # 0}
  IN  \A S \in (SUBSET Present) \ {{}} :
        \E j \in DOMAIN cells : Cardinality({e \in S : j \in mapping[e]}) = 1

\* Whenever some order of peeling gets at everything, so do the passes of
\* try_decode, whatever the numbers of copies, and its answer is complete.
DecodesIfPeelable == pc = "done" /\ Peelable => Complete

\* try_decode returns: no element is peeled over and over.
DecodeReturns == (pc = "scan") ~> (pc = "done")

\* The doc comment of try_decode: it "returns the field-reduced digests of
\* remote-only elements if the sketch fully decodes, or None if the sketch is
\* too small".  An answer is complete, then.
SomeIsComplete == pc = "done" /\ answer.some => Complete

=============================================================================
