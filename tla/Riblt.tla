------------------------------- MODULE Riblt --------------------------------
(***************************************************************************)
(* The rateless IBLT of src/simulator/algorithms/riblt: a call of          *)
(* find_all_differences, which lengthens two sketches cell by cell,        *)
(* subtracts one from the other, and peels symbols off the difference      *)
(* until nothing is left of it.                                            *)
(*                                                                         *)
(* Cells are numbered from 1, the code's index 0.  A coded symbol xors     *)
(* symbols together with their hashes; here it is the set of symbols that  *)
(* do not cancel.  That is exact as long as a xor of several hashes is not *)
(* by chance the hash of the xor of their symbols, nor zero.  The pseudo-  *)
(* random mapping of a symbol is any set of cells with the first in it,    *)
(* visited in increasing order.                                            *)
(***************************************************************************)
EXTENDS Integers, Sequences, FiniteSets

CONSTANTS
  Element,    \* symbols
  MaxCells    \* bound on the length of a sketch

ASSUME RibltAssumption == IsFiniteSet(Element) /\ MaxCells \in Nat \ {0}

VARIABLES
  local,          \* the symbols of self, the RatelessIBLT that decodes
  remote,         \* ... and of other
  mapping,        \* the cells that a symbol is mapped to
  local_next,     \* next_mapping_idx of self: where a symbol is due next
  remote_next,    \* ... and of other
  sketch,         \* the coded symbols of self
  other,          \* ... and of other
  subtracted,     \* how many of them are subtracted
  local_only,
  remote_only,
  peeling,        \* next_peeling_idx: where a decoded symbol is due next
  pc

vars == <<local, remote, mapping, local_next, remote_next, sketch, other,
          subtracted, local_only, remote_only, peeling, pc>>

Beyond == MaxCells + 1   \* stands for the cells a symbol has past the bound

Mapping == {S \in SUBSET (1 .. Beyond) : 1 \in S /\ Beyond \in S}

CodedSymbol == [sum : SUBSET Element, count : Int]

\* SymbolMapping::next, once cell i has been taken.
NextIndex(e, i) ==
  CHOOSE j \in mapping[e] : j > i /\ \A k \in mapping[e] : k > i => j <= k

\* What is xored twice is gone.
Xor(S, T) == (S \ T) \cup (T \ S)

decoded == DOMAIN peeling

Init ==
  /\ local \in SUBSET Element
  /\ remote \in SUBSET Element
  /\ mapping \in [Element -> Mapping]
  /\ local_next = [e \in local |-> 1]
  /\ remote_next = [e \in remote |-> 1]
  /\ sketch = <<>>
  /\ other = <<>>
  /\ subtracted = 0
  /\ local_only = {}
  /\ remote_only = {}
  /\ peeling = [e \in {} |-> 1]
  /\ pc = "extend"

-----------------------------------------------------------------------------
(* extend_sketch(1), with the symbols' places kept in next.                 *)

Due(next, i) == {e \in DOMAIN next : next[e] = i}

Extended(cells, next) ==
  LET due == Due(next, Len(cells) + 1)
  IN  Append(cells, [sum |-> due, count |-> Cardinality(due)])

Advanced(cells, next) ==
  LET i == Len(cells) + 1
  IN  [e \in DOMAIN next |-> IF next[e] = i THEN NextIndex(e, i) ELSE next[e]]

\* What a bug would do that lengthens both sketches by two cells at a time:
\* peeling then reaches a cell that is not subtracted yet.
ExtendByTwo ==
  /\ pc = "extend"
  /\ Len(sketch) + 1 < MaxCells
  /\ LET sketch1 == Extended(sketch, local_next)
         local1 == Advanced(sketch, local_next)
         other1 == Extended(other, remote_next)
         remote1 == Advanced(other, remote_next)
     IN  /\ sketch' = Extended(sketch1, local1)
         /\ local_next' = Advanced(sketch1, local1)
         /\ other' = Extended(other1, remote1)
         /\ remote_next' = Advanced(other1, remote1)
  /\ pc' = "subtract"
  /\ UNCHANGED <<local, remote, mapping, subtracted, local_only, remote_only,
                 peeling>>

Extend ==
  /\ pc = "extend"
  /\ Len(sketch) < MaxCells
  /\ sketch' = Extended(sketch, local_next)
  /\ local_next' = Advanced(sketch, local_next)
  /\ other' = Extended(other, remote_next)
  /\ remote_next' = Advanced(other, remote_next)
  /\ pc' = "subtract"
  /\ UNCHANGED <<local, remote, mapping, subtracted, local_only, remote_only,
                 peeling>>

-----------------------------------------------------------------------------
(* subtract, and the peeling it calls for each cell.                        *)

\* What a bug would do that does not ask whether a symbol is decoded already.
PureEvenIfDecoded(cell) ==
  {e \in cell.sum : cell.sum = {e} /\ cell.count \in {1, -1}}

\* The symbol that try_mark_pure_cell finds in a cell, if any.
Pure(cell) ==
  {e \in cell.sum : cell.sum = {e} /\ cell.count \in {1, -1} /\ e \notin decoded}

\* try_mark_pure_cell, after a cell has become `cell' and the decoded symbols
\* are due where `due' says.
TryMark(cell, due) ==
  LET found == Pure(cell)
  IN  /\ local_only' = local_only \cup {e \in found : cell.count = 1}
      /\ remote_only' = remote_only \cup {e \in found : cell.count = -1}
      /\ peeling' = [e \in decoded \cup found |-> IF e \in found THEN 1 ELSE due[e]]

Subtract ==
  /\ pc = "subtract"
  /\ LET i == subtracted + 1
         cell == [sum |-> Xor(sketch[i].sum, other[i].sum),
                  count |-> sketch[i].count - other[i].count]
     IN  /\ sketch' = [sketch EXCEPT ![i] = cell]
         /\ TryMark(cell, peeling)
  /\ pc' = "peel"
  /\ UNCHANGED <<local, remote, mapping, local_next, remote_next, other, subtracted>>

\* What a bug would do that does not try the cell a symbol has left.
PeelWithoutTrying(e) ==
  /\ pc = "peel"
  /\ e \in decoded
  /\ peeling[e] <= Len(sketch)
  /\ \A f \in decoded : peeling[e] <= peeling[f]
  /\ LET i == peeling[e]
     IN  /\ sketch' = [sketch EXCEPT
                         ![i].sum = Xor(@, {e}),
                         ![i].count = @ + (IF e \in local_only THEN -1 ELSE 1)]
         /\ peeling' = [peeling EXCEPT ![e] = NextIndex(e, i)]
  /\ UNCHANGED <<local, remote, mapping, local_next, remote_next, other, subtracted,
                 local_only, remote_only, pc>>

\* A turn of the loop in peel: a decoded symbol that is due earliest leaves
\* the cell it is due in.
Peel(e) ==
  /\ pc = "peel"
  /\ e \in decoded
  /\ peeling[e] <= Len(sketch)
  /\ \A f \in decoded : peeling[e] <= peeling[f]
  /\ LET i == peeling[e]
         cell == [sum |-> Xor(sketch[i].sum, {e}),
                  count |-> sketch[i].count + (IF e \in local_only THEN -1 ELSE 1)]
     IN  /\ sketch' = [sketch EXCEPT ![i] = cell]
         /\ TryMark(cell, [peeling EXCEPT ![e] = NextIndex(e, i)])
  /\ UNCHANGED <<local, remote, mapping, local_next, remote_next, other, subtracted, pc>>

\* The loop in peel ends, and with it the turn of the loop in subtract.
Peeled ==
  /\ pc = "peel"
  /\ \A e \in decoded : peeling[e] > Len(sketch)
  /\ subtracted' = subtracted + 1
  /\ pc' = IF subtracted + 1 < Len(sketch) THEN "subtract" ELSE "check"
  /\ UNCHANGED <<local, remote, mapping, local_next, remote_next, sketch, other,
                 local_only, remote_only, peeling>>

\* What a bug would do that looks at the count alone.
EmptyByCount(cell) == cell.count = 0

\* is_decoded
Empty(cell) == cell.sum = {} /\ cell.count = 0

Check ==
  /\ pc = "check"
  /\ pc' = IF Empty(sketch[1]) THEN "done" ELSE "extend"
  /\ UNCHANGED <<local, remote, mapping, local_next, remote_next, sketch, other,
                 subtracted, local_only, remote_only, peeling>>

\* Returned, or at the bound.
Halted ==
  /\ pc = "done" \/ (pc = "extend" /\ Len(sketch) = MaxCells)
  /\ UNCHANGED vars

Next ==
  \/ Extend
  \/ Subtract
  \/ \E e \in Element : Peel(e)
  \/ Peeled
  \/ Check
  \/ Halted

Safety == Init /\ [][Next]_vars

Spec == Safety /\ WF_vars(Next)

-----------------------------------------------------------------------------

TypeOK ==
  /\ local \in SUBSET Element
  /\ remote \in SUBSET Element
  /\ mapping \in [Element -> Mapping]
  /\ local_next \in [local -> 1 .. Beyond]
  /\ remote_next \in [remote -> 1 .. Beyond]
  /\ sketch \in Seq(CodedSymbol)
  /\ other \in Seq(CodedSymbol)
  /\ subtracted \in Nat
  /\ local_only \in SUBSET Element
  /\ remote_only \in SUBSET Element
  /\ decoded \in SUBSET Element
  /\ peeling \in [decoded -> 1 .. Beyond]
  /\ pc \in {"extend", "subtract", "peel", "check", "done"}

Diff == Xor(local, remote)

\* The code subtracts a cell before it peels it: cells 1 .. Subtracted are
\* of the difference, the others still of self alone.
Subtracted == IF pc = "peel" THEN subtracted + 1 ELSE subtracted

Mapped(S, i) == {e \in S : i \in mapping[e]}

\* What cell i should hold.
Content(i) ==
  IF i <= Subtracted
  THEN {e \in Mapped(Diff, i) : e \in decoded => i >= peeling[e]}
  ELSE Mapped(local, i)

\* Every cell holds exactly the symbols mapped to it that are in the difference
\* and not peeled off it yet, with the right count, whatever the order in which
\* extending, subtracting and peeling get to it.
CellsTell ==
  \A i \in 1 .. Len(sketch) :
    /\ sketch[i].sum = Content(i)
    /\ sketch[i].count = Cardinality(Content(i) \cap local)
                           - Cardinality(Content(i) \ local)
    /\ other[i].sum = Mapped(remote, i)
    /\ other[i].count = Cardinality(other[i].sum)

\* Cursors point at the next cell of their symbol.
DueAfter(e, i, n) ==
  i \in mapping[e] /\ i > n /\ \A k \in mapping[e] : k > n => i <= k

CursorsInv ==
  /\ \A e \in local : DueAfter(e, local_next[e], Len(sketch))
  /\ \A e \in remote : DueAfter(e, remote_next[e], Len(sketch))
  /\ \A e \in decoded :
       /\ peeling[e] \in mapping[e]
       /\ \A k \in mapping[e] : k > Subtracted => peeling[e] <= k
       /\ pc # "peel" => peeling[e] > subtracted

ControlInv ==
  /\ Len(other) = Len(sketch)
  /\ Len(sketch) <= MaxCells
  /\ Len(sketch) = IF pc \in {"subtract", "peel"} THEN subtracted + 1 ELSE subtracted
  /\ pc \in {"check", "done"} => Len(sketch) > 0
  /\ pc = "done" => Empty(sketch[1])

\* Symbols are found on the side they belong to, and each in a cell that has
\* nothing else to offer: this is why a cell yields at most one symbol.
FoundInv ==
  /\ local_only = decoded \cap local
  /\ remote_only = decoded \cap remote
  /\ decoded \subseteq Diff
  /\ \E home \in [decoded -> 1 .. Len(sketch)] :
       /\ \A e, f \in decoded : home[e] = home[f] => e = f
       /\ \A e \in decoded, f \in Diff : home[e] \in mapping[f] => f \in decoded

\* A cell that has become pure has been noticed.
TriedInv ==
  \A i \in 1 .. Len(sketch), e \in Element :
    i <= Subtracted /\ sketch[i].sum = {e} => e \in decoded

IInv == TypeOK /\ ControlInv /\ CursorsInv /\ CellsTell /\ FoundInv /\ TriedInv

Outcome ==
  IF pc = "done"
  THEN [known |-> TRUE, local_only |-> local_only, remote_only |-> remote_only,
        consumed |-> Len(sketch)]
  ELSE [known |-> FALSE]

\* A call that returns has found both sides of the difference exactly, and has
\* consumed at least a cell for each element of it: the outcomes that the model
\* of the protocols takes a decode to have.
Exact == INSTANCE Difference WITH outcome <- Outcome

FindsDifference == Exact!Spec

\* Extending stops no later than it can: when a call asks for another cell,
\* every cell still holds none or several of the symbols not yet found.
NothingLeftToPeel ==
  pc = "extend" =>
    \A i \in 1 .. Len(sketch) :
      \A e \in Diff \ decoded :
        i \in mapping[e] => \E f \in (Diff \ decoded) \ {e} : i \in mapping[f]

\* No part of the difference is a stopping set within the bound: each has a
\* cell to which just one of its symbols is mapped.
Peelable ==
  \A S \in (SUBSET Diff) \ {{}} :
    \E i \in 1 .. MaxCells : Cardinality(Mapped(S, i)) = 1

\* If the mappings allow the difference to be peeled at all, the call returns.
ReturnsIfPeelable == Peelable => <>(pc = "done")

=============================================================================
