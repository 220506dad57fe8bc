---------------------------- MODULE RibltProofs -----------------------------
(***************************************************************************)
(* Decoding is exact, for all sets, mappings and lengths of a sketch.      *)
(***************************************************************************)
EXTENDS Riblt, FiniteSetTheorems, WellFoundedInduction, TLAPS

\* A set of naturals has a smallest element.
LEMMA Smallest ==
  ASSUME NEW S \in SUBSET Nat, S # {}
  PROVE  \E j \in S : \A k \in S : j <= k
<1> DEFINE R == {p \in Nat \X Nat : p[1] < p[2]}
<1>1. IsWellFoundedOn(R, Nat) BY NatLessThanWellFounded DEF OpToRel
<1>2. \A j, k \in Nat : <<k, j>> \in R <=> k < j OBVIOUS
<1> HIDE DEF R
<1>3. \E j \in S : \A k \in S : <<k, j>> \notin R BY <1>1, WFMin
<1>4. PICK j \in S : \A k \in S : <<k, j>> \notin R BY <1>3
<1>5. \A k \in S : ~(k < j) BY <1>2, <1>4
<1>6. QED BY <1>5

\* A symbol has a next cell.
LEMMA NextIndexDue ==
  ASSUME TypeOK, NEW e \in Element, NEW i \in 1 .. MaxCells
  PROVE  /\ DueAfter(e, NextIndex(e, i), i)
         /\ NextIndex(e, i) \in 1 .. Beyond
<1> DEFINE S == {j \in mapping[e] : j > i}
<1>1. MaxCells \in Nat /\ i \in Nat /\ i < Beyond
  BY RibltAssumption DEF Beyond
<1>2. mapping[e] \in SUBSET (1 .. Beyond) /\ Beyond \in mapping[e]
  BY DEF TypeOK, Mapping
<1>3. 1 .. Beyond \subseteq Nat BY <1>1 DEF Beyond
<1>4. S \in SUBSET Nat /\ S # {} BY <1>1, <1>2, <1>3
<1>5. \E j \in S : \A k \in S : j <= k BY <1>4, Smallest
<1>7. /\ NextIndex(e, i) \in mapping[e] /\ NextIndex(e, i) > i
      /\ \A k \in mapping[e] : k > i => NextIndex(e, i) <= k
  BY <1>5 DEF NextIndex
<1>8. QED BY <1>2, <1>7 DEF DueAfter

\* Sets of symbols are finite.
LEMMA SymbolsFinite ==
  ASSUME NEW S \in SUBSET Element
  PROVE  IsFiniteSet(S) /\ Cardinality(S) \in Nat
BY RibltAssumption, FS_Subset, FS_CardinalityType

\* Counting a set of which nothing is on the other side.
LEMMA OneSided ==
  ASSUME NEW S \in SUBSET Element, NEW L, S \subseteq L
  PROVE  Cardinality(S) = Cardinality(S \cap L) - Cardinality(S \ L)
<1>1. S \cap L = S /\ S \ L = {} OBVIOUS
<1>2. Cardinality(S \cap L) = Cardinality(S) BY <1>1, Zenon
<1>3. Cardinality(S \ L) = 0
  <2>1. Cardinality({}) = 0 BY FS_EmptySet
  <2>2. QED BY <1>1, <2>1, Zenon
<1>4. Cardinality(S) \in Nat BY SymbolsFinite
<1>5. QED BY <1>2, <1>3, <1>4

\* A new cell holds the symbols mapped to it, and the cursors move past it.
LEMMA NewCell ==
  ASSUME TypeOK, NEW S \in SUBSET Element, NEW next \in [S -> 1 .. Beyond],
         NEW cells \in Seq(CodedSymbol), Len(cells) < MaxCells,
         \A e \in S : DueAfter(e, next[e], Len(cells))
  PROVE  LET n == Len(cells) + 1
         IN  /\ Extended(cells, next) \in Seq(CodedSymbol)
             /\ Len(Extended(cells, next)) = n
             /\ \A i \in 1 .. Len(cells) : Extended(cells, next)[i] = cells[i]
             /\ Extended(cells, next)[n].sum = Mapped(S, n)
             /\ Extended(cells, next)[n].count = Cardinality(Mapped(S, n))
             /\ Advanced(cells, next) \in [S -> 1 .. Beyond]
             /\ \A e \in S : DueAfter(e, Advanced(cells, next)[e], n)
<1> DEFINE n == Len(cells) + 1
           due == Mapped(S, n)
<1>1. /\ MaxCells \in Nat /\ Len(cells) \in Nat /\ n \in 1 .. MaxCells
      /\ \A e \in S : mapping[e] \subseteq Int /\ next[e] \in Int
  BY RibltAssumption DEF TypeOK, Mapping, Beyond
<1>2. Due(next, n) = due
  <2>1. \A e \in S : next[e] = n <=> n \in mapping[e] BY <1>1 DEF DueAfter
  <2>2. QED BY <2>1 DEF Due, Mapped
<1>3. [sum |-> due, count |-> Cardinality(due)] \in CodedSymbol
  <2>1. due \in SUBSET Element BY DEF Mapped
  <2>2. QED BY <2>1, SymbolsFinite DEF CodedSymbol
<1>4. Extended(cells, next) = Append(cells, [sum |-> due, count |-> Cardinality(due)])
  BY <1>2 DEF Extended
<1>5. /\ Advanced(cells, next) \in [S -> 1 .. Beyond]
      /\ \A e \in S : DueAfter(e, Advanced(cells, next)[e], n)
  <2>1. ASSUME NEW e \in S
        PROVE  LET d == IF next[e] = n THEN NextIndex(e, n) ELSE next[e]
               IN  d \in 1 .. Beyond /\ DueAfter(e, d, n)
    <3>1. CASE next[e] = n BY <1>1, <3>1, NextIndexDue
    <3>2. CASE next[e] # n BY <1>1, <3>2 DEF DueAfter
    <3>3. QED BY <3>1, <3>2
  <2>2. Advanced(cells, next)
          = [e \in S |-> IF next[e] = n THEN NextIndex(e, n) ELSE next[e]]
    BY DEF Advanced
  <2>3. QED BY <2>1, <2>2
<1> HIDE DEF due
<1>6. /\ Extended(cells, next) \in Seq(CodedSymbol)
      /\ Len(Extended(cells, next)) = n
      /\ \A i \in 1 .. Len(cells) : Extended(cells, next)[i] = cells[i]
      /\ Extended(cells, next)[n] = [sum |-> due, count |-> Cardinality(due)]
  BY <1>1, <1>3, <1>4
<1>7. QED BY <1>5, <1>6 DEF due

\* The invariant holds at the start.
LEMMA InitInv == ASSUME Init PROVE IInv
<1>1. MaxCells \in Nat /\ MaxCells > 0 /\ 1 \in 1 .. Beyond
  BY RibltAssumption DEF Beyond
<1>2. Len(sketch) = 0 /\ Len(other) = 0 /\ decoded = {}
  BY DEF Init, decoded
<1>3. TypeOK
  <2>1. sketch \in Seq(CodedSymbol) /\ other \in Seq(CodedSymbol) BY DEF Init
  <2>2. QED BY <1>1, <2>1 DEF Init, TypeOK, decoded
<1>4. ControlInv BY <1>1, <1>2 DEF Init, ControlInv
<1>5. CursorsInv
  <2>1. \A e \in Element : 1 \in mapping[e] /\ mapping[e] \subseteq 1 .. Beyond
    BY DEF Init, Mapping
  <2>2. QED BY <1>1, <1>2, <2>1 DEF Init, CursorsInv, DueAfter, Beyond
<1>6. CellsTell BY <1>2 DEF CellsTell
<1>7. FoundInv
  <2>1. [e \in decoded |-> 1] \in [decoded -> 1 .. Len(sketch)] BY <1>2
  <2>2. QED BY <1>2, <2>1 DEF Init, FoundInv
<1>8. TriedInv BY <1>2 DEF TriedInv
<1>9. QED BY <1>3, <1>4, <1>5, <1>6, <1>7, <1>8 DEF IInv

\* The new cells are of the symbols as they stand, before any subtraction.
LEMMA ExtendInv == ASSUME IInv, Extend PROVE IInv'
<1>n. PICK n \in Nat : n = Len(sketch) BY DEF IInv, TypeOK
<1>0. /\ TypeOK /\ ControlInv /\ CursorsInv /\ CellsTell /\ FoundInv /\ TriedInv
      /\ pc = "extend" /\ n < MaxCells
  BY <1>n DEF IInv, Extend
<1>1. /\ UNCHANGED <<local, remote, mapping, subtracted, local_only, remote_only, peeling>>
      /\ sketch' = Extended(sketch, local_next)
      /\ local_next' = Advanced(sketch, local_next)
      /\ other' = Extended(other, remote_next)
      /\ remote_next' = Advanced(other, remote_next)
      /\ pc' = "subtract"
  BY DEF Extend
<1>2. n \in Nat /\ Len(other) = n /\ subtracted = n /\ MaxCells \in Nat
  BY <1>0, <1>n, RibltAssumption DEF ControlInv, TypeOK
<1>3. /\ sketch' \in Seq(CodedSymbol) /\ Len(sketch') = n + 1
      /\ \A i \in 1 .. n : sketch'[i] = sketch[i]
      /\ sketch'[n+1].sum = Mapped(local, n + 1)
      /\ sketch'[n+1].count = Cardinality(Mapped(local, n + 1))
      /\ local_next' \in [local -> 1 .. Beyond]
      /\ \A e \in local : DueAfter(e, local_next'[e], n + 1)
  <2>1. /\ local \in SUBSET Element /\ local_next \in [local -> 1 .. Beyond]
        /\ sketch \in Seq(CodedSymbol)
        /\ \A e \in local : DueAfter(e, local_next[e], n)
    BY <1>n, <1>0 DEF TypeOK, CursorsInv
  <2>2. QED BY <1>n, <1>0, <1>1, <2>1, NewCell
<1>4. /\ other' \in Seq(CodedSymbol) /\ Len(other') = n + 1
      /\ \A i \in 1 .. n : other'[i] = other[i]
      /\ other'[n+1].sum = Mapped(remote, n + 1)
      /\ other'[n+1].count = Cardinality(Mapped(remote, n + 1))
      /\ remote_next' \in [remote -> 1 .. Beyond]
      /\ \A e \in remote : DueAfter(e, remote_next'[e], n + 1)
  <2>1. /\ remote \in SUBSET Element /\ remote_next \in [remote -> 1 .. Beyond]
        /\ other \in Seq(CodedSymbol)
    BY <1>0 DEF TypeOK
  <2>2. \A e \in remote : DueAfter(e, remote_next[e], Len(sketch))
    BY <1>0 DEF CursorsInv
  <2>3. Len(other) = Len(sketch) /\ Len(other) < MaxCells BY <1>n, <1>0, <1>2
  <2>4. \A e \in remote : DueAfter(e, remote_next[e], Len(other)) BY <2>2, <2>3
  <2> DEFINE longer == Extended(other, remote_next)
             moved == Advanced(other, remote_next)
  <2>5. /\ longer \in Seq(CodedSymbol) /\ Len(longer) = Len(other) + 1
        /\ \A i \in 1 .. Len(other) : longer[i] = other[i]
        /\ longer[Len(other)+1].sum = Mapped(remote, Len(other) + 1)
        /\ longer[Len(other)+1].count = Cardinality(Mapped(remote, Len(other) + 1))
        /\ moved \in [remote -> 1 .. Beyond]
        /\ \A e \in remote : DueAfter(e, moved[e], Len(other) + 1)
    BY <1>0, <2>1, <2>3, <2>4, NewCell
  <2>6. other' = longer /\ remote_next' = moved BY <1>1
  <2> HIDE DEF longer, moved
  <2>7. QED BY <1>2, <2>5, <2>6
<1>5. decoded' = decoded /\ Subtracted = n /\ Subtracted' = n /\ Diff' = Diff
  BY <1>0, <1>1, <1>2 DEF decoded, Subtracted, Diff
<1>6. TypeOK' BY <1>0, <1>1, <1>3, <1>4, <1>5 DEF TypeOK
<1>7. ControlInv' BY <1>0, <1>1, <1>2, <1>3, <1>4 DEF ControlInv
<1>8. CursorsInv'
  <2>1. \A e \in local' : DueAfter(e, local_next[e], Len(sketch))'
    BY <1>1, <1>3 DEF DueAfter
  <2>2. \A e \in remote' : DueAfter(e, remote_next[e], Len(sketch))'
    BY <1>1, <1>3, <1>4 DEF DueAfter
  <2>3. QED BY <1>0, <1>1, <1>2, <1>5, <2>1, <2>2 DEF CursorsInv
<1>9. CellsTell'
  <2>1. \A i \in 1 .. n : Content(i)' = Content(i)
    BY <1>1, <1>2, <1>5 DEF Content, Mapped
  <2>2. /\ Content(n + 1)' = Mapped(local, n + 1)
        /\ \A i \in 1 .. n + 1 : Mapped(remote, i)' = Mapped(remote, i)
    BY <1>1, <1>2, <1>5 DEF Content, Mapped
  <2>3. ASSUME NEW i \in 1 .. n + 1
        PROVE  /\ sketch'[i].sum = Content(i)'
               /\ sketch'[i].count = Cardinality(Content(i)' \cap local)
                                      - Cardinality(Content(i)' \ local)
               /\ other'[i].sum = Mapped(remote, i)
               /\ other'[i].count = Cardinality(other'[i].sum)
    <3>1. CASE i \in 1 .. n
      BY <1>n, <1>0, <1>3, <1>4, <2>1, <3>1 DEF CellsTell
    <3>2. CASE i = n + 1
      <4> DEFINE due == Mapped(local, n + 1)
      <4>1. due \in SUBSET Element /\ due \subseteq local
        BY <1>0 DEF TypeOK, Mapped
      <4> HIDE DEF due
      <4>4. Cardinality(due) = Cardinality(due \cap local) - Cardinality(due \ local)
        BY <4>1, OneSided
      <4>5. /\ sketch'[n+1].sum = due /\ sketch'[n+1].count = Cardinality(due)
            /\ Content(n+1)' = due
        BY <1>3, <2>2 DEF due
      <4>6. QED BY <1>4, <3>2, <4>4, <4>5
    <3>3. QED BY <1>2, <3>1, <3>2
  <2>4. QED BY <1>1, <1>3, <2>2, <2>3 DEF CellsTell
<1>10. FoundInv'
  <2>1. PICK home \in [decoded -> 1 .. n] :
          /\ \A e, f \in decoded : home[e] = home[f] => e = f
          /\ \A e \in decoded, f \in Diff : home[e] \in mapping[f] => f \in decoded
    BY <1>n, <1>0 DEF FoundInv
  <2>2. home \in [decoded' -> 1 .. Len(sketch')] BY <1>3, <1>5, <2>1
  <2>3. /\ local_only' = (decoded \cap local)' /\ remote_only' = (decoded \cap remote)'
        /\ decoded' \subseteq Diff'
    BY <1>0, <1>1, <1>5 DEF FoundInv
  <2>4. /\ \A e, f \in decoded' : home[e] = home[f] => e = f
        /\ \A e \in decoded', f \in Diff' : home[e] \in mapping'[f] => f \in decoded'
    BY <1>1, <1>5, <2>1
  <2>5. QED BY <2>2, <2>3, <2>4 DEF FoundInv
<1>11. TriedInv'
  BY <1>n, <1>0, <1>2, <1>3, <1>5 DEF TriedInv
<1>12. QED BY <1>6, <1>7, <1>8, <1>9, <1>10, <1>11 DEF IInv

\* What try_mark_pure_cell achieves when a cell has become what it should be:
\* a symbol alone in it is decoded, on the right side, and due from the start.
LEMMA TryMarkWorks ==
  ASSUME TypeOK, FoundInv, NEW i \in 1 .. Len(sketch), NEW cell,
         NEW due \in [decoded -> 1 .. Beyond],
         cell.sum = {e \in Mapped(Diff, i) : e \in decoded => i >= due[e]},
         cell.count = Cardinality(cell.sum \cap local) - Cardinality(cell.sum \ local),
         TryMark(cell, due), UNCHANGED <<local, remote, mapping>>,
         Len(sketch') = Len(sketch)
  PROVE  /\ decoded \subseteq decoded' /\ decoded' \in SUBSET Element
         /\ peeling' \in [decoded' -> 1 .. Beyond]
         /\ local_only' \in SUBSET Element /\ remote_only' \in SUBSET Element
         /\ \A e \in decoded' : peeling'[e] = IF e \in decoded THEN due[e] ELSE 1
         /\ \A e \in Element : cell.sum = {e} => e \in decoded'
         /\ FoundInv'
<1> DEFINE found == Pure(cell)
<1>1. /\ local_only' = local_only \cup {e \in found : cell.count = 1}
      /\ remote_only' = remote_only \cup {e \in found : cell.count = -1}
      /\ peeling' = [e \in decoded \cup found |-> IF e \in found THEN 1 ELSE due[e]]
  BY DEF TryMark
<1>2. /\ Diff \subseteq Element /\ cell.sum \subseteq Diff
      /\ local \subseteq Element /\ remote \subseteq Element
      /\ Diff = (local \ remote) \cup (remote \ local)
      /\ Diff' = Diff
  BY DEF TypeOK, Diff, Xor, Mapped
<1>3. ASSUME NEW e, cell.sum = {e}
      PROVE  /\ e \in local => cell.count = 1
             /\ e \notin local => cell.count = -1
  <2>1. Cardinality({e}) = 1 /\ Cardinality({}) = 0 BY FS_Singleton, FS_EmptySet
  <2>2. CASE e \in local
    <3>1. cell.sum \cap local = {e} /\ cell.sum \ local = {} BY <1>3, <2>2
    <3>2. cell.count = Cardinality({e}) - Cardinality({}) BY <3>1, Zenon
    <3>3. QED BY <2>1, <2>2, <3>2
  <2>3. CASE e \notin local
    <3>1. cell.sum \cap local = {} /\ cell.sum \ local = {e} BY <1>3, <2>3
    <3>2. cell.count = Cardinality({}) - Cardinality({e}) BY <3>1, Zenon
    <3>3. QED BY <2>1, <2>3, <3>2
  <2>4. QED BY <2>2, <2>3
<1>4. \A e : e \in found <=> cell.sum = {e} /\ e \notin decoded
  BY <1>3 DEF Pure
<1>5. found \subseteq Diff /\ (found = {} \/ \E e : found = {e})
  BY <1>2, <1>4 DEF Pure
<1> HIDE DEF found
<1>6. decoded' = decoded \cup found BY <1>1 DEF decoded
<1>7. /\ {e \in found : cell.count = 1} = found \cap local
      /\ {e \in found : cell.count = -1} = found \cap remote
  <2>1. \A e \in found : (cell.count = 1 <=> e \in local)
    BY <1>3, <1>4
  <2>2. \A e \in found : (cell.count = -1 <=> e \notin local)
    BY <1>3, <1>4
  <2>3. \A e \in found : e \notin local <=> e \in remote BY <1>2, <1>5
  <2>4. QED BY <2>1, <2>2, <2>3
<1>8. 1 \in 1 .. Beyond BY RibltAssumption DEF Beyond
<1>9. /\ peeling' \in [decoded' -> 1 .. Beyond]
      /\ \A e \in decoded' : peeling'[e] = IF e \in decoded THEN due[e] ELSE 1
  BY <1>1, <1>4, <1>6, <1>8
<1>10. \A e \in Element : cell.sum = {e} => e \in decoded' BY <1>4, <1>6
<1>11. FoundInv'
  <2>1. /\ local_only = decoded \cap local /\ remote_only = decoded \cap remote
        /\ decoded \subseteq Diff
    BY DEF FoundInv
  <2>2. /\ local_only' = decoded' \cap local /\ remote_only' = decoded' \cap remote
        /\ decoded' \subseteq Diff
    BY <1>1, <1>5, <1>6, <1>7, <2>1
  <2>3. PICK home \in [decoded -> 1 .. Len(sketch)] :
          /\ \A e, f \in decoded : home[e] = home[f] => e = f
          /\ \A e \in decoded, f \in Diff : home[e] \in mapping[f] => f \in decoded
    BY DEF FoundInv
  <2> DEFINE new == [e \in decoded' |-> IF e \in decoded THEN home[e] ELSE i]
  <2>4. new \in [decoded' -> 1 .. Len(sketch)] BY <1>6, <2>3
  <2>5. ASSUME NEW e \in found
        PROVE  /\ \A f \in Diff : i \in mapping[f] => f \in decoded'
               /\ \A f \in decoded : home[f] # i
               /\ \A f \in found : f = e
    <3>1. cell.sum = {e} /\ e \notin decoded BY <1>4, <2>5
    <3>2. e \in Diff /\ i \in mapping[e] BY <1>2, <3>1 DEF Mapped
    <3>3. \A f \in Diff : i \in mapping[f] => f \in decoded \/ f = e
      BY <3>1 DEF Mapped
    <3>4. QED BY <1>4, <1>6, <2>3, <2>5, <3>1, <3>2, <3>3
  <2>6. \A e, f \in decoded' : new[e] = new[f] => e = f
    BY <1>6, <2>3, <2>5
  <2>7. \A e \in decoded', f \in Diff : new[e] \in mapping[f] => f \in decoded'
    BY <1>6, <2>3, <2>5
  <2> HIDE DEF new
  <2>8. /\ local_only' = (decoded \cap local)' /\ remote_only' = (decoded \cap remote)'
        /\ decoded' \subseteq Diff'
        /\ new \in [decoded' -> 1 .. Len(sketch')]
        /\ \A e \in decoded', f \in Diff' : new[e] \in mapping'[f] => f \in decoded'
    BY <1>2, <2>2, <2>4, <2>7
  <2>9. QED BY <2>6, <2>8 DEF FoundInv
<1>12. decoded \subseteq decoded' /\ decoded' \in SUBSET Element
  BY <1>2, <1>5, <1>6 DEF TypeOK
<1>13. local_only' \in SUBSET Element /\ remote_only' \in SUBSET Element
  BY <1>2, <1>5, <1>1 DEF TypeOK
<1>14. QED BY <1>9, <1>10, <1>11, <1>12, <1>13

\* The invariant when one cell of the subtracted part changes and is tried.
LEMMA CellReplaced ==
  ASSUME IInv, NEW i \in 1 .. Len(sketch), NEW cell \in CodedSymbol,
         NEW due \in [decoded -> 1 .. Beyond],
         cell.sum = {e \in Mapped(Diff, i) : e \in decoded => i >= due[e]},
         cell.count = Cardinality(cell.sum \cap local) - Cardinality(cell.sum \ local),
         \A e \in decoded :
           /\ due[e] \in mapping[e]
           /\ \A k \in mapping[e] : k > Len(sketch) => due[e] <= k,
         \A k \in 1 .. Len(sketch) : k # i =>
           /\ k <= Subtracted
           /\ \A e \in decoded : k \in mapping[e] => (k >= due[e] <=> k >= peeling[e]),
         sketch' = [sketch EXCEPT ![i] = cell], TryMark(cell, due),
         pc \in {"subtract", "peel"}, pc' = "peel",
         UNCHANGED <<local, remote, mapping, local_next, remote_next, other, subtracted>>
  PROVE  IInv'
<1>n. PICK n \in Nat : n = Len(sketch) BY DEF IInv, TypeOK
<1>0. TypeOK /\ ControlInv /\ CursorsInv /\ CellsTell /\ FoundInv /\ TriedInv
  BY DEF IInv
<1>1. /\ sketch' \in Seq(CodedSymbol) /\ Len(sketch') = n /\ sketch'[i] = cell
      /\ \A k \in 1 .. n : k # i => sketch'[k] = sketch[k]
  BY <1>n, <1>0 DEF TypeOK
<1>2. /\ decoded \subseteq decoded' /\ decoded' \in SUBSET Element
      /\ peeling' \in [decoded' -> 1 .. Beyond]
      /\ local_only' \in SUBSET Element /\ remote_only' \in SUBSET Element
      /\ \A e \in decoded' : peeling'[e] = IF e \in decoded THEN due[e] ELSE 1
      /\ \A e \in Element : cell.sum = {e} => e \in decoded'
      /\ FoundInv'
  BY <1>n, <1>0, <1>1, TryMarkWorks
<1>3. /\ n = subtracted + 1 /\ Len(other) = n /\ n <= MaxCells /\ subtracted \in Nat
      /\ Subtracted' = n /\ Diff' = Diff
  BY <1>n, <1>0 DEF ControlInv, Subtracted, Diff, TypeOK
<1>4. /\ Diff \subseteq Element
      /\ \A e \in Element : 1 \in mapping[e] /\ mapping[e] \subseteq 1 .. Beyond
  BY <1>0 DEF TypeOK, Diff, Xor, Mapping
<1>5. MaxCells \in Nat BY RibltAssumption
<1>6. TypeOK' BY <1>0, <1>1, <1>2 DEF TypeOK
<1>7. ControlInv' BY <1>n, <1>0, <1>1, <1>3 DEF ControlInv
<1>8. CursorsInv'
  <2>1. \A e \in decoded' :
          /\ peeling'[e] \in mapping[e]
          /\ \A k \in mapping[e] : k > n => peeling'[e] <= k
    BY <1>n, <1>2, <1>4
  <2>2. /\ \A e \in local' : DueAfter(e, local_next[e], Len(sketch))'
        /\ \A e \in remote' : DueAfter(e, remote_next[e], Len(sketch))'
    BY <1>n, <1>0, <1>1 DEF CursorsInv, DueAfter
  <2>3. QED BY <1>3, <2>1, <2>2 DEF CursorsInv
<1>9. \A k \in 1 .. n : Content(k)' =
        IF k = i THEN cell.sum ELSE {e \in Mapped(Diff, k) : e \in decoded => k >= due[e]}
  <2>1. ASSUME NEW k \in 1 .. n
        PROVE  Content(k)' = {e \in Mapped(Diff, k) : e \in decoded => k >= due[e]}
    <3>1. Content(k)' = {e \in Mapped(Diff, k) : e \in decoded' => k >= peeling'[e]}
      BY <1>3 DEF Content, Mapped
    <3>2. \A e \in Diff : (e \in decoded' => k >= peeling'[e])
                           <=> (e \in decoded => k >= due[e])
      BY <1>2
    <3>3. QED BY <3>1, <3>2 DEF Mapped
  <2>2. QED BY <1>n, <2>1
<1>10. \A k \in 1 .. n : k # i => Content(k)' = Content(k)
  <2>1. ASSUME NEW k \in 1 .. n, k # i PROVE Content(k)' = Content(k)
    <3>1. Content(k)' = {e \in Mapped(Diff, k) : e \in decoded => k >= due[e]}
      BY <1>9, <2>1
    <3>2. Content(k) = {e \in Mapped(Diff, k) : e \in decoded => k >= peeling[e]}
      BY <1>n, <2>1 DEF Content
    <3>3. \A e \in decoded : k \in mapping[e] => (k >= due[e] <=> k >= peeling[e])
      BY <1>n, <2>1
    <3>4. QED BY <3>1, <3>2, <3>3 DEF Mapped
  <2>2. QED BY <2>1
<1>11. CellsTell'
  <2>1. ASSUME NEW k \in 1 .. n
        PROVE  /\ sketch'[k].sum = Content(k)'
               /\ sketch'[k].count = Cardinality(Content(k)' \cap local)
                                      - Cardinality(Content(k)' \ local)
               /\ other[k].sum = Mapped(remote, k)'
               /\ other[k].count = Cardinality(other[k].sum)
    <3>0. Mapped(remote, k)' = Mapped(remote, k) BY DEF Mapped
    <3>1. /\ other[k].sum = Mapped(remote, k)
          /\ other[k].count = Cardinality(other[k].sum)
          /\ sketch[k].sum = Content(k)
          /\ sketch[k].count = Cardinality(Content(k) \cap local)
                                 - Cardinality(Content(k) \ local)
      BY <1>n, <1>0 DEF CellsTell
    <3>2. CASE k = i
      <4>1. Content(k)' = cell.sum /\ sketch'[k] = cell BY <1>1, <1>9, <3>2
      <4>2. QED BY <3>0, <3>1, <4>1
    <3>3. CASE k # i
      <4>1. Content(k)' = Content(k) /\ sketch'[k] = sketch[k] BY <1>1, <1>10, <3>3
      <4>2. QED BY <3>0, <3>1, <4>1
    <3>4. QED BY <3>2, <3>3
  <2>2. QED BY <1>1, <2>1 DEF CellsTell
<1>12. TriedInv'
  <2>1. ASSUME NEW k \in 1 .. n, NEW e \in Element, sketch'[k].sum = {e}
        PROVE  e \in decoded'
    <3>1. CASE k = i BY <1>1, <1>2, <2>1, <3>1
    <3>2. CASE k # i
      <4>1. k <= Subtracted /\ sketch[k].sum = {e} BY <1>n, <1>1, <2>1, <3>2
      <4>2. e \in decoded BY <1>n, <1>0, <4>1 DEF TriedInv
      <4>3. QED BY <1>2, <4>2
    <3>3. QED BY <3>1, <3>2
  <2>2. QED BY <1>1, <2>1 DEF TriedInv
<1>13. QED BY <1>2, <1>6, <1>7, <1>8, <1>11, <1>12 DEF IInv

\* The difference of two sizes is that of the parts that differ.
LEMMA SizesDiffer ==
  ASSUME NEW S \in SUBSET Element, NEW T \in SUBSET Element
  PROVE  Cardinality(S) - Cardinality(T) = Cardinality(S \ T) - Cardinality(T \ S)
<1>1. /\ IsFiniteSet(S) /\ IsFiniteSet(T)
      /\ Cardinality(S) \in Nat /\ Cardinality(T) \in Nat
      /\ Cardinality(S \cap T) \in Nat
  BY SymbolsFinite
<1>2. Cardinality(S \ T) = Cardinality(S) - Cardinality(S \cap T)
  BY <1>1, FS_Difference
<1>3. Cardinality(T \ S) = Cardinality(T) - Cardinality(T \cap S)
  BY <1>1, FS_Difference
<1>4. T \cap S = S \cap T OBVIOUS
<1>5. Cardinality(T \cap S) = Cardinality(S \cap T) BY <1>4, Zenon
<1>6. QED BY <1>1, <1>2, <1>3, <1>5

\* What self has in a cell and other has not, or the other way round.
LEMMA SubtractInv == ASSUME IInv, Subtract PROVE IInv'
<1>n. PICK n \in Nat : n = Len(sketch) BY DEF IInv, TypeOK
<1>0. TypeOK /\ ControlInv /\ CursorsInv /\ CellsTell /\ pc = "subtract"
  BY DEF IInv, Subtract
<1>1. /\ n = subtracted + 1 /\ subtracted \in Nat /\ Len(other) = n /\ n \in 1 .. n
      /\ Subtracted = n - 1
  BY <1>n, <1>0 DEF ControlInv, TypeOK, Subtracted
<1> DEFINE cell == [sum |-> Xor(sketch[n].sum, other[n].sum),
                    count |-> sketch[n].count - other[n].count]
           mine == Mapped(local, n)
           theirs == Mapped(remote, n)
<1>2. /\ sketch' = [sketch EXCEPT ![n] = cell] /\ TryMark(cell, peeling) /\ pc' = "peel"
      /\ UNCHANGED <<local, remote, mapping, local_next, remote_next, other, subtracted>>
  BY <1>1 DEF Subtract
<1>3. mine \in SUBSET Element /\ theirs \in SUBSET Element /\ mine \subseteq local
  BY <1>0 DEF TypeOK, Mapped
<1>4. /\ Mapped(Diff, n) = Xor(mine, theirs)
      /\ Xor(mine, theirs) \cap local = mine \ theirs
      /\ Xor(mine, theirs) \ local = theirs \ mine
  BY DEF Diff, Xor, Mapped
<1> HIDE DEF mine, theirs
<1>5. /\ sketch[n].sum = mine /\ other[n].sum = theirs
      /\ sketch[n].count = Cardinality(mine) /\ other[n].count = Cardinality(theirs)
  <2>1. Content(n) = mine BY <1>1 DEF Content, mine
  <2>2. /\ sketch[n].sum = Content(n) /\ other[n].sum = theirs
        /\ sketch[n].count = Cardinality(Content(n) \cap local)
                               - Cardinality(Content(n) \ local)
        /\ other[n].count = Cardinality(other[n].sum)
    BY <1>n, <1>0, <1>1 DEF CellsTell, theirs
  <2>3. Cardinality(mine) = Cardinality(mine \cap local) - Cardinality(mine \ local)
    BY <1>3, OneSided
  <2>4. QED BY <2>1, <2>2, <2>3
<1>6. /\ cell.sum = Xor(mine, theirs)
      /\ cell.count = Cardinality(mine) - Cardinality(theirs)
  BY <1>5
<1>7. cell \in CodedSymbol
  <2>1. Xor(mine, theirs) \in SUBSET Element BY <1>3 DEF Xor
  <2>2. Cardinality(mine) \in Nat /\ Cardinality(theirs) \in Nat
    BY <1>3, SymbolsFinite
  <2>3. QED BY <1>5, <2>1, <2>2 DEF CodedSymbol
<1> HIDE DEF cell
<1>8. cell.count = Cardinality(cell.sum \cap local) - Cardinality(cell.sum \ local)
  <2>1. cell.count = Cardinality(mine \ theirs) - Cardinality(theirs \ mine)
    BY <1>3, <1>6, SizesDiffer
  <2>2. cell.sum \cap local = mine \ theirs /\ cell.sum \ local = theirs \ mine
    BY <1>4, <1>6
  <2>3. QED BY <2>1, <2>2
<1>9. \A e \in decoded :
        /\ peeling[e] \in mapping[e]
        /\ \A k \in mapping[e] : k > n - 1 => peeling[e] <= k
  BY <1>0, <1>1 DEF CursorsInv
<1>10. cell.sum = {e \in Mapped(Diff, n) : e \in decoded => n >= peeling[e]}
  <2>1. \A e \in Mapped(Diff, n) : e \in decoded => n >= peeling[e]
    <3>1. \A e \in decoded : peeling[e] \in Int BY <1>0 DEF TypeOK, Beyond
    <3>2. QED BY <1>9, <3>1 DEF Mapped
  <2>2. QED BY <1>4, <1>6, <2>1
<1>11. \A e \in decoded : \A k \in mapping[e] : k > n => peeling[e] <= k
  <2>1. \A e \in decoded : mapping[e] \subseteq Int
    BY <1>0 DEF TypeOK, Mapping, Beyond
  <2>2. QED BY <1>9, <2>1
<1>12. \A k \in 1 .. n : k # n => k <= Subtracted BY <1>1
<1>13. peeling \in [decoded -> 1 .. Beyond] BY <1>0 DEF TypeOK
<1>14. QED BY <1>n, <1>0, <1>1, <1>2, <1>7, <1>8, <1>9, <1>10, <1>11, <1>12, <1>13,
              CellReplaced

\* A decoded symbol leaves a cell that still holds it.
LEMMA PeelInv == ASSUME IInv, NEW e \in Element, Peel(e) PROVE IInv'
<1>n. PICK n \in Nat : n = Len(sketch) BY DEF IInv, TypeOK
<1>0. /\ TypeOK /\ ControlInv /\ CursorsInv /\ CellsTell /\ FoundInv
      /\ pc = "peel" /\ e \in decoded /\ peeling[e] <= n
  BY <1>n DEF IInv, Peel
<1>1. PICK i \in Nat : i = peeling[e]
  BY <1>0, RibltAssumption DEF TypeOK, Beyond
<1>2. /\ i \in 1 .. n /\ i \in 1 .. MaxCells /\ Subtracted = n
      /\ n = subtracted + 1 /\ MaxCells \in Nat
  BY <1>n, <1>0, <1>1, RibltAssumption DEF TypeOK, ControlInv, Subtracted
<1> DEFINE cell == [sum |-> Xor(sketch[i].sum, {e}),
                    count |-> sketch[i].count + (IF e \in local_only THEN -1 ELSE 1)]
           due == [peeling EXCEPT ![e] = NextIndex(e, i)]
<1>3. /\ sketch' = [sketch EXCEPT ![i] = cell] /\ TryMark(cell, due) /\ pc' = "peel"
      /\ UNCHANGED <<local, remote, mapping, local_next, remote_next, other, subtracted>>
  BY <1>0, <1>1 DEF Peel
<1>4. DueAfter(e, NextIndex(e, i), i) /\ NextIndex(e, i) \in 1 .. Beyond
  BY <1>0, <1>2, NextIndexDue
<1>5. /\ due \in [decoded -> 1 .. Beyond]
      /\ due[e] = NextIndex(e, i)
      /\ \A f \in decoded : f # e => due[f] = peeling[f]
  BY <1>0, <1>4 DEF TypeOK
<1>6. /\ i \in mapping[e] /\ e \in Diff /\ Diff \subseteq Element
      /\ \A f \in Element : mapping[f] \subseteq Int
  BY <1>0, <1>1 DEF CursorsInv, FoundInv, TypeOK, Diff, Xor, Mapping, Beyond
<1>7. /\ sketch[i].sum = {f \in Mapped(Diff, i) : f \in decoded => i >= peeling[f]}
      /\ sketch[i].count = Cardinality(sketch[i].sum \cap local)
                             - Cardinality(sketch[i].sum \ local)
  <2>1. Content(i) = {f \in Mapped(Diff, i) : f \in decoded => i >= peeling[f]}
    BY <1>2 DEF Content
  <2>2. /\ sketch[i].sum = Content(i)
        /\ sketch[i].count = Cardinality(Content(i) \cap local)
                               - Cardinality(Content(i) \ local)
    BY <1>n, <1>0, <1>2 DEF CellsTell
  <2>3. QED BY <2>1, <2>2
<1>8. e \in sketch[i].sum /\ sketch[i].sum \in SUBSET Element /\ sketch[i].count \in Int
  <2>1. e \in sketch[i].sum BY <1>1, <1>2, <1>6, <1>7 DEF Mapped
  <2>2. sketch[i] \in CodedSymbol
    <3>1. sketch \in Seq(CodedSymbol) BY <1>0 DEF TypeOK
    <3>2. i \in 1 .. Len(sketch) BY <1>n, <1>2
    <3>3. QED BY <3>1, <3>2
  <2>3. QED BY <2>1, <2>2 DEF CodedSymbol
<1>9. cell.sum = sketch[i].sum \ {e} BY <1>8 DEF Xor
<1>10. cell \in CodedSymbol BY <1>8, <1>9 DEF CodedSymbol
<1>11. cell.count = Cardinality(cell.sum \cap local) - Cardinality(cell.sum \ local)
  <2> DEFINE here == sketch[i].sum \cap local
             there == sketch[i].sum \ local
  <2>1. /\ IsFiniteSet(here) /\ Cardinality(here) \in Nat
        /\ IsFiniteSet(there) /\ Cardinality(there) \in Nat
    BY <1>8, SymbolsFinite
  <2>2. e \in local_only <=> e \in local BY <1>0 DEF FoundInv
  <2>3. CASE e \in local
    <3>1. cell.sum \cap local = here \ {e} /\ cell.sum \ local = there
      BY <1>9, <2>3
    <3>2. Cardinality(here \ {e}) = Cardinality(here) - 1
      <4>1. e \in here BY <1>8, <2>3
      <4> HIDE DEF here
      <4>2. QED BY <2>1, <4>1, FS_RemoveElement
    <3>3. cell.count = sketch[i].count - 1 BY <1>8, <2>2, <2>3
    <3>4. sketch[i].count = Cardinality(here) - Cardinality(there) BY <1>7
    <3>5. /\ Cardinality(cell.sum \cap local) = Cardinality(here \ {e})
          /\ Cardinality(cell.sum \ local) = Cardinality(there)
      BY <3>1, Zenon
    <3> HIDE DEF here, there, cell
    <3>6. QED BY <2>1, <3>2, <3>3, <3>4, <3>5
  <2>4. CASE e \notin local
    <3>1. cell.sum \cap local = here /\ cell.sum \ local = there \ {e}
      BY <1>9, <2>4
    <3>2. Cardinality(there \ {e}) = Cardinality(there) - 1
      <4>1. e \in there BY <1>8, <2>4
      <4> HIDE DEF there
      <4>2. QED BY <2>1, <4>1, FS_RemoveElement
    <3>3. cell.count = sketch[i].count + 1 BY <1>8, <2>2, <2>4
    <3>4. sketch[i].count = Cardinality(here) - Cardinality(there) BY <1>7
    <3>5. /\ Cardinality(cell.sum \cap local) = Cardinality(here)
          /\ Cardinality(cell.sum \ local) = Cardinality(there \ {e})
      BY <3>1, Zenon
    <3> HIDE DEF here, there, cell
    <3>6. QED BY <2>1, <3>2, <3>3, <3>4, <3>5
  <2>5. QED BY <2>3, <2>4
<1> HIDE DEF cell, due
<1>12. cell.sum = {f \in Mapped(Diff, i) : f \in decoded => i >= due[f]}
  <2>1. ~(i >= due[e]) BY <1>2, <1>4, <1>5 DEF DueAfter, Beyond
  <2>2. QED BY <1>0, <1>5, <1>7, <1>9, <2>1
<1>13. \A f \in decoded :
         /\ due[f] \in mapping[f]
         /\ \A k \in mapping[f] : k > n => due[f] <= k
  <2>1. ASSUME NEW f \in decoded
        PROVE  /\ due[f] \in mapping[f]
               /\ \A k \in mapping[f] : k > n => due[f] <= k
    <3>1. CASE f = e
      <4>1. mapping[e] \subseteq Int BY <1>6
      <4>2. QED BY <1>2, <1>4, <1>5, <3>1, <4>1 DEF DueAfter
    <3>2. CASE f # e BY <1>0, <1>2, <1>5, <3>2 DEF CursorsInv
    <3>3. QED BY <3>1, <3>2
  <2>2. QED BY <2>1
<1>14. \A k \in 1 .. n : k # i =>
         /\ k <= Subtracted
         /\ \A f \in decoded : k \in mapping[f] => (k >= due[f] <=> k >= peeling[f])
  <2>1. ASSUME NEW k \in 1 .. n, k # i, NEW f \in decoded, k \in mapping[f]
        PROVE  k >= due[f] <=> k >= peeling[f]
    <3>1. CASE f = e
      <4>1. NextIndex(e, i) \in Int /\ NextIndex(e, i) > i
            /\ (k > i => NextIndex(e, i) <= k)
        BY <1>4, <2>1, <3>1 DEF DueAfter, Beyond
      <4>2. QED BY <1>1, <1>2, <1>5, <2>1, <3>1, <4>1
    <3>2. CASE f # e BY <1>5, <3>2
    <3>3. QED BY <3>1, <3>2
  <2>2. QED BY <1>2, <2>1
<1>15. QED BY <1>n, <1>0, <1>2, <1>3, <1>5, <1>10, <1>11, <1>12, <1>13, <1>14,
              CellReplaced

\* Moving on changes nothing that the invariant speaks of, but its phase.
LEMMA PeeledInv == ASSUME IInv, Peeled PROVE IInv'
<1>n. PICK n \in Nat : n = Len(sketch) BY DEF IInv, TypeOK
<1>0. /\ TypeOK /\ ControlInv /\ CursorsInv /\ CellsTell /\ FoundInv /\ TriedInv
      /\ pc = "peel" /\ \A e \in decoded : peeling[e] > n
  BY <1>n DEF IInv, Peeled
<1>1. n = subtracted + 1 /\ subtracted \in Nat BY <1>n, <1>0 DEF ControlInv, TypeOK
<1>2. /\ UNCHANGED <<local, remote, mapping, local_next, remote_next, sketch, other,
                     local_only, remote_only, peeling>>
      /\ subtracted' = n /\ pc' = "check"
  BY <1>n, <1>1 DEF Peeled
<1>3. /\ decoded' = decoded /\ Diff' = Diff /\ Subtracted = n /\ Subtracted' = n
  BY <1>0, <1>1, <1>2 DEF decoded, Diff, Subtracted
<1>4. TypeOK' BY <1>0, <1>1, <1>2, <1>3 DEF TypeOK
<1>5. ControlInv' BY <1>n, <1>0, <1>1, <1>2 DEF ControlInv
<1>6. CursorsInv' BY <1>0, <1>2, <1>3 DEF CursorsInv, DueAfter
<1>7. CellsTell'
  <2>1. \A i : Content(i)' = Content(i) /\ Mapped(remote, i)' = Mapped(remote, i)
    BY <1>2, <1>3 DEF Content, Mapped
  <2>2. QED BY <1>0, <1>2, <2>1 DEF CellsTell
<1>8. FoundInv' BY <1>0, <1>2, <1>3 DEF FoundInv
<1>9. TriedInv' BY <1>0, <1>2, <1>3 DEF TriedInv
<1>10. QED BY <1>4, <1>5, <1>6, <1>7, <1>8, <1>9 DEF IInv

\* The same for is_decoded, which only looks.
LEMMA CheckInv == ASSUME IInv, Check PROVE IInv'
<1>n. PICK n \in Nat : n = Len(sketch) BY DEF IInv, TypeOK
<1>0. /\ TypeOK /\ ControlInv /\ CursorsInv /\ CellsTell /\ FoundInv /\ TriedInv
      /\ pc = "check"
  BY DEF IInv, Check
<1>1. /\ UNCHANGED <<local, remote, mapping, local_next, remote_next, sketch, other,
                     subtracted, local_only, remote_only, peeling>>
      /\ pc' \in {"done", "extend"} /\ (pc' = "done" => Empty(sketch[1]))
  BY DEF Check
<1>2. /\ decoded' = decoded /\ Diff' = Diff /\ Subtracted' = Subtracted
  BY <1>0, <1>1 DEF decoded, Diff, Subtracted
<1>3. TypeOK' BY <1>0, <1>1, <1>2 DEF TypeOK
<1>4. ControlInv' BY <1>0, <1>1 DEF ControlInv, Empty
<1>5. CursorsInv' BY <1>0, <1>1, <1>2 DEF CursorsInv, DueAfter
<1>6. CellsTell'
  <2>1. \A i : Content(i)' = Content(i) /\ Mapped(remote, i)' = Mapped(remote, i)
    BY <1>1, <1>2 DEF Content, Mapped
  <2>2. QED BY <1>0, <1>1, <2>1 DEF CellsTell
<1>7. FoundInv' BY <1>0, <1>1, <1>2 DEF FoundInv
<1>8. TriedInv' BY <1>0, <1>1, <1>2 DEF TriedInv
<1>9. QED BY <1>3, <1>4, <1>5, <1>6, <1>7, <1>8 DEF IInv

\* Every step of find_all_differences keeps the invariant: each cell holds what
\* is mapped to it and neither cancelled nor peeled off.
THEOREM RibltInvariant == Safety => []IInv
<1>1. Init => IInv BY InitInv
<1>2. IInv /\ [Next]_vars => IInv'
  <2> SUFFICES ASSUME IInv, [Next]_vars PROVE IInv' OBVIOUS
  <2>1. CASE Extend BY <2>1, ExtendInv
  <2>2. CASE Subtract BY <2>2, SubtractInv
  <2>3. ASSUME NEW e \in Element, Peel(e) PROVE IInv' BY <2>3, PeelInv
  <2>4. CASE Peeled BY <2>4, PeeledInv
  <2>5. CASE Check BY <2>5, CheckInv
  <2>6. CASE UNCHANGED vars
    <3>1. UNCHANGED <<local, remote, mapping, local_next, remote_next, sketch, other,
                      subtracted, local_only, remote_only, peeling, pc>>
      BY <2>6 DEF vars
    <3>2. decoded' = decoded /\ Diff' = Diff /\ Subtracted' = Subtracted
      BY <3>1 DEF decoded, Diff, Subtracted
    <3>3. \A i : Content(i)' = Content(i) /\ Mapped(remote, i)' = Mapped(remote, i)
      BY <3>1, <3>2 DEF Content, Mapped
    <3>4. TypeOK' BY <3>1, <3>2 DEF IInv, TypeOK
    <3>5. ControlInv' BY <3>1 DEF IInv, ControlInv, Empty
    <3>6. CursorsInv' BY <3>1, <3>2 DEF IInv, CursorsInv, DueAfter
    <3>7. CellsTell' BY <3>1, <3>3 DEF IInv, CellsTell
    <3>8. FoundInv' BY <3>1, <3>2 DEF IInv, FoundInv
    <3>9. TriedInv' BY <3>1, <3>2 DEF IInv, TriedInv
    <3>10. QED BY <3>4, <3>5, <3>6, <3>7, <3>8, <3>9 DEF IInv
  <2>7. QED BY <2>1, <2>2, <2>3, <2>4, <2>5, <2>6 DEF Next, Halted
<1>3. QED BY <1>1, <1>2, PTL DEF Safety

\* Whatever the two sketches went through, each cell tells exactly what it should.
THEOREM CellsHold == Safety => []CellsTell
<1>1. IInv => CellsTell BY DEF IInv
<1>2. QED BY <1>1, RibltInvariant, PTL

\* A decoder that asks for another cell has found all that its cells can tell.
THEOREM PeelsAll == Safety => []NothingLeftToPeel
<1>1. IInv => NothingLeftToPeel
  <2> SUFFICES ASSUME IInv, pc = "extend", NEW i \in 1 .. Len(sketch),
                      NEW e \in Diff \ decoded, i \in mapping[e],
                      \A f \in (Diff \ decoded) \ {e} : i \notin mapping[f]
               PROVE  FALSE
    BY DEF NothingLeftToPeel
  <2>1. PICK n \in Nat : n = Len(sketch) BY DEF IInv, TypeOK
  <2>2. n = subtracted /\ Subtracted = n BY <2>1 DEF IInv, ControlInv, Subtracted
  <2>3. \A f \in decoded : peeling[f] \in Int /\ peeling[f] > n
    BY <2>2 DEF IInv, CursorsInv, TypeOK, Beyond
  <2>4. sketch[i].sum = {f \in Mapped(Diff, i) : f \in decoded => i >= peeling[f]}
    <3>1. Content(i) = {f \in Mapped(Diff, i) : f \in decoded => i >= peeling[f]}
      BY <2>1, <2>2 DEF Content
    <3>2. sketch[i].sum = Content(i) BY DEF IInv, CellsTell
    <3>3. QED BY <3>1, <3>2
  <2>5. sketch[i].sum = {e} BY <2>1, <2>3, <2>4 DEF Mapped
  <2>6. e \in Element BY DEF IInv, TypeOK, Diff, Xor
  <2>7. e \in decoded BY <2>1, <2>2, <2>5, <2>6 DEF IInv, TriedInv
  <2>8. QED BY <2>7
<1>2. QED BY <1>1, RibltInvariant, PTL

\* What has been found when the first cell is empty.
AllFound ==
  /\ local_only = local \ remote /\ remote_only = remote \ local
  /\ Len(sketch) \in Nat \ {0}
  /\ Len(sketch) >= Cardinality((local \ remote) \cup (remote \ local))

\* A decoder whose first cell is empty has found both sides of the difference,
\* and each symbol of them in a cell of its own.
LEMMA FoundAll == IInv /\ pc = "done" => AllFound
<1> SUFFICES ASSUME IInv, pc = "done" PROVE AllFound OBVIOUS
<1>1. PICK n \in Nat : n = Len(sketch) BY DEF IInv, TypeOK
<1>2. n > 0 /\ n = subtracted /\ Subtracted = n /\ sketch[1].sum = {}
  BY <1>1 DEF IInv, ControlInv, Subtracted, Empty
<1>3. {f \in Mapped(Diff, 1) : f \in decoded => 1 >= peeling[f]} = {}
  <2>1. Content(1) = {f \in Mapped(Diff, 1) : f \in decoded => 1 >= peeling[f]}
    BY <1>2 DEF Content
  <2>2. sketch[1].sum = Content(1)
    <3>1. 1 \in 1 .. Len(sketch) BY <1>1, <1>2
    <3>2. CellsTell BY DEF IInv
    <3>3. QED BY <3>1, <3>2 DEF CellsTell
  <2>3. QED BY <1>2, <2>1, <2>2
<1>4. /\ Diff \subseteq Element
      /\ Diff = (local \ remote) \cup (remote \ local)
      /\ \A e \in Element : 1 \in mapping[e]
  BY DEF IInv, TypeOK, Mapping, Diff, Xor
<1>5. Diff \subseteq decoded BY <1>3, <1>4 DEF Mapped
<1>6. /\ decoded = Diff
      /\ local_only = decoded \cap local /\ remote_only = decoded \cap remote
  BY <1>5 DEF IInv, FoundInv
<1>7. n >= Cardinality(decoded)
  <2>1. PICK home \in [decoded -> 1 .. n] :
          \A e, f \in decoded : home[e] = home[f] => e = f
    BY <1>1 DEF IInv, FoundInv
  <2>2. home \in Injection(decoded, 1 .. n) BY <2>1 DEF Injection, IsInjective
  <2>3. IsFiniteSet(1 .. n) /\ Cardinality(1 .. n) = n BY FS_Interval
  <2>4. QED BY <2>2, <2>3, FS_Injection
<1>8. QED BY <1>1, <1>2, <1>4, <1>6, <1>7 DEF AllFound

\* find_all_differences implements an exact decode.
THEOREM RibltRefines == Safety => FindsDifference
<1>1. Init => Exact!Init
  BY DEF Init, Exact!Init, Outcome, Exact!NotYet
<1>2. IInv /\ pc = "done" => AllFound BY FoundAll
<1>3. (pc = "done" => AllFound)' /\ [Next]_vars => [Exact!Decode]_Exact!vars
  <2> SUFFICES ASSUME pc' = "done" => AllFound', [Next]_vars
               PROVE  [Exact!Decode]_Exact!vars
    OBVIOUS
  <2>1. UNCHANGED <<local, remote>>
    BY DEF Next, Extend, Subtract, Peel, Peeled, Check, Halted, vars
  <2>2. CASE pc # "done" /\ pc' = "done"
    <3>1. /\ local_only' = local \ remote /\ remote_only' = remote \ local
          /\ Len(sketch') \in Nat \ {0}
          /\ Len(sketch') >= Cardinality((local \ remote) \cup (remote \ local))
      BY <2>1, <2>2 DEF AllFound
    <3>2. Outcome = Exact!NotYet BY <2>2 DEF Outcome, Exact!NotYet
    <3>3. Outcome' = Exact!Found(Len(sketch'))
      BY <2>2, <3>1 DEF Outcome, Exact!Found
    <3>4. Outcome'.known /\ Outcome'.consumed = Len(sketch')
      BY <2>2 DEF Outcome
    <3>5. QED BY <2>1, <3>1, <3>2, <3>3, <3>4 DEF Exact!Decode, Exact!Cardinality, Cardinality
  <2>3. CASE pc = "done"
    <3>1. UNCHANGED vars
      BY <2>3 DEF Next, Extend, Subtract, Peel, Peeled, Check, Halted
    <3>2. Outcome' = Outcome BY <3>1 DEF vars, Outcome
    <3>3. QED BY <2>1, <3>2 DEF Exact!vars
  <2>4. CASE pc # "done" /\ pc' # "done"
    <3>1. Outcome' = Outcome BY <2>4 DEF Outcome
    <3>2. QED BY <2>1, <3>1 DEF Exact!vars
  <2>5. QED BY <2>2, <2>3, <2>4
<1>4. QED BY <1>1, <1>2, <1>3, RibltInvariant, PTL DEF Safety, FindsDifference, Exact!Spec

=============================================================================
