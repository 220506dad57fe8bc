----------------------------- MODULE SumProofs ------------------------------
(***************************************************************************)
(* What the other proofs need of the library: smallest numbers and sets,   *)
(* and sums over finite sets, of integers and of natural numbers.  The     *)
(* fold that computes SumFunction is a function on the subsets of its      *)
(* index set, and what holds of every sum is shown of the smallest index   *)
(* set that it could fail on.                                              *)
(***************************************************************************)
EXTENDS Integers, FiniteSets, Functions, FiniteSetTheorems, WellFoundedInduction,
        TLAPS

\* A set of natural numbers that is not empty has a least member.
LEMMA LeastMember ==
  ASSUME NEW S \in SUBSET Nat, S # {}
  PROVE  \E m \in S : \A n \in S : m <= n
<1> DEFINE upto(n) == 0 .. n
           T == {upto(n) : n \in S}
           R == StrictSubsetOrdering(Nat)
<1>1. \A n \in Nat : upto(n) \in FiniteSubsetsOf(Nat)
  BY FS_Interval DEF FiniteSubsetsOf
<1>2. T \in SUBSET FiniteSubsetsOf(Nat) /\ T # {} BY <1>1
<1>3. IsWellFoundedOn(R, FiniteSubsetsOf(Nat))
  BY FS_StrictSubsetOrderingWellFounded
<1>4. PICK t \in T : \A u \in T : ~(<<u, t>> \in R)
  BY <1>2, <1>3, WFMin
<1>5. PICK m \in S : t = upto(m) OBVIOUS
<1>6. ASSUME NEW n \in S, n < m PROVE FALSE
  <2>1. upto(n) \subseteq upto(m) /\ upto(n) # upto(m)
    BY <1>6
  <2>2. upto(n) \in FiniteSubsetsOf(Nat) /\ upto(m) \in FiniteSubsetsOf(Nat) BY <1>1
  <2>3. <<upto(n), upto(m)>> \in R BY <2>1, <2>2 DEF StrictSubsetOrdering, FiniteSubsetsOf
  <2>4. QED BY <1>4, <1>5, <2>3
<1>7. QED BY <1>6

\* Of finite sets one is smallest.
LEMMA SmallestSet ==
  ASSUME NEW D, NEW T \in SUBSET FiniteSubsetsOf(D), T # {}
  PROVE  \E m \in T : \A s \in T : s \subseteq m => s = m
<1>1. IsWellFoundedOn(StrictSubsetOrdering(D), FiniteSubsetsOf(D))
  BY FS_StrictSubsetOrderingWellFounded
<1>2. PICK m \in T : \A s \in T : ~(<<s, m>> \in StrictSubsetOrdering(D))
  BY <1>1, WFMin
<1>3. ASSUME NEW s \in T, s \subseteq m, s # m PROVE FALSE
  BY <1>2, <1>3 DEF StrictSubsetOrdering, FiniteSubsetsOf
<1>4. QED BY <1>3

\* The summand that a fold takes first.
First(s) == CHOOSE x \in s : TRUE

\* The sums over the subsets of S, as the fold computes them.
Sums(f, S, g) ==
  g = [s \in SUBSET S |-> IF s = {} THEN 0 ELSE f[First(s)] + g[s \ {First(s)}]]

\* Two such families agree where both are defined.
LEMMA SumsAgree ==
  ASSUME NEW f, NEW S, IsFiniteSet(S), NEW R, NEW g, NEW h, Sums(f, S, g), Sums(f, R, h)
  PROVE  \A s \in SUBSET S : s \in SUBSET R => g[s] = h[s]
<1> DEFINE T == {s \in SUBSET S : s \in SUBSET R /\ g[s] # h[s]}
<1>1. ASSUME T # {} PROVE FALSE
  <2>1. T \in SUBSET FiniteSubsetsOf(S)
    <3>1. FiniteSubsetsOf(S) = SUBSET S BY FS_FiniteSubsetsOfFinite
    <3>2. T \subseteq SUBSET S OBVIOUS
    <3>3. QED BY <3>1, <3>2
  <2> HIDE DEF T
  <2>2. PICK m \in T : \A s \in T : s \subseteq m => s = m BY <1>1, <2>1, SmallestSet
  <2> USE DEF T
  <2>3. /\ g[m] = IF m = {} THEN 0 ELSE f[First(m)] + g[m \ {First(m)}]
        /\ h[m] = IF m = {} THEN 0 ELSE f[First(m)] + h[m \ {First(m)}]
    BY DEF Sums
  <2>4. m # {} => First(m) \in m BY DEF First
  <2>5. m # {} => m \ {First(m)} \notin T BY <2>2, <2>4
  <2>6. m # {} => g[m \ {First(m)}] = h[m \ {First(m)}] BY <2>5
  <2>7. QED BY <2>2, <2>3, <2>6
<1>2. QED BY <1>1

\* The sum is the last of such a family, if there is one.
LEMMA SumIsChosen ==
  ASSUME NEW f, NEW S
  PROVE  SumFunctionOnSet(f, S) = (CHOOSE g : Sums(f, S, g))[S]
BY DEF SumFunctionOnSet, FoldFunctionOnSet, MapThenFoldSet, Sums, First

\* There is one over every finite set.
LEMMA SumsExist ==
  ASSUME NEW f, NEW D, IsFiniteSet(D)
  PROVE  \A S \in SUBSET D : \E g : Sums(f, S, g)
<1> DEFINE T == {S \in SUBSET D : ~\E g : Sums(f, S, g)}
           V(s) == (CHOOSE g : Sums(f, s, g))[s]
<1>1. ASSUME T # {} PROVE FALSE
  <2>1. T \in SUBSET FiniteSubsetsOf(D)
    <3>1. FiniteSubsetsOf(D) = SUBSET D BY FS_FiniteSubsetsOfFinite
    <3>2. T \subseteq SUBSET D OBVIOUS
    <3>3. QED BY <3>1, <3>2
  <2> HIDE DEF T
  <2>2. PICK m \in T : \A s \in T : s \subseteq m => s = m BY <1>1, <2>1, SmallestSet
  <2> USE DEF T
  <2> DEFINE value(s) == IF s = {} THEN 0 ELSE f[First(s)] + V(s \ {First(s)})
             h == [s \in SUBSET m |-> value(s)]
  <2>3. ASSUME NEW s \in SUBSET m, s # m PROVE V(s) = value(s)
    <3>1. s \in SUBSET D /\ IsFiniteSet(s) BY FS_Subset
    <3>2. s \notin T BY <2>2, <2>3
    <3>3. \E g : Sums(f, s, g) BY <3>1, <3>2
    <3> DEFINE G == CHOOSE g : Sums(f, s, g)
    <3>4. Sums(f, s, G) BY <3>3
    <3> HIDE DEF G
    <3>5. G[s] = IF s = {} THEN 0 ELSE f[First(s)] + G[s \ {First(s)}]
      BY <3>4 DEF Sums
    <3>6. CASE s # {}
      <4> DEFINE r == s \ {First(s)}
      <4>1. First(s) \in s BY <3>6 DEF First
      <4>2. r \in SUBSET D /\ r \subseteq m /\ r # m BY <4>1, <3>1, <2>3
      <4>3. r \notin T BY <2>2, <4>2
      <4>4. \E g : Sums(f, r, g) BY <4>2, <4>3
      <4> DEFINE H == CHOOSE g : Sums(f, r, g)
      <4>5. Sums(f, r, H) BY <4>4
      <4> HIDE DEF H
      <4>6. r \in SUBSET s /\ r \in SUBSET r OBVIOUS
      <4> HIDE DEF r
      <4>7. G[r] = H[r] BY <3>1, <3>4, <4>5, <4>6, SumsAgree
      <4>8. V(r) = H[r] BY DEF H
      <4>9. V(s) = G[s] BY DEF G
      <4>10. QED BY <3>5, <3>6, <4>7, <4>8, <4>9 DEF r
    <3>7. CASE s = {} BY <3>5, <3>7 DEF G
    <3>8. QED BY <3>6, <3>7
  <2>4. ASSUME NEW s \in SUBSET m
        PROVE  h[s] = IF s = {} THEN 0 ELSE f[First(s)] + h[s \ {First(s)}]
    <3>1. s # {} => First(s) \in s BY DEF First
    <3>2. s # {} => s \ {First(s)} \in SUBSET m /\ s \ {First(s)} # m BY <3>1
    <3>3. s # {} => h[s \ {First(s)}] = V(s \ {First(s)}) BY <2>3, <3>2
    <3>4. QED BY <3>3
  <2>5. Sums(f, m, h)
    <3>1. h = [s \in SUBSET m |-> h[s]] OBVIOUS
    <3> HIDE DEF h
    <3>2. QED BY <2>4, <3>1 DEF Sums
  <2>6. QED BY <2>2, <2>5
<1>2. QED BY <1>1

\* How a sum over a finite set unfolds.
LEMMA SumUnfolds ==
  ASSUME NEW f, NEW S, IsFiniteSet(S)
  PROVE  SumFunctionOnSet(f, S) =
           IF S = {} THEN 0
           ELSE f[First(S)] + SumFunctionOnSet(f, S \ {First(S)})
<1> DEFINE G == CHOOSE g : Sums(f, S, g)
           r == S \ {First(S)}
           H == CHOOSE g : Sums(f, r, g)
<1>1. Sums(f, S, G) BY SumsExist
<1>2. Sums(f, r, H) BY SumsExist
<1>3. SumFunctionOnSet(f, S) = G[S] /\ SumFunctionOnSet(f, r) = H[r] BY SumIsChosen
<1>4. r \in SUBSET S OBVIOUS
<1> HIDE DEF G, H
<1>5. G[S] = IF S = {} THEN 0 ELSE f[First(S)] + G[r] BY <1>1 DEF Sums
<1> HIDE DEF r
<1>6. G[r] = H[r] BY <1>1, <1>2, <1>4, SumsAgree
<1>7. QED BY <1>3, <1>5, <1>6 DEF r

\* A sum of integers is one, and a sum of natural numbers is.
LEMMA SumClosed ==
  ASSUME NEW N, 0 \in N, \A n, k \in N : n + k \in N,
         NEW f, NEW D, IsFiniteSet(D), \A x \in D : f[x] \in N
  PROVE  \A S \in SUBSET D : SumFunctionOnSet(f, S) \in N
<1> DEFINE T == {S \in SUBSET D : SumFunctionOnSet(f, S) \notin N}
<1>1. ASSUME T # {} PROVE FALSE
  <2>1. T \in SUBSET FiniteSubsetsOf(D)
    <3>1. FiniteSubsetsOf(D) = SUBSET D BY FS_FiniteSubsetsOfFinite
    <3>2. T \subseteq SUBSET D OBVIOUS
    <3>3. QED BY <3>1, <3>2
  <2> HIDE DEF T
  <2>2. PICK m \in T : \A s \in T : s \subseteq m => s = m BY <1>1, <2>1, SmallestSet
  <2> USE DEF T
  <2>3. IsFiniteSet(m) BY FS_Subset
  <2>4. SumFunctionOnSet(f, m) = IF m = {} THEN 0
          ELSE f[First(m)] + SumFunctionOnSet(f, m \ {First(m)})
    BY <2>3, SumUnfolds
  <2>5. m # {} => First(m) \in m BY DEF First
  <2>6. m # {} => SumFunctionOnSet(f, m \ {First(m)}) \in N BY <2>2, <2>5
  <2>7. m # {} => f[First(m)] \in N BY <2>5
  <2>8. QED BY <2>2, <2>4, <2>6, <2>7
<1>2. QED BY <1>1

LEMMA SumType ==
  ASSUME NEW f, NEW D, IsFiniteSet(D), \A x \in D : f[x] \in Int
  PROVE  \A S \in SUBSET D : SumFunctionOnSet(f, S) \in Int
<1>1. 0 \in Int /\ \A n, k \in Int : n + k \in Int OBVIOUS
<1>2. QED BY <1>1, SumClosed

LEMMA SumOfNaturals ==
  ASSUME NEW f, NEW D, IsFiniteSet(D), \A x \in D : f[x] \in Nat
  PROVE  \A S \in SUBSET D : SumFunctionOnSet(f, S) \in Nat
<1>1. 0 \in Nat /\ \A n, k \in Nat : n + k \in Nat OBVIOUS
<1>2. QED BY <1>1, SumClosed

\* It does not matter which summand is taken first.
LEMMA SumSplits ==
  ASSUME NEW f, NEW D, IsFiniteSet(D), \A x \in D : f[x] \in Int
  PROVE  \A S \in SUBSET D : \A x \in S :
           SumFunctionOnSet(f, S) = f[x] + SumFunctionOnSet(f, S \ {x})
<1> DEFINE Sum(S) == SumFunctionOnSet(f, S)
           T == {S \in SUBSET D : \E x \in S : Sum(S) # f[x] + Sum(S \ {x})}
<1>1. ASSUME T # {} PROVE FALSE
  <2>1. T \in SUBSET FiniteSubsetsOf(D)
    <3>1. FiniteSubsetsOf(D) = SUBSET D BY FS_FiniteSubsetsOfFinite
    <3>2. T \subseteq SUBSET D OBVIOUS
    <3>3. QED BY <3>1, <3>2
  <2> HIDE DEF T
  <2>2. PICK m \in T : \A s \in T : s \subseteq m => s = m BY <1>1, <2>1, SmallestSet
  <2> USE DEF T
  <2>3. PICK x \in m : Sum(m) # f[x] + Sum(m \ {x}) BY <2>2
  <2>4. \A s \in SUBSET D : Sum(s) \in Int BY SumType
  <2>5. \A s \in SUBSET D : s # {} => First(s) \in s /\ Sum(s) = f[First(s)] + Sum(s \ {First(s)})
    BY FS_Subset, SumUnfolds DEF First
  <2> DEFINE c == First(m)
  <2>6. c \in m /\ Sum(m) = f[c] + Sum(m \ {c}) /\ c # x BY <2>3, <2>5
  <2>7. \A s \in SUBSET m : s # m => s \notin T BY <2>2
  <2> HIDE DEF c, Sum
  <2>8. Sum(m \ {c}) = f[x] + Sum((m \ {c}) \ {x}) BY <2>6, <2>7
  <2>9. Sum(m \ {x}) = f[c] + Sum((m \ {x}) \ {c}) BY <2>6, <2>7
  <2>10. (m \ {c}) \ {x} = (m \ {x}) \ {c} OBVIOUS
  <2>11. f[x] \in Int /\ f[c] \in Int /\ Sum((m \ {x}) \ {c}) \in Int BY <2>4, <2>6
  <2> DEFINE rest == Sum((m \ {x}) \ {c})
  <2>12. /\ Sum(m) = f[c] + (f[x] + rest) /\ Sum(m \ {x}) = f[c] + rest
         /\ rest \in Int
    BY <2>6, <2>8, <2>9, <2>10, <2>11
  <2> HIDE DEF rest
  <2>13. Sum(m) = f[x] + Sum(m \ {x}) BY <2>11, <2>12
  <2>14. QED BY <2>3, <2>13
<1>2. QED BY <1>1

\* The sum of a sum is the sum of the sums.
LEMMA SumAdds ==
  ASSUME NEW D, IsFiniteSet(D), NEW f, NEW g, NEW h,
         \A x \in D : f[x] \in Int /\ g[x] \in Int /\ h[x] = f[x] + g[x]
  PROVE  \A S \in SUBSET D :
           SumFunctionOnSet(h, S) = SumFunctionOnSet(f, S) + SumFunctionOnSet(g, S)
<1> DEFINE T == {S \in SUBSET D : SumFunctionOnSet(h, S) #
                                    SumFunctionOnSet(f, S) + SumFunctionOnSet(g, S)}
<1>1. ASSUME T # {} PROVE FALSE
  <2>1. T \in SUBSET FiniteSubsetsOf(D)
    <3>1. FiniteSubsetsOf(D) = SUBSET D BY FS_FiniteSubsetsOfFinite
    <3>2. T \subseteq SUBSET D OBVIOUS
    <3>3. QED BY <3>1, <3>2
  <2> HIDE DEF T
  <2>2. PICK m \in T : \A s \in T : s \subseteq m => s = m BY <1>1, <2>1, SmallestSet
  <2> USE DEF T
  <2> DEFINE c == First(m)
             r == m \ {c}
  <2>3. IsFiniteSet(m) BY FS_Subset
  <2>4. \A k : SumFunctionOnSet(k, m) =
          IF m = {} THEN 0 ELSE k[c] + SumFunctionOnSet(k, r)
    BY <2>3, SumUnfolds
  <2>5. m # {} => c \in m /\ r \in SUBSET D /\ r \notin T BY <2>2 DEF First
  <2>6. r \in SUBSET D OBVIOUS
  <2>7. SumFunctionOnSet(f, r) \in Int /\ SumFunctionOnSet(g, r) \in Int BY <2>6, SumType
  <2>8. m # {} => SumFunctionOnSet(h, r) = SumFunctionOnSet(f, r) + SumFunctionOnSet(g, r)
    BY <2>5
  <2> HIDE DEF c, r
  <2>9. CASE m # {} BY <2>2, <2>4, <2>5, <2>7, <2>8, <2>9
  <2>10. CASE m = {} BY <2>2, <2>4, <2>10
  <2>11. QED BY <2>9, <2>10
<1>2. QED BY <1>1

\* Zeros add up to zero.
LEMMA SumOfZeros ==
  ASSUME NEW D, IsFiniteSet(D), NEW f, \A x \in D : f[x] = 0
  PROVE  SumFunctionOnSet(f, D) = 0
<1> DEFINE n == SumFunctionOnSet(f, D)
<1>1. D \in SUBSET D OBVIOUS
<1>2. \A x \in D : f[x] \in Int /\ f[x] = f[x] + f[x] OBVIOUS
<1>3. n \in Int BY <1>1, <1>2, SumType
<1>4. n = n + n BY <1>1, <1>2, SumAdds
<1> HIDE DEF n
<1>5. n = 0 BY <1>3, <1>4
<1>6. QED BY <1>5 DEF n

\* Only the summands matter.
LEMMA SumSame ==
  ASSUME NEW D, IsFiniteSet(D), NEW f, NEW g,
         \A x \in D : f[x] \in Int /\ f[x] = g[x]
  PROVE  SumFunctionOnSet(f, D) = SumFunctionOnSet(g, D)
<1> DEFINE z == [x \in D |-> 0]
<1>1. SumFunctionOnSet(z, D) = 0 BY SumOfZeros
<1>2. \A x \in D : g[x] \in Int /\ z[x] \in Int /\ f[x] = g[x] + z[x] OBVIOUS
<1> HIDE DEF z
<1>3. D \in SUBSET D OBVIOUS
<1>4. SumFunctionOnSet(f, D) = SumFunctionOnSet(g, D) + SumFunctionOnSet(z, D)
  BY <1>2, <1>3, SumAdds
<1>5. SumFunctionOnSet(g, D) \in Int BY <1>2, <1>3, SumType
<1>6. QED BY <1>1, <1>4, <1>5

\* Families of summands: f has one for each member of D; h is the sum of f
\* and g; g is f with n added at a.
Summands(D, f) == f \in [D -> Int]

Counts(D, f) == f \in [D -> Nat]

Adds(D, f, g, h) == \A x \in D : h[x] = f[x] + g[x]

AddsAt(D, f, g, a, n) == \A x \in D : g[x] = IF x = a THEN f[x] + n ELSE f[x]

LEMMA CountsAreSummands ==
  ASSUME NEW D, NEW f, Counts(D, f)
  PROVE  Summands(D, f)
BY DEF Counts, Summands

\* What is added to one summand is added to the sum.
LEMMA SumOfUpdate ==
  ASSUME NEW D, IsFiniteSet(D), NEW f, NEW g, Summands(D, f), Summands(D, g),
         NEW a \in D, NEW n \in Int, AddsAt(D, f, g, a, n)
  PROVE  SumFunction(g) = SumFunction(f) + n
<1>1. /\ g[a] = f[a] + n
      /\ \A x \in D \ {a} : f[x] \in Int /\ f[x] = g[x]
      /\ \A x \in D : f[x] \in Int /\ g[x] \in Int
  BY DEF AddsAt, Summands
<1>2. D \in SUBSET D /\ D \ {a} \in SUBSET D /\ IsFiniteSet(D \ {a}) BY FS_Subset
<1>3. SumFunctionOnSet(f, D) = f[a] + SumFunctionOnSet(f, D \ {a})
  BY <1>1, <1>2, SumSplits
<1>4. SumFunctionOnSet(g, D) = g[a] + SumFunctionOnSet(g, D \ {a})
  BY <1>1, <1>2, SumSplits
<1>5. SumFunctionOnSet(f, D \ {a}) = SumFunctionOnSet(g, D \ {a})
  BY <1>1, <1>2, SumSame
<1>6. SumFunctionOnSet(f, D \ {a}) \in Int BY <1>1, <1>2, SumType
<1>7. SumFunction(g) = SumFunctionOnSet(g, D) /\ SumFunction(f) = SumFunctionOnSet(f, D)
  BY DEF SumFunction, Summands
<1>8. QED BY <1>1, <1>3, <1>4, <1>5, <1>6, <1>7

\* The sizes of sets, one for each member of D, add up to the number of pairs.
LEMMA SumOfSizes ==
  ASSUME NEW D, IsFiniteSet(D), NEW U, IsFiniteSet(U), NEW A \in [D -> SUBSET U],
         NEW f, \A x \in D : f[x] = Cardinality(A[x])
  PROVE  \A S \in SUBSET D :
           SumFunctionOnSet(f, S) = Cardinality({p \in S \X U : p[2] \in A[p[1]]})
<1> DEFINE pairs(S) == {p \in S \X U : p[2] \in A[p[1]]}
           T == {S \in SUBSET D : SumFunctionOnSet(f, S) # Cardinality(pairs(S))}
<1>0. \A S \in SUBSET D : IsFiniteSet(pairs(S)) /\ Cardinality(pairs(S)) \in Nat
  <2> SUFFICES ASSUME NEW S \in SUBSET D
               PROVE  IsFiniteSet(pairs(S)) /\ Cardinality(pairs(S)) \in Nat
    OBVIOUS
  <2>1. IsFiniteSet(S) BY FS_Subset
  <2>2. IsFiniteSet(S \X U) BY <2>1, FS_Product
  <2>3. pairs(S) \subseteq S \X U OBVIOUS
  <2>4. QED BY <2>2, <2>3, FS_Subset, FS_CardinalityType
<1>1. ASSUME T # {} PROVE FALSE
  <2>1. T \in SUBSET FiniteSubsetsOf(D)
    <3>1. FiniteSubsetsOf(D) = SUBSET D BY FS_FiniteSubsetsOfFinite
    <3>2. T \subseteq SUBSET D OBVIOUS
    <3>3. QED BY <3>1, <3>2
  <2> HIDE DEF T
  <2>2. PICK m \in T : \A s \in T : s \subseteq m => s = m BY <1>1, <2>1, SmallestSet
  <2> USE DEF T
  <2> DEFINE c == First(m)
             r == m \ {c}
  <2>3. SumFunctionOnSet(f, m) = IF m = {} THEN 0 ELSE f[c] + SumFunctionOnSet(f, r)
    BY FS_Subset, SumUnfolds
  <2>4. CASE m = {}
    <3>1. pairs(m) = {} BY <2>4
    <3>2. QED BY <2>2, <2>3, <2>4, <3>1, FS_EmptySet
  <2>5. CASE m # {}
    <3>1. c \in m /\ c \in D BY <2>5 DEF First
    <3>2. r \in SUBSET D /\ r \notin T BY <2>2, <3>1
    <3>3. SumFunctionOnSet(f, r) = Cardinality(pairs(r)) BY <3>2
    <3> DEFINE new == {c} \X A[c]
    <3>4. new \cup pairs(r) = pairs(m) /\ new \cap pairs(r) = {}
      BY <3>1
    <3>5. IsFiniteSet(A[c]) /\ IsFiniteSet({c}) /\ Cardinality({c}) = 1
          /\ Cardinality(A[c]) \in Nat
      BY <3>1, FS_Subset, FS_Singleton, FS_CardinalityType
    <3>6. IsFiniteSet(new) /\ Cardinality(new) = 1 * Cardinality(A[c])
      BY <3>5, FS_Product
    <3>7. IsFiniteSet(pairs(r)) /\ Cardinality(pairs(r)) \in Nat BY <1>0, <3>2
    <3> HIDE DEF new, pairs
    <3>8. Cardinality(pairs(m)) =
            Cardinality(new) + Cardinality(pairs(r)) - Cardinality(new \cap pairs(r))
      BY <3>4, <3>6, <3>7, FS_Union
    <3>9. Cardinality(new \cap pairs(r)) = 0 BY <3>4, FS_EmptySet
    <3> DEFINE x == Cardinality(new)
               y == Cardinality(pairs(r))
               z == Cardinality(A[c])
    <3> HIDE DEF x, y, z
    <3>10. x = 1 * z /\ z \in Nat /\ y \in Nat BY <3>5, <3>6, <3>7 DEF x, y, z
    <3>11. Cardinality(pairs(m)) = x + y - 0 BY <3>8, <3>9 DEF x, y
    <3>12. Cardinality(pairs(m)) = z + y BY <3>10, <3>11
    <3>13. f[c] = z BY <3>1 DEF z
    <3>14. Cardinality(pairs(m)) = f[c] + Cardinality(pairs(r))
      BY <3>12, <3>13 DEF y
    <3>15. QED BY <2>2, <2>3, <2>5, <3>3, <3>14
  <2>6. QED BY <2>4, <2>5
<1>2. QED BY <1>1

\* The sums of whole functions.
LEMMA FunctionSumType ==
  ASSUME NEW D, IsFiniteSet(D), NEW f, Counts(D, f)
  PROVE  SumFunction(f) \in Nat
<1>1. D \in SUBSET D OBVIOUS
<1>2. (\A x \in D : f[x] \in Nat) /\ SumFunction(f) = SumFunctionOnSet(f, D)
  BY DEF Counts, SumFunction
<1>3. SumFunctionOnSet(f, D) \in Nat BY <1>1, <1>2, SumOfNaturals
<1>4. QED BY <1>2, <1>3

LEMMA FunctionSumAdds ==
  ASSUME NEW D, IsFiniteSet(D), NEW f, NEW g, NEW h,
         Summands(D, f), Summands(D, g), Summands(D, h), Adds(D, f, g, h)
  PROVE  SumFunction(h) = SumFunction(f) + SumFunction(g)
<1>1. D \in SUBSET D OBVIOUS
<1>2. \A x \in D : f[x] \in Int /\ g[x] \in Int /\ h[x] = f[x] + g[x]
  BY DEF Summands, Adds
<1>3. SumFunctionOnSet(h, D) = SumFunctionOnSet(f, D) + SumFunctionOnSet(g, D)
  BY <1>1, <1>2, SumAdds
<1>4. QED BY <1>3 DEF Summands, SumFunction

LEMMA FunctionOfZeros ==
  ASSUME NEW D, IsFiniteSet(D)
  PROVE  SumFunction([x \in D |-> 0]) = 0
<1> DEFINE z == [x \in D |-> 0]
<1>1. (\A x \in D : z[x] = 0) /\ SumFunction(z) = SumFunctionOnSet(z, D)
  BY DEF SumFunction
<1> HIDE DEF z
<1>2. SumFunctionOnSet(z, D) = 0 BY <1>1, SumOfZeros
<1>3. QED BY <1>1, <1>2 DEF z

\* The sizes of sets add up to the number of pairs of an index and a member.
LEMMA FunctionSizes ==
  ASSUME NEW D, IsFiniteSet(D), NEW U, IsFiniteSet(U), NEW A \in [D -> SUBSET U]
  PROVE  SumFunction([x \in D |-> Cardinality(A[x])]) =
           Cardinality({p \in D \X U : p[2] \in A[p[1]]})
<1> DEFINE f == [x \in D |-> Cardinality(A[x])]
<1>1. D \in SUBSET D OBVIOUS
<1>2. SumFunction(f) = SumFunctionOnSet(f, D) BY DEF SumFunction
<1>3. \A x \in D : f[x] = Cardinality(A[x]) OBVIOUS
<1> HIDE DEF f
<1>4. SumFunctionOnSet(f, D) = Cardinality({p \in D \X U : p[2] \in A[p[1]]})
  BY <1>1, <1>3, SumOfSizes
<1>5. QED BY <1>2, <1>4 DEF f

=============================================================================
