-------------------------- MODULE EvaluationProofs --------------------------
(***************************************************************************)
(* What the evaluation binary reports, for whatever is listed, whatever    *)
(* the simulations return and however many there are: each of them counts  *)
(* for the fitness and the verdict, once and for its own cell.             *)
(***************************************************************************)
EXTENDS Evaluation, SumProofs, SequenceTheorems

-----------------------------------------------------------------------------
(* Flattened sequences                                                      *)

\* What FlattenSeq makes of the first n parts of s, for each of them.
Flat(s, n, g) ==
  g = [i \in 1 .. n |-> IF i = 1 THEN s[i] ELSE g[i - 1] \o s[i]]

\* The flattened sequence is the last of those.
LEMMA FlatIsChosen ==
  ASSUME NEW s, Len(s) # 0
  PROVE  FlattenSeq(s) = (CHOOSE g : Flat(s, Len(s), g))[Len(s)]
BY DEF FlattenSeq, Flat

\* They exist for every number of parts.
LEMMA FlatExists ==
  ASSUME NEW s
  PROVE  \A n \in Nat : \E g : Flat(s, n, g)
<1> DEFINE T == {n \in Nat : ~\E g : Flat(s, n, g)}
<1>1. ASSUME T # {} PROVE FALSE
  <2>1. T \in SUBSET Nat OBVIOUS
  <2> HIDE DEF T
  <2>2. PICK m \in T : \A n \in T : m <= n BY <1>1, <2>1, LeastMember
  <2> USE DEF T
  <2>3. CASE m = 0
    <3> DEFINE e == [i \in 1 .. 0 |-> 0]
    <3>1. e = [i \in 1 .. 0 |-> IF i = 1 THEN s[i] ELSE e[i - 1] \o s[i]] OBVIOUS
    <3>2. QED BY <2>2, <2>3, <3>1 DEF Flat
  <2>4. CASE m # 0
    <3>1. m - 1 \in Nat /\ m - 1 \notin T BY <2>2, <2>4
    <3>2. PICK g : Flat(s, m - 1, g) BY <3>1
    <3> DEFINE h == [i \in 1 .. m |-> IF i = m
                       THEN IF i = 1 THEN s[i] ELSE g[i - 1] \o s[i]
                       ELSE g[i]]
               step(i) == IF i = 1 THEN s[i] ELSE h[i - 1] \o s[i]
    <3>3. \A i \in 1 .. (m - 1) :
            g[i] = IF i = 1 THEN s[i] ELSE g[i - 1] \o s[i]
      BY <3>2, Zenon DEF Flat
    <3>4. ASSUME NEW i \in 1 .. m PROVE h[i] = step(i)
      <4>1. i # 1 => i - 1 \in 1 .. m /\ i - 1 # m BY <2>2
      <4>2. i # 1 => h[i - 1] = g[i - 1] BY <4>1
      <4>3. i # m => i \in 1 .. (m - 1) BY <2>2
      <4>4. i # m => h[i] = g[i] OBVIOUS
      <4>5. i = m => h[i] = IF i = 1 THEN s[i] ELSE g[i - 1] \o s[i] OBVIOUS
      <4> HIDE DEF h
      <4>6. QED BY <3>3, <4>2, <4>3, <4>4, <4>5
    <3>5. h = [i \in 1 .. m |-> h[i]] OBVIOUS
    <3>6. [i \in 1 .. m |-> h[i]] = [i \in 1 .. m |-> step(i)]
      <4> HIDE DEF h, step
      <4>1. QED BY <3>4
    <3> HIDE DEF h
    <3>7. Flat(s, m, h) BY <3>5, <3>6 DEF Flat
    <3>8. QED BY <2>2, <3>7
  <2>5. QED BY <2>3, <2>4
<1>2. QED BY <1>1

\* The members of a concatenation, and that nothing is in it twice if nothing
\* is in its parts.
LEMMA ConcatMembers ==
  ASSUME NEW A, NEW a \in Seq(A), NEW b \in Seq(A)
  PROVE  /\ a \o b \in Seq(A)
         /\ Range(a \o b) = Range(a) \cup Range(b)
<1>1. /\ Len(a) \in Nat /\ Len(b) \in Nat
      /\ DOMAIN a = 1 .. Len(a) /\ DOMAIN b = 1 .. Len(b)
      /\ DOMAIN (a \o b) = 1 .. (Len(a) + Len(b))
  OBVIOUS
<1>2. \A i \in 1 .. (Len(a) + Len(b)) :
        (a \o b)[i] = IF i <= Len(a) THEN a[i] ELSE b[i - Len(a)]
  OBVIOUS
<1>3. ASSUME NEW i \in 1 .. (Len(a) + Len(b))
      PROVE  (a \o b)[i] \in Range(a) \cup Range(b)
  <2>1. i <= Len(a) => i \in DOMAIN a BY <1>1
  <2>2. ~(i <= Len(a)) => i - Len(a) \in DOMAIN b BY <1>1
  <2>3. QED BY <1>2, <2>1, <2>2 DEF Range
<1>4. ASSUME NEW i \in DOMAIN a PROVE a[i] \in Range(a \o b)
  <2>1. i \in 1 .. (Len(a) + Len(b)) /\ i <= Len(a) BY <1>1
  <2>2. (a \o b)[i] = a[i] BY <1>2, <2>1
  <2>3. QED BY <1>1, <2>1, <2>2 DEF Range
<1>5. ASSUME NEW i \in DOMAIN b PROVE b[i] \in Range(a \o b)
  <2> DEFINE k == i + Len(a)
  <2>1. /\ k \in 1 .. (Len(a) + Len(b)) /\ ~(k <= Len(a))
        /\ k - Len(a) = i
    BY <1>1
  <2> HIDE DEF k
  <2>2. (a \o b)[k] = b[i] BY <1>2, <2>1
  <2>3. QED BY <1>1, <2>1, <2>2 DEF Range
<1>6. a \o b \in Seq(A) OBVIOUS
<1>7. Range(a \o b) \subseteq Range(a) \cup Range(b) BY <1>1, <1>3 DEF Range
<1>8. Range(a) \cup Range(b) \subseteq Range(a \o b) BY <1>4, <1>5 DEF Range
<1>9. QED BY <1>6, <1>7, <1>8

LEMMA ConcatInjective ==
  ASSUME NEW A, NEW a \in Seq(A), NEW b \in Seq(A),
         IsInjective(a), IsInjective(b), Range(a) \cap Range(b) = {}
  PROVE  IsInjective(a \o b)
<1>1. /\ Len(a) \in Nat /\ Len(b) \in Nat
      /\ DOMAIN a = 1 .. Len(a) /\ DOMAIN b = 1 .. Len(b)
      /\ DOMAIN (a \o b) = 1 .. (Len(a) + Len(b))
  OBVIOUS
<1>2. \A i \in 1 .. (Len(a) + Len(b)) :
        (a \o b)[i] = IF i <= Len(a) THEN a[i] ELSE b[i - Len(a)]
  OBVIOUS
<1> DEFINE N == 1 .. (Len(a) + Len(b))
<1>3. ASSUME NEW i \in N, NEW k \in N, (a \o b)[i] = (a \o b)[k] PROVE i = k
  <2>1. /\ i <= Len(a) => i \in DOMAIN a /\ (a \o b)[i] = a[i]
        /\ ~(i <= Len(a)) => i - Len(a) \in DOMAIN b /\ (a \o b)[i] = b[i - Len(a)]
    BY <1>1, <1>2
  <2>2. /\ k <= Len(a) => k \in DOMAIN a /\ (a \o b)[k] = a[k]
        /\ ~(k <= Len(a)) => k - Len(a) \in DOMAIN b /\ (a \o b)[k] = b[k - Len(a)]
    BY <1>1, <1>2
  <2>3. CASE i <= Len(a) /\ k <= Len(a) BY <1>3, <2>1, <2>2, <2>3 DEF IsInjective
  <2>4. CASE i <= Len(a) /\ ~(k <= Len(a)) BY <1>3, <2>1, <2>2, <2>4 DEF Range
  <2>5. CASE ~(i <= Len(a)) /\ k <= Len(a) BY <1>3, <2>1, <2>2, <2>5 DEF Range
  <2>6. CASE ~(i <= Len(a)) /\ ~(k <= Len(a))
    <3>1. i - Len(a) = k - Len(a) BY <1>3, <2>1, <2>2, <2>6 DEF IsInjective
    <3>2. QED BY <1>1, <3>1
  <2>7. QED BY <2>3, <2>4, <2>5, <2>6
<1>4. QED BY <1>1, <1>3 DEF IsInjective

\* What the first n parts have in them.
PartMembers(s, n) == UNION {Range(s[i]) : i \in 1 .. n}

\* Nothing is twice in a part, and no two parts share anything.
Apart(s) ==
  /\ \A i \in DOMAIN s : IsInjective(s[i])
  /\ \A i \in DOMAIN s : \A k \in DOMAIN s : i # k => Range(s[i]) \cap Range(s[k]) = {}

LEMMA FlatPrefix ==
  ASSUME NEW A, NEW s \in Seq(Seq(A)), NEW g, Flat(s, Len(s), g)
  PROVE  \A n \in 1 .. Len(s) :
           /\ g[n] \in Seq(A)
           /\ Range(g[n]) = PartMembers(s, n)
           /\ Apart(s) => IsInjective(g[n])
<1> DEFINE Good(n) == /\ g[n] \in Seq(A)
                      /\ Range(g[n]) = PartMembers(s, n)
                      /\ Apart(s) => IsInjective(g[n])
           T == {n \in 1 .. Len(s) : ~Good(n)}
<1>0. /\ Len(s) \in Nat /\ DOMAIN s = 1 .. Len(s)
      /\ \A i \in 1 .. Len(s) : s[i] \in Seq(A)
  OBVIOUS
<1>1. \A i \in 1 .. Len(s) : g[i] = IF i = 1 THEN s[i] ELSE g[i - 1] \o s[i]
  BY Zenon DEF Flat
<1>2. ASSUME T # {} PROVE FALSE
  <2>1. T \in SUBSET Nat BY <1>0
  <2> HIDE DEF T
  <2>2. PICK m \in T : \A n \in T : m <= n BY <1>2, <2>1, LeastMember
  <2> USE DEF T
  <2>3. m \in 1 .. Len(s) /\ ~Good(m) OBVIOUS
  <2>4. CASE m = 1
    <3>1. g[m] = s[m] BY <1>1, <2>3, <2>4
    <3>2. 1 .. m = {m} BY <2>4
    <3>3. PartMembers(s, m) = Range(s[m]) BY <3>2 DEF PartMembers
    <3>4. QED BY <1>0, <2>3, <3>1, <3>3 DEF Apart
  <2>5. CASE m # 1
    <3>1. /\ m - 1 \in 1 .. Len(s) /\ m \in 1 .. Len(s) /\ m - 1 \notin T
          /\ m \notin 1 .. (m - 1) /\ 1 .. m = 1 .. (m - 1) \cup {m}
          /\ 1 .. (m - 1) \subseteq 1 .. Len(s)
      BY <1>0, <2>2, <2>3, <2>5
    <3> DEFINE p == g[m - 1]
    <3>2. p \in Seq(A) /\ Range(p) = PartMembers(s, m - 1) /\ (Apart(s) => IsInjective(p))
      BY <3>1
    <3>3. g[m] = p \o s[m] /\ s[m] \in Seq(A) BY <1>0, <1>1, <2>3, <2>5
    <3> HIDE DEF p, T
    <3>4. g[m] \in Seq(A) /\ Range(g[m]) = Range(p) \cup Range(s[m])
      BY <3>2, <3>3, ConcatMembers
    <3>5. PartMembers(s, m) = PartMembers(s, m - 1) \cup Range(s[m])
      BY <3>1 DEF PartMembers
    <3>6. ASSUME Apart(s) PROVE IsInjective(g[m])
      <4>1. \A i \in 1 .. (m - 1) : Range(s[i]) \cap Range(s[m]) = {}
        BY <1>0, <3>1, <3>6 DEF Apart
      <4>2. PartMembers(s, m - 1) \cap Range(s[m]) = {} BY <4>1 DEF PartMembers
      <4>3. IsInjective(s[m]) BY <1>0, <3>1, <3>6 DEF Apart
      <4>4. Range(p) \cap Range(s[m]) = {} BY <3>2, <4>2
      <4>5. IsInjective(p \o s[m]) BY <3>2, <3>3, <3>6, <4>3, <4>4, ConcatInjective
      <4>6. QED BY <3>3, <4>5
    <3>7. QED BY <2>3, <3>2, <3>4, <3>5, <3>6
  <2>6. QED BY <2>4, <2>5
<1>3. QED BY <1>2

\* A flattened sequence has the members of its parts, and nothing twice if
\* the parts have nothing twice and nothing in common.
LEMMA Flattened ==
  ASSUME NEW A, NEW s \in Seq(Seq(A))
  PROVE  /\ FlattenSeq(s) \in Seq(A)
         /\ Range(FlattenSeq(s)) = UNION {Range(s[i]) : i \in DOMAIN s}
         /\ Apart(s) => IsInjective(FlattenSeq(s))
<1>0. Len(s) \in Nat /\ DOMAIN s = 1 .. Len(s) OBVIOUS
<1>1. CASE Len(s) = 0
  <2>1. FlattenSeq(s) = s BY <1>1 DEF FlattenSeq
  <2>2. DOMAIN s = {} BY <1>0, <1>1
  <2>3. s = <<>> BY <1>0, <1>1
  <2>4. Range(s) = {} /\ IsInjective(s) BY <2>2 DEF Range, IsInjective
  <2>5. UNION {Range(s[i]) : i \in DOMAIN s} = {} BY <2>2
  <2>6. QED BY <2>1, <2>3, <2>4, <2>5
<1>2. CASE Len(s) # 0
  <2> DEFINE g == CHOOSE g : Flat(s, Len(s), g)
  <2>1. Flat(s, Len(s), g) BY <1>0, FlatExists
  <2>2. FlattenSeq(s) = g[Len(s)] BY <1>2, FlatIsChosen
  <2> HIDE DEF g
  <2>3. Len(s) \in 1 .. Len(s) BY <1>0, <1>2
  <2>4. /\ g[Len(s)] \in Seq(A)
        /\ Range(g[Len(s)]) = PartMembers(s, Len(s))
        /\ Apart(s) => IsInjective(g[Len(s)])
    BY <2>1, <2>3, FlatPrefix
  <2>5. PartMembers(s, Len(s)) = UNION {Range(s[i]) : i \in DOMAIN s}
    BY <1>0 DEF PartMembers
  <2>6. QED BY <2>2, <2>4, <2>5
<1>3. QED BY <1>1, <1>2

-----------------------------------------------------------------------------
(* Products, as SumProofs has sums                                          *)

Product(f, S) == FoldFunctionOnSet(LAMBDA a, b : a * b, 1, f, S)

\* The products over the subsets of S, as the fold computes them.
Products(f, S, g) ==
  g = [s \in SUBSET S |-> IF s = {} THEN 1 ELSE f[First(s)] * g[s \ {First(s)}]]

LEMMA ProductsAgree ==
  ASSUME NEW f, NEW S, IsFiniteSet(S), NEW R, NEW g, NEW h,
         Products(f, S, g), Products(f, R, h)
  PROVE  \A s \in SUBSET S : s \in SUBSET R => g[s] = h[s]
<1> DEFINE T == {s \in SUBSET S : s \in SUBSET R /\ g[s] # h[s]}
<1>1. ASSUME T # {} PROVE FALSE
  <2>1. T \in SUBSET FiniteSubsetsOf(S)
    <3>1. FiniteSubsetsOf(S) = SUBSET S BY FS_FiniteSubsetsOfFinite
    <3>2. T \subseteq SUBSET S OBVIOUS
    <3>3. QED BY <3>1, <3>2
  <2> HIDE DEF T
  <2>2. PICK m \in T : \A s \in T : s \subseteq m => s = m BY <1>1, <2>1, SmallestSet
  <2> USE DEF T
  <2>3. /\ g[m] = IF m = {} THEN 1 ELSE f[First(m)] * g[m \ {First(m)}]
        /\ h[m] = IF m = {} THEN 1 ELSE f[First(m)] * h[m \ {First(m)}]
    BY DEF Products
  <2>4. m # {} => First(m) \in m BY DEF First
  <2>5. m # {} => m \ {First(m)} \notin T BY <2>2, <2>4
  <2>6. m # {} => g[m \ {First(m)}] = h[m \ {First(m)}] BY <2>5
  <2>7. QED BY <2>2, <2>3, <2>6
<1>2. QED BY <1>1

LEMMA ProductIsChosen ==
  ASSUME NEW f, NEW S
  PROVE  Product(f, S) = (CHOOSE g : Products(f, S, g))[S]
BY DEF Product, FoldFunctionOnSet, MapThenFoldSet, Products, First

LEMMA ProductsExist ==
  ASSUME NEW f, NEW D, IsFiniteSet(D)
  PROVE  \A S \in SUBSET D : \E g : Products(f, S, g)
<1> DEFINE T == {S \in SUBSET D : ~\E g : Products(f, S, g)}
           V(s) == (CHOOSE g : Products(f, s, g))[s]
<1>1. ASSUME T # {} PROVE FALSE
  <2>1. T \in SUBSET FiniteSubsetsOf(D)
    <3>1. FiniteSubsetsOf(D) = SUBSET D BY FS_FiniteSubsetsOfFinite
    <3>2. T \subseteq SUBSET D OBVIOUS
    <3>3. QED BY <3>1, <3>2
  <2> HIDE DEF T
  <2>2. PICK m \in T : \A s \in T : s \subseteq m => s = m BY <1>1, <2>1, SmallestSet
  <2> USE DEF T
  <2> DEFINE value(s) == IF s = {} THEN 1 ELSE f[First(s)] * V(s \ {First(s)})
             h == [s \in SUBSET m |-> value(s)]
  <2>3. ASSUME NEW s \in SUBSET m, s # m PROVE V(s) = value(s)
    <3>1. s \in SUBSET D /\ IsFiniteSet(s) BY FS_Subset
    <3>2. s \notin T BY <2>2, <2>3
    <3>3. \E g : Products(f, s, g) BY <3>1, <3>2
    <3> DEFINE G == CHOOSE g : Products(f, s, g)
    <3>4. Products(f, s, G) BY <3>3
    <3> HIDE DEF G
    <3>5. G[s] = IF s = {} THEN 1 ELSE f[First(s)] * G[s \ {First(s)}]
      BY <3>4 DEF Products
    <3>6. CASE s # {}
      <4> DEFINE r == s \ {First(s)}
      <4>1. First(s) \in s BY <3>6 DEF First
      <4>2. r \in SUBSET D /\ r \subseteq m /\ r # m BY <4>1, <3>1, <2>3
      <4>3. r \notin T BY <2>2, <4>2
      <4>4. \E g : Products(f, r, g) BY <4>2, <4>3
      <4> DEFINE H == CHOOSE g : Products(f, r, g)
      <4>5. Products(f, r, H) BY <4>4
      <4> HIDE DEF H
      <4>6. r \in SUBSET s /\ r \in SUBSET r OBVIOUS
      <4> HIDE DEF r
      <4>7. G[r] = H[r] BY <3>1, <3>4, <4>5, <4>6, ProductsAgree
      <4>8. V(r) = H[r] BY DEF H
      <4>9. V(s) = G[s] BY DEF G
      <4>10. QED BY <3>5, <3>6, <4>7, <4>8, <4>9 DEF r
    <3>7. CASE s = {} BY <3>5, <3>7 DEF G
    <3>8. QED BY <3>6, <3>7
  <2>4. ASSUME NEW s \in SUBSET m
        PROVE  h[s] = IF s = {} THEN 1 ELSE f[First(s)] * h[s \ {First(s)}]
    <3>1. s # {} => First(s) \in s BY DEF First
    <3>2. s # {} => s \ {First(s)} \in SUBSET m /\ s \ {First(s)} # m BY <3>1
    <3>3. s # {} => h[s \ {First(s)}] = V(s \ {First(s)}) BY <2>3, <3>2
    <3>4. QED BY <3>3
  <2>5. Products(f, m, h)
    <3>1. h = [s \in SUBSET m |-> h[s]] OBVIOUS
    <3> HIDE DEF h
    <3>2. QED BY <2>4, <3>1 DEF Products
  <2>6. QED BY <2>2, <2>5
<1>2. QED BY <1>1

\* How a product over a finite set unfolds.
LEMMA ProductUnfolds ==
  ASSUME NEW f, NEW S, IsFiniteSet(S)
  PROVE  Product(f, S) =
           IF S = {} THEN 1 ELSE f[First(S)] * Product(f, S \ {First(S)})
<1> DEFINE G == CHOOSE g : Products(f, S, g)
           r == S \ {First(S)}
           H == CHOOSE g : Products(f, r, g)
<1>1. Products(f, S, G) BY ProductsExist
<1>2. Products(f, r, H) BY ProductsExist
<1>3. Product(f, S) = G[S] /\ Product(f, r) = H[r] BY ProductIsChosen
<1>4. r \in SUBSET S OBVIOUS
<1> HIDE DEF G, H
<1>5. G[S] = IF S = {} THEN 1 ELSE f[First(S)] * G[r] BY <1>1 DEF Products
<1> HIDE DEF r
<1>6. G[r] = H[r] BY <1>1, <1>2, <1>4, ProductsAgree
<1>7. QED BY <1>3, <1>5, <1>6 DEF r

LEMMA ProductType ==
  ASSUME NEW f, NEW D, IsFiniteSet(D), \A x \in D : f[x] \in Int
  PROVE  \A S \in SUBSET D : Product(f, S) \in Int
<1> DEFINE T == {S \in SUBSET D : Product(f, S) \notin Int}
<1>1. ASSUME T # {} PROVE FALSE
  <2>1. T \in SUBSET FiniteSubsetsOf(D)
    <3>1. FiniteSubsetsOf(D) = SUBSET D BY FS_FiniteSubsetsOfFinite
    <3>2. T \subseteq SUBSET D OBVIOUS
    <3>3. QED BY <3>1, <3>2
  <2> HIDE DEF T
  <2>2. PICK m \in T : \A s \in T : s \subseteq m => s = m BY <1>1, <2>1, SmallestSet
  <2> USE DEF T
  <2> DEFINE c == First(m)
             r == m \ {c}
  <2>3. Product(f, m) = IF m = {} THEN 1 ELSE f[c] * Product(f, r)
    BY FS_Subset, ProductUnfolds
  <2>4. m # {} => c \in m BY DEF First
  <2>5. m # {} => r \in SUBSET D /\ r \notin T BY <2>2, <2>4
  <2>6. m # {} => Product(f, r) \in Int /\ f[c] \in Int BY <2>4, <2>5
  <2> HIDE DEF c, r
  <2>7. Product(f, m) \in Int BY <2>3, <2>6
  <2>8. QED BY <2>7
<1>2. QED BY <1>1

\* It does not matter which factor is taken first.
LEMMA ProductSplits ==
  ASSUME NEW f, NEW D, IsFiniteSet(D), \A x \in D : f[x] \in Int
  PROVE  \A S \in SUBSET D : \A x \in S : Product(f, S) = f[x] * Product(f, S \ {x})
<1> DEFINE T == {S \in SUBSET D : \E x \in S : Product(f, S) # f[x] * Product(f, S \ {x})}
<1>1. ASSUME T # {} PROVE FALSE
  <2>1. T \in SUBSET FiniteSubsetsOf(D)
    <3>1. FiniteSubsetsOf(D) = SUBSET D BY FS_FiniteSubsetsOfFinite
    <3>2. T \subseteq SUBSET D OBVIOUS
    <3>3. QED BY <3>1, <3>2
  <2> HIDE DEF T
  <2>2. PICK m \in T : \A s \in T : s \subseteq m => s = m BY <1>1, <2>1, SmallestSet
  <2> USE DEF T
  <2>3. PICK x \in m : Product(f, m) # f[x] * Product(f, m \ {x}) BY <2>2
  <2>4. \A s \in SUBSET D : Product(f, s) \in Int BY ProductType
  <2>5. \A s \in SUBSET D : s # {} =>
          First(s) \in s /\ Product(f, s) = f[First(s)] * Product(f, s \ {First(s)})
    BY FS_Subset, ProductUnfolds DEF First
  <2> DEFINE c == First(m)
             rest == Product(f, (m \ {c}) \ {x})
             a == f[c]
             b == f[x]
  <2>6. c \in m /\ Product(f, m) = a * Product(f, m \ {c}) /\ c # x BY <2>3, <2>5
  <2>7. \A s \in SUBSET m : s # m => s \notin T BY <2>2
  <2> HIDE DEF c
  <2>8. Product(f, m \ {c}) = b * rest BY <2>6, <2>7
  <2>9. Product(f, m \ {x}) = a * Product(f, (m \ {x}) \ {c}) BY <2>6, <2>7
  <2>10. (m \ {c}) \ {x} = (m \ {x}) \ {c} OBVIOUS
  <2>11. a \in Int /\ b \in Int /\ rest \in Int BY <2>4, <2>6
  <2>12. Product(f, m \ {x}) = a * rest BY <2>9, <2>10
  <2>13. Product(f, m) = a * (b * rest) BY <2>6, <2>8
  <2> HIDE DEF rest, a, b
  <2>14. a * (b * rest) = b * (a * rest) BY <2>11
  <2>15. Product(f, m) = b * Product(f, m \ {x}) BY <2>12, <2>13, <2>14
  <2>16. QED BY <2>3, <2>15 DEF b
<1>2. QED BY <1>1

-----------------------------------------------------------------------------
(* Other names for the indices                                              *)

\* b renames the indices D of f, integers all, to the indices E of g.
Renames(b, D, f, E, g) ==
  /\ b \in Bijection(D, E)
  /\ \A x \in D : f[x] \in Int /\ g[b[x]] = f[x]

Image(b, S) == {b[x] : x \in S}

\* The first of a set of indices, and what is left without it.
LEMMA RenamedRest ==
  ASSUME NEW D, NEW E, NEW b \in Bijection(D, E), NEW S \in SUBSET D, NEW c \in S
  PROVE  /\ b[c] \in Image(b, S)
         /\ Image(b, S \ {c}) = Image(b, S) \ {b[c]}
         /\ Image(b, S) \in SUBSET E
BY DEF Bijection, Injection, Surjection, IsInjective, Image

LEMMA RenamedIndices ==
  ASSUME NEW D, IsFiniteSet(D), NEW E, NEW b \in Bijection(D, E)
  PROVE  /\ IsFiniteSet(E) /\ Cardinality(E) = Cardinality(D)
         /\ Image(b, D) = E
<1>1. ExistsBijection(D, E) BY DEF ExistsBijection
<1>2. IsFiniteSet(E) /\ Cardinality(E) = Cardinality(D) BY <1>1, FS_Bijection
<1>3. Image(b, D) = E BY DEF Bijection, Injection, Surjection, Image
<1>4. QED BY <1>2, <1>3

LEMMA SumRenamed ==
  ASSUME NEW D, IsFiniteSet(D), NEW E, NEW f, NEW g, NEW b, Renames(b, D, f, E, g)
  PROVE  SumFunctionOnSet(g, E) = SumFunctionOnSet(f, D)
<1> DEFINE T == {S \in SUBSET D :
                   SumFunctionOnSet(g, Image(b, S)) # SumFunctionOnSet(f, S)}
<1>0. b \in Bijection(D, E) /\ b \in [D -> E]
  BY DEF Renames, Bijection, Injection
<1>1. IsFiniteSet(E) /\ Image(b, D) = E BY <1>0, RenamedIndices
<1>2. \A x \in D : f[x] \in Int /\ g[b[x]] = f[x] BY DEF Renames
<1>3. \A y \in E : g[y] \in Int BY <1>1, <1>2 DEF Image
<1>4. ASSUME T # {} PROVE FALSE
  <2>1. T \in SUBSET FiniteSubsetsOf(D)
    <3>1. FiniteSubsetsOf(D) = SUBSET D BY FS_FiniteSubsetsOfFinite
    <3>2. T \subseteq SUBSET D OBVIOUS
    <3>3. QED BY <3>1, <3>2
  <2> HIDE DEF T
  <2>2. PICK m \in T : \A s \in T : s \subseteq m => s = m BY <1>4, <2>1, SmallestSet
  <2> USE DEF T
  <2> DEFINE c == First(m)
             r == m \ {c}
             M == Image(b, m)
  <2>3. m \in SUBSET D /\ IsFiniteSet(m) BY FS_Subset
  <2>4. CASE m = {}
    <3>1. M = {} BY <2>4 DEF Image
    <3>2. SumFunctionOnSet(f, m) = 0 BY <2>3, <2>4, SumUnfolds
    <3>3. IsFiniteSet(M) BY <3>1, FS_EmptySet
    <3> HIDE DEF M
    <3>4. SumFunctionOnSet(g, M) = 0 BY <3>1, <3>3, SumUnfolds
    <3>5. QED BY <2>2, <3>2, <3>4 DEF M
  <2>5. CASE m # {}
    <3>1. c \in m BY <2>5 DEF First
    <3>2. r \in SUBSET D /\ r \notin T BY <2>2, <3>1
    <3>3. SumFunctionOnSet(g, Image(b, r)) = SumFunctionOnSet(f, r) BY <3>2
    <3>4. SumFunctionOnSet(f, m) = f[c] + SumFunctionOnSet(f, r)
      BY <2>3, <2>5, SumUnfolds
    <3> HIDE DEF c, T
    <3>5. b[c] \in M /\ Image(b, r) = M \ {b[c]} /\ M \in SUBSET E
      BY <1>0, <2>3, <3>1, RenamedRest
    <3> HIDE DEF M, r
    <3>6. SumFunctionOnSet(g, M) = g[b[c]] + SumFunctionOnSet(g, M \ {b[c]})
      BY <1>1, <1>3, <3>5, SumSplits
    <3>7. g[b[c]] = f[c] BY <1>2, <2>3, <3>1
    <3>8. SumFunctionOnSet(g, M) = SumFunctionOnSet(f, m)
      BY <3>3, <3>4, <3>5, <3>6, <3>7
    <3>9. QED BY <2>2, <3>8 DEF M, T
  <2>6. QED BY <2>4, <2>5
<1>5. D \notin T BY <1>4
<1>6. QED BY <1>1, <1>5

LEMMA ProductRenamed ==
  ASSUME NEW D, IsFiniteSet(D), NEW E, NEW f, NEW g, NEW b, Renames(b, D, f, E, g)
  PROVE  Product(g, E) = Product(f, D)
<1> DEFINE T == {S \in SUBSET D : Product(g, Image(b, S)) # Product(f, S)}
<1>0. b \in Bijection(D, E) /\ b \in [D -> E]
  BY DEF Renames, Bijection, Injection
<1>1. IsFiniteSet(E) /\ Image(b, D) = E BY <1>0, RenamedIndices
<1>2. \A x \in D : f[x] \in Int /\ g[b[x]] = f[x] BY DEF Renames
<1>3. \A y \in E : g[y] \in Int BY <1>1, <1>2 DEF Image
<1>4. ASSUME T # {} PROVE FALSE
  <2>1. T \in SUBSET FiniteSubsetsOf(D)
    <3>1. FiniteSubsetsOf(D) = SUBSET D BY FS_FiniteSubsetsOfFinite
    <3>2. T \subseteq SUBSET D OBVIOUS
    <3>3. QED BY <3>1, <3>2
  <2> HIDE DEF T
  <2>2. PICK m \in T : \A s \in T : s \subseteq m => s = m BY <1>4, <2>1, SmallestSet
  <2> USE DEF T
  <2> DEFINE c == First(m)
             r == m \ {c}
             M == Image(b, m)
  <2>3. m \in SUBSET D /\ IsFiniteSet(m) BY FS_Subset
  <2>4. CASE m = {}
    <3>1. M = {} BY <2>4 DEF Image
    <3>2. Product(f, m) = 1 BY <2>3, <2>4, ProductUnfolds
    <3>3. IsFiniteSet(M) BY <3>1, FS_EmptySet
    <3> HIDE DEF M
    <3>4. Product(g, M) = 1 BY <3>1, <3>3, ProductUnfolds
    <3>5. QED BY <2>2, <3>2, <3>4 DEF M
  <2>5. CASE m # {}
    <3>1. c \in m BY <2>5 DEF First
    <3>2. r \in SUBSET D /\ r \notin T BY <2>2, <3>1
    <3>3. Product(g, Image(b, r)) = Product(f, r) BY <3>2
    <3>4. Product(f, m) = f[c] * Product(f, r) BY <2>3, <2>5, ProductUnfolds
    <3> HIDE DEF c, T
    <3>5. b[c] \in M /\ Image(b, r) = M \ {b[c]} /\ M \in SUBSET E
      BY <1>0, <2>3, <3>1, RenamedRest
    <3> HIDE DEF M, r
    <3>6. Product(g, M) = g[b[c]] * Product(g, M \ {b[c]})
      BY <1>1, <1>3, <3>5, ProductSplits
    <3>7. g[b[c]] = f[c] BY <1>2, <2>3, <3>1
    <3>8. Product(g, M) = Product(f, m) BY <3>3, <3>4, <3>5, <3>6, <3>7
    <3>9. QED BY <2>2, <3>8 DEF M, T
  <2>6. QED BY <2>4, <2>5
<1>5. D \notin T BY <1>4
<1>6. QED BY <1>1, <1>5

\* A sum of natural numbers is positive if one of them is, and only then.
LEMMA SumPositive ==
  ASSUME NEW D, IsFiniteSet(D), NEW f, \A x \in D : f[x] \in Nat
  PROVE  SumFunctionOnSet(f, D) > 0 <=> \E x \in D : f[x] > 0
<1>1. CASE \E x \in D : f[x] > 0
  <2>1. PICK x \in D : f[x] > 0 BY <1>1
  <2>2. D \in SUBSET D /\ D \ {x} \in SUBSET D OBVIOUS
  <2>3. SumFunctionOnSet(f, D \ {x}) \in Nat BY <2>2, SumOfNaturals
  <2>4. SumFunctionOnSet(f, D) = f[x] + SumFunctionOnSet(f, D \ {x})
    BY <2>2, SumSplits
  <2>5. f[x] \in Nat OBVIOUS
  <2>6. SumFunctionOnSet(f, D) > 0 BY <2>1, <2>3, <2>4, <2>5
  <2>7. QED BY <1>1, <2>6
<1>2. CASE ~\E x \in D : f[x] > 0
  <2>1. \A x \in D : f[x] = 0 BY <1>2
  <2>2. SumFunctionOnSet(f, D) = 0 BY <2>1, SumOfZeros
  <2>3. QED BY <1>2, <2>2
<1>3. QED BY <1>1, <1>2

-----------------------------------------------------------------------------
(* The matrix                                                               *)

\* A function on the first natural numbers is a sequence.
LEMMA Sequence ==
  ASSUME NEW A, NEW n \in Nat, NEW s \in [1 .. n -> A]
  PROVE  s \in Seq(A) /\ Len(s) = n /\ DOMAIN s = 1 .. n
<1>1. s \in Seq(A) BY SeqDef
<1>2. DOMAIN s = 1 .. n OBVIOUS
<1>3. Len(s) = n BY <1>1, <1>2, LenProperties
<1>4. QED BY <1>1, <1>2, <1>3

Tops == Range(config.topologies)
Sims == Range(config.jaccard_similarities)
Sizes == Range(config.num_replicas)
Seeds == Range(config.seeds)

LEMMA ListsTyped ==
  ASSUME config \in EvalConfigs
  PROVE  /\ config.topologies \in Seq(Tops)
         /\ config.jaccard_similarities \in Seq(Int) /\ Sims \in SUBSET Int
         /\ config.jaccard_similarities \in Seq(Sims)
         /\ config.num_replicas \in Seq(Sizes)
         /\ config.seeds \in Seq(Seeds)
         /\ config.round_cap \in Nat
<1>1. /\ config.topologies \in TopologyLists
      /\ config.jaccard_similarities \in SimilarityLists
      /\ config.num_replicas \in ReplicaLists
      /\ config.seeds \in SeedLists /\ config.round_cap \in RoundCaps
  BY DEF EvalConfigs
<1>2. /\ config.topologies \in Seq(Tops) /\ config.num_replicas \in Seq(Sizes)
      /\ config.seeds \in Seq(Seeds)
  BY <1>1, EvaluationAssumption DEF IsList, Tops, Sizes, Seeds
<1> DEFINE js == config.jaccard_similarities
<1>3. js \in Seq(Int) BY <1>1, EvaluationAssumption
<1>4. config.round_cap \in Nat BY <1>1, EvaluationAssumption
<1> HIDE DEF js
<1>5. Len(js) \in Nat /\ DOMAIN js = 1 .. Len(js) /\ \A i \in DOMAIN js : js[i] \in Int
  BY <1>3
<1>6. js = [i \in 1 .. Len(js) |-> js[i]] BY <1>3, LenProperties
<1>7. js \in [1 .. Len(js) -> Range(js)] BY <1>5, <1>6 DEF Range
<1>8. js \in Seq(Range(js)) BY <1>5, <1>7, Sequence
<1>9. Range(js) \in SUBSET Int BY <1>5 DEF Range
<1>10. QED BY <1>2, <1>3, <1>4, <1>8, <1>9 DEF js, Sims

\* Every simulation that the lists ask for.
Simulations ==
  {s \in [topology : Tops, seed : Seeds,
          workload : [jaccard_similarity : Sims, num_replicas : Sizes, seed : Seeds]] :
     s.workload.seed = s.seed}

\* Those of one size, one topology and one similarity.
OfSize(nr) == {s \in Simulations : s.workload.num_replicas = nr}
OfTopology(nr, t) == {s \in OfSize(nr) : s.topology = t}
OfSimilarity(nr, t, j) == {s \in OfTopology(nr, t) : s.workload.jaccard_similarity = j}

\* The loops of main, from the innermost.
SeedRow(nr, t, j) == Map(LAMBDA seed : SimConfig(t, j, nr, seed), config.seeds)
SimilarityRow(nr, t) ==
  FlatMap(LAMBDA j : SeedRow(nr, t, j), config.jaccard_similarities)
TopologyRow(nr) == FlatMap(LAMBDA t : SimilarityRow(nr, t), config.topologies)

LEMMA MatrixOfRows == Matrix = FlatMap(LAMBDA nr : TopologyRow(nr), config.num_replicas)
BY DEF Matrix, TopologyRow, SimilarityRow, SeedRow

\* Nothing is listed twice.
Distinct ==
  /\ IsInjective(config.topologies) /\ IsInjective(config.jaccard_similarities)
  /\ IsInjective(config.num_replicas) /\ IsInjective(config.seeds)

LEMMA DistinctHolds ==
  ASSUME config \in EvalConfigs, DistinctLists
  PROVE  Distinct
<1> DEFINE js == config.jaccard_similarities
<1>1. IsInjective(config.topologies) /\ IsInjective(config.num_replicas)
      /\ IsInjective(config.seeds)
  BY DEF DistinctLists
<1>2. \A i, k \in DOMAIN js : i # k => Abs(js[i] - js[k]) >= Tolerance
  BY DEF DistinctLists
<1>3. \A i \in DOMAIN js : js[i] \in Int BY ListsTyped
<1>4. Tolerance \in Nat \ {0} BY EvaluationAssumption
<1> HIDE DEF js
<1>5. ASSUME NEW i \in DOMAIN js, NEW k \in DOMAIN js, js[i] = js[k], i # k PROVE FALSE
  <2>1. js[i] - js[k] = 0 BY <1>3, <1>5
  <2>2. Abs(0) >= Tolerance BY <1>2, <1>5, <2>1
  <2>3. QED BY <1>4, <2>2 DEF Abs
<1>6. IsInjective(js) BY <1>5 DEF IsInjective
<1>7. QED BY <1>1, <1>6 DEF Distinct, js

LEMMA SeedRowMembers ==
  ASSUME config \in EvalConfigs, NEW nr \in Sizes, NEW t \in Tops, NEW j \in Sims
  PROVE  /\ SeedRow(nr, t, j) \in Seq(Simulations)
         /\ Range(SeedRow(nr, t, j)) = OfSimilarity(nr, t, j)
         /\ Distinct => IsInjective(SeedRow(nr, t, j))
<1> DEFINE list == config.seeds
           row == SeedRow(nr, t, j)
           n == Len(list)
<1>1. list \in Seq(Seeds) /\ n \in Nat /\ DOMAIN list = 1 .. n BY ListsTyped
<1>2. row = [i \in 1 .. n |-> SimConfig(t, j, nr, list[i])] BY <1>1 DEF SeedRow, Map
<1>3. Seeds = {list[i] : i \in 1 .. n} BY <1>1 DEF Seeds, Range
<1>4. (Distinct => IsInjective(list)) BY DEF Distinct
<1> HIDE DEF list, row, n
<1>5. \A i \in 1 .. n : SimConfig(t, j, nr, list[i]) \in OfSimilarity(nr, t, j)
  BY <1>3 DEF SimConfig, ToWorkload, OfSimilarity, OfTopology, OfSize, Simulations
<1>6. row \in [1 .. n -> Simulations]
  BY <1>2, <1>5 DEF OfSimilarity, OfTopology, OfSize
<1>7. row \in Seq(Simulations) /\ DOMAIN row = 1 .. n BY <1>1, <1>6, Sequence
<1>8. ASSUME NEW s \in OfSimilarity(nr, t, j) PROVE s \in Range(row)
  <2>1. s.seed \in Seeds /\ s = SimConfig(t, j, nr, s.seed)
    BY DEF SimConfig, ToWorkload, OfSimilarity, OfTopology, OfSize, Simulations
  <2>2. PICK i \in 1 .. n : list[i] = s.seed BY <1>3, <2>1
  <2>3. row[i] = s BY <1>2, <2>1, <2>2
  <2>4. QED BY <1>7, <2>3 DEF Range
<1>9. Range(row) \subseteq OfSimilarity(nr, t, j) BY <1>2, <1>5, <1>7 DEF Range
<1>10. ASSUME Distinct PROVE IsInjective(row)
  <2>1. ASSUME NEW i \in 1 .. n, NEW k \in 1 .. n, row[i] = row[k] PROVE i = k
    <3>1. SimConfig(t, j, nr, list[i]) = SimConfig(t, j, nr, list[k]) BY <1>2, <2>1
    <3>2. list[i] = list[k] BY <3>1 DEF SimConfig
    <3>3. QED BY <1>1, <1>4, <1>10, <3>2 DEF IsInjective
  <2>2. QED BY <1>7, <2>1 DEF IsInjective
<1>11. QED BY <1>7, <1>8, <1>9, <1>10 DEF row

LEMMA SimilarityRowMembers ==
  ASSUME config \in EvalConfigs, NEW nr \in Sizes, NEW t \in Tops
  PROVE  /\ SimilarityRow(nr, t) \in Seq(Simulations)
         /\ Range(SimilarityRow(nr, t)) = OfTopology(nr, t)
         /\ Distinct => IsInjective(SimilarityRow(nr, t))
<1> DEFINE list == config.jaccard_similarities
           n == Len(list)
           parts == [i \in DOMAIN list |-> SeedRow(nr, t, list[i])]
<1>1. list \in Seq(Sims) /\ n \in Nat /\ DOMAIN list = 1 .. n BY ListsTyped
<1>2. Sims = {list[i] : i \in 1 .. n} BY <1>1 DEF Sims, Range
<1>3. SimilarityRow(nr, t) = FlattenSeq(parts) BY DEF SimilarityRow, FlatMap
<1>4. (Distinct => IsInjective(list)) BY DEF Distinct
<1> HIDE DEF list, n
<1>5. \A i \in 1 .. n :
        /\ parts[i] \in Seq(Simulations)
        /\ Range(parts[i]) = OfSimilarity(nr, t, list[i])
        /\ Distinct => IsInjective(parts[i])
  BY <1>1, <1>2, SeedRowMembers
<1>6. DOMAIN parts = 1 .. n /\ parts = [i \in 1 .. n |-> parts[i]] BY <1>1
<1> HIDE DEF parts
<1>7. parts \in Seq(Seq(Simulations)) BY <1>1, <1>5, <1>6, Sequence
<1>8. UNION {Range(parts[i]) : i \in DOMAIN parts} = OfTopology(nr, t)
  <2>1. UNION {Range(parts[i]) : i \in DOMAIN parts} \subseteq OfTopology(nr, t)
    BY <1>5, <1>6 DEF OfSimilarity
  <2>2. ASSUME NEW s \in OfTopology(nr, t)
        PROVE  s \in UNION {Range(parts[i]) : i \in DOMAIN parts}
    <3>1. s.workload.jaccard_similarity \in Sims BY DEF OfTopology, OfSize, Simulations
    <3>2. PICK i \in 1 .. n : list[i] = s.workload.jaccard_similarity BY <1>2, <3>1
    <3>3. s \in Range(parts[i]) BY <1>5, <3>2 DEF OfSimilarity
    <3>4. QED BY <1>6, <3>3
  <2>3. QED BY <2>1, <2>2
<1>9. ASSUME Distinct PROVE Apart(parts)
  <2>1. ASSUME NEW i \in 1 .. n, NEW k \in 1 .. n, i # k
        PROVE  Range(parts[i]) \cap Range(parts[k]) = {}
    <3>1. list[i] # list[k] BY <1>1, <1>4, <1>9, <2>1 DEF IsInjective
    <3>2. QED BY <1>5, <2>1, <3>1 DEF OfSimilarity
  <2>2. QED BY <1>5, <1>6, <1>9, <2>1 DEF Apart
<1>10. QED BY <1>3, <1>7, <1>8, <1>9, Flattened

LEMMA TopologyRowMembers ==
  ASSUME config \in EvalConfigs, NEW nr \in Sizes
  PROVE  /\ TopologyRow(nr) \in Seq(Simulations)
         /\ Range(TopologyRow(nr)) = OfSize(nr)
         /\ Distinct => IsInjective(TopologyRow(nr))
<1> DEFINE list == config.topologies
           n == Len(list)
           parts == [i \in DOMAIN list |-> SimilarityRow(nr, list[i])]
<1>1. list \in Seq(Tops) /\ n \in Nat /\ DOMAIN list = 1 .. n BY ListsTyped
<1>2. Tops = {list[i] : i \in 1 .. n} BY <1>1 DEF Tops, Range
<1>3. TopologyRow(nr) = FlattenSeq(parts) BY DEF TopologyRow, FlatMap
<1>4. (Distinct => IsInjective(list)) BY DEF Distinct
<1> HIDE DEF list, n
<1>5. \A i \in 1 .. n :
        /\ parts[i] \in Seq(Simulations)
        /\ Range(parts[i]) = OfTopology(nr, list[i])
        /\ Distinct => IsInjective(parts[i])
  BY <1>1, <1>2, SimilarityRowMembers
<1>6. DOMAIN parts = 1 .. n /\ parts = [i \in 1 .. n |-> parts[i]] BY <1>1
<1> HIDE DEF parts
<1>7. parts \in Seq(Seq(Simulations)) BY <1>1, <1>5, <1>6, Sequence
<1>8. UNION {Range(parts[i]) : i \in DOMAIN parts} = OfSize(nr)
  <2>1. UNION {Range(parts[i]) : i \in DOMAIN parts} \subseteq OfSize(nr)
    BY <1>5, <1>6 DEF OfTopology
  <2>2. ASSUME NEW s \in OfSize(nr)
        PROVE  s \in UNION {Range(parts[i]) : i \in DOMAIN parts}
    <3>1. s.topology \in Tops BY DEF OfSize, Simulations
    <3>2. PICK i \in 1 .. n : list[i] = s.topology BY <1>2, <3>1
    <3>3. s \in Range(parts[i]) BY <1>5, <3>2 DEF OfTopology
    <3>4. QED BY <1>6, <3>3
  <2>3. QED BY <2>1, <2>2
<1>9. ASSUME Distinct PROVE Apart(parts)
  <2>1. ASSUME NEW i \in 1 .. n, NEW k \in 1 .. n, i # k
        PROVE  Range(parts[i]) \cap Range(parts[k]) = {}
    <3>1. list[i] # list[k] BY <1>1, <1>4, <1>9, <2>1 DEF IsInjective
    <3>2. QED BY <1>5, <2>1, <3>1 DEF OfTopology
  <2>2. QED BY <1>5, <1>6, <1>9, <2>1 DEF Apart
<1>10. QED BY <1>3, <1>7, <1>8, <1>9, Flattened

\* The matrix has every simulation that the lists ask for and no other, and
\* none twice if nothing is listed twice.
LEMMA MatrixMembers ==
  ASSUME config \in EvalConfigs
  PROVE  /\ Matrix \in Seq(Simulations)
         /\ Range(Matrix) = Simulations
         /\ Distinct => IsInjective(Matrix)
<1> DEFINE list == config.num_replicas
           n == Len(list)
           parts == [i \in DOMAIN list |-> TopologyRow(list[i])]
<1>1. list \in Seq(Sizes) /\ n \in Nat /\ DOMAIN list = 1 .. n BY ListsTyped
<1>2. Sizes = {list[i] : i \in 1 .. n} BY <1>1 DEF Sizes, Range
<1>3. Matrix = FlattenSeq(parts) BY MatrixOfRows DEF FlatMap
<1>4. (Distinct => IsInjective(list)) BY DEF Distinct
<1> HIDE DEF list, n
<1>5. \A i \in 1 .. n :
        /\ parts[i] \in Seq(Simulations)
        /\ Range(parts[i]) = OfSize(list[i])
        /\ Distinct => IsInjective(parts[i])
  BY <1>1, <1>2, TopologyRowMembers
<1>6. DOMAIN parts = 1 .. n /\ parts = [i \in 1 .. n |-> parts[i]] BY <1>1
<1> HIDE DEF parts
<1>7. parts \in Seq(Seq(Simulations)) BY <1>1, <1>5, <1>6, Sequence
<1>8. UNION {Range(parts[i]) : i \in DOMAIN parts} = Simulations
  <2>1. UNION {Range(parts[i]) : i \in DOMAIN parts} \subseteq Simulations
    BY <1>5, <1>6 DEF OfSize
  <2>2. ASSUME NEW s \in Simulations
        PROVE  s \in UNION {Range(parts[i]) : i \in DOMAIN parts}
    <3>1. s.workload.num_replicas \in Sizes BY DEF Simulations
    <3>2. PICK i \in 1 .. n : list[i] = s.workload.num_replicas BY <1>2, <3>1
    <3>3. s \in Range(parts[i]) BY <1>5, <3>2 DEF OfSize
    <3>4. QED BY <1>6, <3>3
  <2>3. QED BY <2>1, <2>2
<1>9. ASSUME Distinct PROVE Apart(parts)
  <2>1. ASSUME NEW i \in 1 .. n, NEW k \in 1 .. n, i # k
        PROVE  Range(parts[i]) \cap Range(parts[k]) = {}
    <3>1. list[i] # list[k] BY <1>1, <1>4, <1>9, <2>1 DEF IsInjective
    <3>2. QED BY <1>5, <2>1, <3>1 DEF OfSize
  <2>2. QED BY <1>5, <1>6, <1>9, <2>1 DEF Apart
<1>10. QED BY <1>3, <1>7, <1>8, <1>9, Flattened

-----------------------------------------------------------------------------
(* The order of the cells                                                   *)

Cells == Tops \X Sims \X Sizes

CellsOf(t) == {c \in Cells : c[1] = t}
CellsWith(t, j) == {c \in CellsOf(t) : c[2] = j}

\* The loops of build_cells, from the innermost.
SizeRow(t, j) == Map(LAMBDA nr : <<t, j, nr>>, config.num_replicas)
CellRow(t) == FlatMap(LAMBDA j : SizeRow(t, j), config.jaccard_similarities)

LEMMA CellOrderOfRows == CellOrder = FlatMap(LAMBDA t : CellRow(t), config.topologies)
BY DEF CellOrder, CellRow, SizeRow

LEMMA SizeRowMembers ==
  ASSUME config \in EvalConfigs, NEW t \in Tops, NEW j \in Sims
  PROVE  /\ SizeRow(t, j) \in Seq(Cells)
         /\ Range(SizeRow(t, j)) = CellsWith(t, j)
         /\ Distinct => IsInjective(SizeRow(t, j))
<1> DEFINE list == config.num_replicas
           row == SizeRow(t, j)
           n == Len(list)
<1>1. list \in Seq(Sizes) /\ n \in Nat /\ DOMAIN list = 1 .. n BY ListsTyped
<1>2. row = [i \in 1 .. n |-> <<t, j, list[i]>>] BY <1>1 DEF SizeRow, Map
<1>3. Sizes = {list[i] : i \in 1 .. n} BY <1>1 DEF Sizes, Range
<1>4. (Distinct => IsInjective(list)) BY DEF Distinct
<1> HIDE DEF list, row, n
<1>5. \A i \in 1 .. n : <<t, j, list[i]>> \in CellsWith(t, j)
  BY <1>3 DEF CellsWith, CellsOf, Cells
<1>6. row \in [1 .. n -> Cells] BY <1>2, <1>5 DEF CellsWith, CellsOf
<1>7. row \in Seq(Cells) /\ DOMAIN row = 1 .. n BY <1>1, <1>6, Sequence
<1>8. ASSUME NEW c \in CellsWith(t, j) PROVE c \in Range(row)
  <2>1. c[3] \in Sizes /\ c = <<t, j, c[3]>> BY DEF CellsWith, CellsOf, Cells
  <2>2. PICK i \in 1 .. n : list[i] = c[3] BY <1>3, <2>1
  <2>3. row[i] = c BY <1>2, <2>1, <2>2
  <2>4. QED BY <1>7, <2>3 DEF Range
<1>9. Range(row) \subseteq CellsWith(t, j) BY <1>2, <1>5, <1>7 DEF Range
<1>10. ASSUME Distinct PROVE IsInjective(row)
  <2>1. ASSUME NEW i \in 1 .. n, NEW k \in 1 .. n, row[i] = row[k] PROVE i = k
    <3>1. list[i] = list[k] BY <1>2, <2>1
    <3>2. QED BY <1>1, <1>4, <1>10, <3>1 DEF IsInjective
  <2>2. QED BY <1>7, <2>1 DEF IsInjective
<1>11. QED BY <1>7, <1>8, <1>9, <1>10 DEF row

LEMMA CellRowMembers ==
  ASSUME config \in EvalConfigs, NEW t \in Tops
  PROVE  /\ CellRow(t) \in Seq(Cells)
         /\ Range(CellRow(t)) = CellsOf(t)
         /\ Distinct => IsInjective(CellRow(t))
<1> DEFINE list == config.jaccard_similarities
           n == Len(list)
           parts == [i \in DOMAIN list |-> SizeRow(t, list[i])]
<1>1. list \in Seq(Sims) /\ n \in Nat /\ DOMAIN list = 1 .. n BY ListsTyped
<1>2. Sims = {list[i] : i \in 1 .. n} BY <1>1 DEF Sims, Range
<1>3. CellRow(t) = FlattenSeq(parts) BY DEF CellRow, FlatMap
<1>4. (Distinct => IsInjective(list)) BY DEF Distinct
<1> HIDE DEF list, n
<1>5. \A i \in 1 .. n :
        /\ parts[i] \in Seq(Cells)
        /\ Range(parts[i]) = CellsWith(t, list[i])
        /\ Distinct => IsInjective(parts[i])
  BY <1>1, <1>2, SizeRowMembers
<1>6. DOMAIN parts = 1 .. n /\ parts = [i \in 1 .. n |-> parts[i]] BY <1>1
<1> HIDE DEF parts
<1>7. parts \in Seq(Seq(Cells)) BY <1>1, <1>5, <1>6, Sequence
<1>8. UNION {Range(parts[i]) : i \in DOMAIN parts} = CellsOf(t)
  <2>1. UNION {Range(parts[i]) : i \in DOMAIN parts} \subseteq CellsOf(t)
    BY <1>5, <1>6 DEF CellsWith
  <2>2. ASSUME NEW c \in CellsOf(t)
        PROVE  c \in UNION {Range(parts[i]) : i \in DOMAIN parts}
    <3>1. c[2] \in Sims BY DEF CellsOf, Cells
    <3>2. PICK i \in 1 .. n : list[i] = c[2] BY <1>2, <3>1
    <3>3. c \in Range(parts[i]) BY <1>5, <3>2 DEF CellsWith
    <3>4. QED BY <1>6, <3>3
  <2>3. QED BY <2>1, <2>2
<1>9. ASSUME Distinct PROVE Apart(parts)
  <2>1. ASSUME NEW i \in 1 .. n, NEW k \in 1 .. n, i # k
        PROVE  Range(parts[i]) \cap Range(parts[k]) = {}
    <3>1. list[i] # list[k] BY <1>1, <1>4, <1>9, <2>1 DEF IsInjective
    <3>2. QED BY <1>5, <2>1, <3>1 DEF CellsWith
  <2>2. QED BY <1>5, <1>6, <1>9, <2>1 DEF Apart
<1>10. QED BY <1>3, <1>7, <1>8, <1>9, Flattened

LEMMA CellOrderMembers ==
  ASSUME config \in EvalConfigs
  PROVE  /\ CellOrder \in Seq(Cells)
         /\ Range(CellOrder) = Cells
         /\ Distinct => IsInjective(CellOrder)
<1> DEFINE list == config.topologies
           n == Len(list)
           parts == [i \in DOMAIN list |-> CellRow(list[i])]
<1>1. list \in Seq(Tops) /\ n \in Nat /\ DOMAIN list = 1 .. n BY ListsTyped
<1>2. Tops = {list[i] : i \in 1 .. n} BY <1>1 DEF Tops, Range
<1>3. CellOrder = FlattenSeq(parts) BY CellOrderOfRows DEF FlatMap
<1>4. (Distinct => IsInjective(list)) BY DEF Distinct
<1> HIDE DEF list, n
<1>5. \A i \in 1 .. n :
        /\ parts[i] \in Seq(Cells)
        /\ Range(parts[i]) = CellsOf(list[i])
        /\ Distinct => IsInjective(parts[i])
  BY <1>1, <1>2, CellRowMembers
<1>6. DOMAIN parts = 1 .. n /\ parts = [i \in 1 .. n |-> parts[i]] BY <1>1
<1> HIDE DEF parts
<1>7. parts \in Seq(Seq(Cells)) BY <1>1, <1>5, <1>6, Sequence
<1>8. UNION {Range(parts[i]) : i \in DOMAIN parts} = Cells
  <2>1. UNION {Range(parts[i]) : i \in DOMAIN parts} \subseteq Cells
    BY <1>5, <1>6 DEF CellsOf
  <2>2. ASSUME NEW c \in Cells PROVE c \in UNION {Range(parts[i]) : i \in DOMAIN parts}
    <3>1. c[1] \in Tops BY DEF Cells
    <3>2. PICK i \in 1 .. n : list[i] = c[1] BY <1>2, <3>1
    <3>3. c \in Range(parts[i]) BY <1>5, <3>2 DEF CellsOf
    <3>4. QED BY <1>6, <3>3
  <2>3. QED BY <2>1, <2>2
<1>9. ASSUME Distinct PROVE Apart(parts)
  <2>1. ASSUME NEW i \in 1 .. n, NEW k \in 1 .. n, i # k
        PROVE  Range(parts[i]) \cap Range(parts[k]) = {}
    <3>1. list[i] # list[k] BY <1>1, <1>4, <1>9, <2>1 DEF IsInjective
    <3>2. QED BY <1>5, <2>1, <3>1 DEF CellsOf
  <2>2. QED BY <1>5, <1>6, <1>9, <2>1 DEF Apart
<1>10. QED BY <1>3, <1>7, <1>8, <1>9, Flattened

-----------------------------------------------------------------------------
(* The inductive invariant                                                  *)

Entries ==
  [topology : Tops, jaccard_similarity : Sims, num_replicas : Sizes, seed : Seeds,
   converged : BOOLEAN, rounds : Nat, total_bytes_sent : Nat]

\* r is what the simulation sim can have returned.
Answers(sim, r) ==
  /\ r.topology = sim.topology
  /\ r.jaccard_similarity = sim.workload.jaccard_similarity
  /\ r.num_replicas = sim.workload.num_replicas
  /\ r.seed = sim.seed
  /\ r.rounds = 0 <=> r.total_bytes_sent = 0

\* The runs so far are those of the first entries of the matrix.
RunsOfMatrix ==
  /\ runs \in Seq(Entries) /\ simulated \in Seq(Simulations)
  /\ Len(runs) = Len(simulated) /\ Len(runs) <= Len(Matrix)
  /\ \A i \in 1 .. Len(runs) :
       simulated[i] = Matrix[i] /\ Answers(Matrix[i], runs[i])

\* The cells are gathered from all of the runs.
Summaries == Map(LAMBDA c : CellSummary(c[1], c[2], c[3]), CellOrder)

CellsOfRuns == Len(runs) = Len(Matrix) /\ by_cell = Summaries

\* The summary is one of the cells.
SummaryOfCells ==
  /\ Summable
  /\ fitness = GeometricMean(Map(LAMBDA c : c.mean_bytes, by_cell))
  /\ all_converged = \A i \in DOMAIN by_cell : by_cell[i].all_converged

EvalInv ==
  /\ config \in EvalConfigs
  /\ RunsOfMatrix
  /\ pc \in {"running", "summing", "done", "panic"}
  /\ pc # "running" => CellsOfRuns
  /\ pc = "done" => SummaryOfCells
  /\ pc = "panic" => ~Summable

\* The definitions as functions of the state, which is how a step that leaves
\* the configuration or the runs alone leaves them alone.
MatrixOf(c) ==
  FlatMap(LAMBDA nr :
    FlatMap(LAMBDA t :
      FlatMap(LAMBDA j :
        Map(LAMBDA seed : SimConfig(t, j, nr, seed), c.seeds),
        c.jaccard_similarities),
      c.topologies),
    c.num_replicas)

CellOrderOf(c) ==
  FlatMap(LAMBDA t :
    FlatMap(LAMBDA j :
      Map(LAMBDA nr : <<t, j, nr>>, c.num_replicas),
      c.jaccard_similarities),
    c.topologies)

SummaryOf(rs, t, j, nr) ==
  LET cell == {i \in DOMAIN rs : OfCell(rs[i], t, j, nr)}
  IN  [topology |-> t, jaccard_similarity |-> j, num_replicas |-> nr,
       mean_bytes |-> Mean([i \in cell |-> rs[i].total_bytes_sent]),
       mean_rounds |-> Mean([i \in cell |-> rs[i].rounds]),
       all_converged |-> \A i \in cell : rs[i].converged]

SummariesOf(c, rs) == Map(LAMBDA x : SummaryOf(rs, x[1], x[2], x[3]), CellOrderOf(c))

LEMMA Functions ==
  /\ Matrix = MatrixOf(config)
  /\ CellOrder = CellOrderOf(config)
  /\ Summaries = SummariesOf(config, runs)
<1>1. Matrix = MatrixOf(config) BY DEF Matrix, MatrixOf
<1>2. CellOrder = CellOrderOf(config) BY DEF CellOrder, CellOrderOf
<1>3. ASSUME NEW t, NEW j, NEW nr PROVE CellSummary(t, j, nr) = SummaryOf(runs, t, j, nr)
  BY DEF SummaryOf, CellSummary, CellRuns, CellConverged
<1>4. Summaries = SummariesOf(config, runs)
  BY <1>2, <1>3 DEF Summaries, SummariesOf, Map
<1>5. QED BY <1>1, <1>2, <1>4

LEMMA FunctionsNext ==
  /\ Matrix' = MatrixOf(config')
  /\ CellOrder' = CellOrderOf(config')
  /\ Summaries' = SummariesOf(config', runs')
<1>1. Matrix' = MatrixOf(config') BY DEF Matrix, MatrixOf, FlatMap, Map
<1>2. CellOrder' = CellOrderOf(config') BY DEF CellOrder, CellOrderOf, FlatMap, Map
<1>3. ASSUME NEW t, NEW j, NEW nr PROVE CellSummary(t, j, nr)' = SummaryOf(runs', t, j, nr)
  BY DEF SummaryOf, CellSummary, CellRuns, CellConverged
<1>4. Summaries' = SummariesOf(config', runs')
  BY <1>2, <1>3 DEF Summaries, SummariesOf, Map
<1>5. QED BY <1>1, <1>2, <1>4

LEMMA SameConfig ==
  ASSUME config' = config
  PROVE  /\ Matrix' = Matrix /\ CellOrder' = CellOrder
         /\ Simulations' = Simulations /\ Entries' = Entries
<1>1. Matrix' = Matrix /\ CellOrder' = CellOrder BY Functions, FunctionsNext
<1>2. Tops' = Tops /\ Sims' = Sims /\ Sizes' = Sizes /\ Seeds' = Seeds
  BY DEF Tops, Sims, Sizes, Seeds
<1>3. Simulations' = Simulations BY <1>2 DEF Simulations
<1>4. Entries' = Entries BY <1>2 DEF Entries
<1>5. QED BY <1>1, <1>3, <1>4

LEMMA SameRuns ==
  ASSUME RunsOfMatrix, config' = config, runs' = runs, simulated' = simulated
  PROVE  RunsOfMatrix'
BY SameConfig DEF RunsOfMatrix, Answers

LEMMA SameCells ==
  ASSUME CellsOfRuns, config' = config, runs' = runs, by_cell' = by_cell
  PROVE  CellsOfRuns'
<1>1. /\ Len(runs) = Len(Matrix) /\ Matrix' = Matrix
      /\ by_cell = SummariesOf(config, runs)
  BY Functions, SameConfig DEF CellsOfRuns
<1>2. by_cell' = SummariesOf(config', runs') BY <1>1
<1>3. by_cell' = Summaries'
  BY <1>2, FunctionsNext
<1>4. Len(runs') = Len(Matrix') BY <1>1
<1>5. QED BY <1>3, <1>4 DEF CellsOfRuns

\* What a simulation returns is what the entry of the matrix asked for.
LEMMA EntryAnswers ==
  ASSUME config \in EvalConfigs, NEW sim \in Simulations, NEW r \in SimulationResults
  PROVE  RunEntry(sim, r) \in Entries /\ Answers(sim, RunEntry(sim, r))
<1>1. /\ r.converged \in BOOLEAN /\ r.rounds \in 0 .. config.round_cap
      /\ r.bytes \in 0 .. MaxBytes
      /\ r.rounds = 0 <=> r.bytes = 0
  BY DEF SimulationResults
<1>2. r.rounds \in Nat /\ r.bytes \in Nat
  BY <1>1, ListsTyped, EvaluationAssumption
<1>3. /\ sim.topology \in Tops /\ sim.seed \in Seeds
      /\ sim.workload.jaccard_similarity \in Sims
      /\ sim.workload.num_replicas \in Sizes
  BY DEF Simulations
<1>4. QED BY <1>1, <1>2, <1>3 DEF RunEntry, Entries, Answers

LEMMA CreateRunEntryKeeps ==
  ASSUME EvalInv, CreateRunEntry
  PROVE  EvalInv'
<1> DEFINE n == Len(runs)
           sim == Matrix[n + 1]
<1>1. /\ config \in EvalConfigs /\ RunsOfMatrix BY DEF EvalInv
<1>2. /\ pc = "running" /\ pc' = pc /\ config' = config /\ n < Len(Matrix)
      /\ simulated' = Append(simulated, sim)
  BY DEF CreateRunEntry
<1>3. PICK r \in SimulationResults : runs' = Append(runs, RunEntry(sim, r))
  BY DEF CreateRunEntry
<1> DEFINE new == RunEntry(sim, r)
<1>4. /\ runs \in Seq(Entries) /\ simulated \in Seq(Simulations)
      /\ Len(simulated) = n /\ n \in Nat
      /\ \A i \in 1 .. n : simulated[i] = Matrix[i] /\ Answers(Matrix[i], runs[i])
  BY <1>1 DEF RunsOfMatrix
<1>5. Matrix \in Seq(Simulations) /\ Len(Matrix) \in Nat BY <1>1, MatrixMembers
<1>6. sim \in Simulations BY <1>2, <1>4, <1>5
<1> HIDE DEF n, sim
<1>7. new \in Entries /\ Answers(sim, new) BY <1>1, <1>6, EntryAnswers
<1> HIDE DEF new
<1>8. /\ runs' \in Seq(Entries) /\ Len(runs') = n + 1
      /\ \A i \in 1 .. n : runs'[i] = runs[i]
      /\ runs'[n + 1] = new
  BY <1>3, <1>4, <1>7 DEF n, new
<1>9. /\ simulated' \in Seq(Simulations) /\ Len(simulated') = n + 1
      /\ \A i \in 1 .. n : simulated'[i] = simulated[i]
      /\ simulated'[n + 1] = sim
  BY <1>2, <1>4, <1>6
<1>10. /\ Matrix' = Matrix /\ Simulations' = Simulations /\ Entries' = Entries
  BY <1>2, SameConfig
<1>11. ASSUME NEW i \in 1 .. (n + 1)
       PROVE  simulated'[i] = Matrix[i] /\ Answers(Matrix[i], runs'[i])
  <2>1. CASE i = n + 1 BY <1>7, <1>8, <1>9, <2>1 DEF sim
  <2>2. CASE i # n + 1
    <3>1. i \in 1 .. n BY <1>4, <2>2
    <3>2. QED BY <1>4, <1>8, <1>9, <3>1
  <2>3. QED BY <2>1, <2>2
<1>12. n + 1 <= Len(Matrix) BY <1>2, <1>4, <1>5
<1>13. RunsOfMatrix'
  BY <1>8, <1>9, <1>10, <1>11, <1>12 DEF RunsOfMatrix, Answers
<1>14. config' \in EvalConfigs' BY <1>1, <1>2 DEF EvalConfigs
<1>15. QED BY <1>2, <1>13, <1>14 DEF EvalInv

LEMMA BuildCellsKeeps ==
  ASSUME EvalInv, BuildCells
  PROVE  EvalInv'
<1>1. config \in EvalConfigs /\ RunsOfMatrix BY DEF EvalInv
<1>2. /\ pc' = "summing" /\ Len(runs) = Len(Matrix)
      /\ config' = config /\ runs' = runs /\ simulated' = simulated
      /\ by_cell' = Summaries
  BY DEF BuildCells, Summaries
<1>3. by_cell' = SummariesOf(config', runs') BY <1>2, Functions
<1>4. by_cell' = Summaries'
  BY <1>3, FunctionsNext
<1>5. Len(runs') = Len(Matrix') BY <1>2, SameConfig
<1>6. CellsOfRuns' BY <1>4, <1>5 DEF CellsOfRuns
<1>7. RunsOfMatrix' BY <1>1, <1>2, SameRuns
<1>8. config' \in EvalConfigs' BY <1>1, <1>2 DEF EvalConfigs
<1>9. QED BY <1>2, <1>6, <1>7, <1>8 DEF EvalInv

LEMMA SummariseKeeps ==
  ASSUME EvalInv, Summarise
  PROVE  EvalInv'
<1>1. config \in EvalConfigs /\ RunsOfMatrix BY DEF EvalInv
<1>2. /\ pc = "summing" /\ config' = config /\ runs' = runs
      /\ simulated' = simulated /\ by_cell' = by_cell
  BY DEF Summarise
<1>3. CellsOfRuns BY <1>2 DEF EvalInv
<1>4. RunsOfMatrix' /\ CellsOfRuns' BY <1>1, <1>2, <1>3, SameRuns, SameCells
<1>5. config' \in EvalConfigs' BY <1>1, <1>2 DEF EvalConfigs
<1>6. Summable' <=> Summable BY <1>2 DEF Summable, Positive
<1>7. CASE Summable
  <2>1. /\ pc' = "done"
        /\ fitness' = GeometricMean(Map(LAMBDA c : c.mean_bytes, by_cell))
        /\ all_converged' = \A i \in DOMAIN by_cell : by_cell[i].all_converged
    BY <1>7 DEF Summarise
  <2>2. fitness' = GeometricMean(Map(LAMBDA c : c.mean_bytes, by_cell))'
    BY <1>2, <2>1 DEF Map
  <2>3. SummaryOfCells' BY <1>2, <1>6, <1>7, <2>1, <2>2 DEF SummaryOfCells
  <2>4. QED BY <1>4, <1>5, <2>1, <2>3 DEF EvalInv
<1>8. CASE ~Summable
  <2>1. pc' = "panic" BY <1>8 DEF Summarise
  <2>2. QED BY <1>4, <1>5, <1>6, <1>8, <2>1 DEF EvalInv
<1>9. QED BY <1>7, <1>8

LEMMA StutterKeeps ==
  ASSUME EvalInv, UNCHANGED vars
  PROVE  EvalInv'
<1>1. config \in EvalConfigs /\ RunsOfMatrix BY DEF EvalInv
<1>2. /\ config' = config /\ runs' = runs /\ simulated' = simulated
      /\ by_cell' = by_cell /\ fitness' = fitness
      /\ all_converged' = all_converged /\ pc' = pc
  BY DEF vars
<1>3. config' \in EvalConfigs' BY <1>1, <1>2 DEF EvalConfigs
<1>4. RunsOfMatrix' BY <1>1, <1>2, SameRuns
<1>5. pc' # "running" => CellsOfRuns' BY <1>2, SameCells DEF EvalInv
<1>6. Summable' <=> Summable BY <1>2 DEF Summable, Positive
<1>7. ASSUME SummaryOfCells PROVE SummaryOfCells'
  <2>1. fitness' = GeometricMean(Map(LAMBDA c : c.mean_bytes, by_cell))'
    BY <1>2, <1>7 DEF Map, SummaryOfCells
  <2>2. all_converged' = \A i \in DOMAIN by_cell' : by_cell'[i].all_converged
    BY <1>2, <1>7 DEF SummaryOfCells
  <2>3. QED BY <1>6, <1>7, <2>1, <2>2 DEF SummaryOfCells
<1>8. QED BY <1>2, <1>3, <1>4, <1>5, <1>6, <1>7 DEF EvalInv

\* The runs are those of the matrix, the cells are gathered from all of them,
\* and the summary from all of the cells.
THEOREM EvaluationInvariant == Spec => []EvalInv
<1>1. Init => EvalInv
  <2> SUFFICES ASSUME Init PROVE EvalInv OBVIOUS
  <2>1. config \in EvalConfigs /\ runs = <<>> /\ simulated = <<>> /\ pc = "running"
    BY DEF Init
  <2>2. Len(Matrix) \in Nat BY <2>1, MatrixMembers
  <2>3. RunsOfMatrix BY <2>1, <2>2 DEF RunsOfMatrix
  <2>4. QED BY <2>1, <2>3 DEF EvalInv
<1>2. EvalInv /\ [Next]_vars => EvalInv'
  BY CreateRunEntryKeeps, BuildCellsKeeps, SummariseKeeps, StutterKeeps DEF Next, Halted
<1>3. QED BY <1>1, <1>2, PTL DEF Spec

-----------------------------------------------------------------------------
(* Runs and cells                                                           *)

\* Each cell reports on the runs that pass its filter.
LEMMA CellReports ==
  ASSUME EvalInv, pc # "running"
  PROVE  /\ DOMAIN by_cell = DOMAIN CellOrder
         /\ \A x \in DOMAIN CellOrder :
              LET c == CellOrder[x]
                  cell == CellRuns(c[1], c[2], c[3])
              IN  /\ c \in Cells
                  /\ by_cell[x].all_converged = CellConverged(cell)
                  /\ by_cell[x].mean_bytes.sum =
                       SumFunctionOnSet([i \in cell |-> runs[i].total_bytes_sent], cell)
                  /\ by_cell[x].mean_bytes.n = Cardinality(cell)
<1>1. config \in EvalConfigs /\ by_cell = Summaries BY DEF EvalInv, CellsOfRuns
<1>2. by_cell = [x \in DOMAIN CellOrder |->
                   CellSummary(CellOrder[x][1], CellOrder[x][2], CellOrder[x][3])]
  BY <1>1 DEF Summaries, Map
<1>3. \A x \in DOMAIN CellOrder : CellOrder[x] \in Cells
  BY <1>1, CellOrderMembers DEF Range
<1>4. ASSUME NEW x \in DOMAIN CellOrder
      PROVE  LET c == CellOrder[x]
                 cell == CellRuns(c[1], c[2], c[3])
             IN  /\ by_cell[x].all_converged = CellConverged(cell)
                 /\ by_cell[x].mean_bytes = Mean([i \in cell |-> runs[i].total_bytes_sent])
  BY <1>2 DEF CellSummary
<1>5. \A cell : LET f == [i \in cell |-> runs[i].total_bytes_sent]
                IN  /\ Mean(f).sum = SumFunctionOnSet(f, cell)
                    /\ Mean(f).n = Cardinality(cell)
  BY DEF Mean, SumFunction
<1>6. QED BY <1>2, <1>3, <1>4, <1>5

\* Each run is in the cell of what it was given, and each cell that a run can
\* be in is one of the cells.
LEMMA RunsHaveCells ==
  ASSUME EvalInv, pc # "running", NEW i \in DOMAIN runs
  PROVE  /\ runs[i] \in Entries
         /\ i \in CellRuns(runs[i].topology, runs[i].jaccard_similarity,
                           runs[i].num_replicas)
         /\ \E x \in DOMAIN CellOrder :
              CellOrder[x] = <<runs[i].topology, runs[i].jaccard_similarity,
                               runs[i].num_replicas>>
<1>1. config \in EvalConfigs /\ runs \in Seq(Entries) BY DEF EvalInv, RunsOfMatrix
<1>2. runs[i] \in Entries BY <1>1
<1> DEFINE t == runs[i].topology
           j == runs[i].jaccard_similarity
           nr == runs[i].num_replicas
<1>3. t \in Tops /\ j \in Sims /\ nr \in Sizes BY <1>2 DEF Entries
<1>4. <<t, j, nr>> \in Cells BY <1>3 DEF Cells
<1>5. j \in Int /\ Tolerance \in Nat \ {0}
  BY <1>1, <1>3, ListsTyped, EvaluationAssumption
<1>6. \E x \in DOMAIN CellOrder : CellOrder[x] = <<t, j, nr>>
  BY <1>1, <1>4, CellOrderMembers DEF Range
<1>7. Abs(j - j) < Tolerance BY <1>5 DEF Abs
<1>8. i \in CellRuns(t, j, nr) BY <1>7 DEF CellRuns, OfCell
<1>9. QED BY <1>2, <1>6, <1>8

\* Each cell has a run that was given exactly what is in it, if any was made.
LEMMA CellsHaveRuns ==
  ASSUME EvalInv, pc # "running", NEW c \in Cells, NEW seed \in Seeds
  PROVE  \E i \in DOMAIN runs :
           /\ runs[i].topology = c[1] /\ runs[i].jaccard_similarity = c[2]
           /\ runs[i].num_replicas = c[3] /\ runs[i].seed = seed
           /\ simulated[i] = SimConfig(c[1], c[2], c[3], seed)
<1>1. /\ config \in EvalConfigs /\ RunsOfMatrix /\ Len(runs) = Len(Matrix)
  BY DEF EvalInv, CellsOfRuns
<1>2. Matrix \in Seq(Simulations) /\ Range(Matrix) = Simulations
  BY <1>1, MatrixMembers
<1> DEFINE sim == SimConfig(c[1], c[2], c[3], seed)
<1>3. sim \in Simulations BY DEF SimConfig, ToWorkload, Simulations, Cells
<1>4. PICK i \in DOMAIN Matrix : Matrix[i] = sim BY <1>2, <1>3 DEF Range
<1>5. i \in 1 .. Len(runs) /\ i \in DOMAIN runs BY <1>1, <1>2 DEF RunsOfMatrix
<1>6. simulated[i] = sim /\ Answers(sim, runs[i])
  BY <1>1, <1>4, <1>5 DEF RunsOfMatrix
<1>7. /\ sim.topology = c[1] /\ sim.seed = seed
      /\ sim.workload.jaccard_similarity = c[2] /\ sim.workload.num_replicas = c[3]
  BY DEF SimConfig, ToWorkload
<1> HIDE DEF sim
<1>8. /\ runs[i].topology = c[1] /\ runs[i].jaccard_similarity = c[2]
      /\ runs[i].num_replicas = c[3] /\ runs[i].seed = seed
  BY <1>6, <1>7 DEF Answers
<1>9. QED BY <1>5, <1>6, <1>8 DEF sim

-----------------------------------------------------------------------------
(* The verdict                                                              *)

LEMMA VerdictFollows == EvalInv => VerdictOfAllRuns
<1> SUFFICES ASSUME EvalInv, pc = "done"
             PROVE  all_converged <=> \A i \in DOMAIN runs : runs[i].converged
  BY DEF VerdictOfAllRuns
<1>1. all_converged = \A x \in DOMAIN by_cell : by_cell[x].all_converged
  BY DEF EvalInv, SummaryOfCells
<1>2. /\ DOMAIN by_cell = DOMAIN CellOrder
      /\ \A x \in DOMAIN CellOrder :
           by_cell[x].all_converged =
             CellConverged(CellRuns(CellOrder[x][1], CellOrder[x][2], CellOrder[x][3]))
  BY CellReports
<1>3. ASSUME all_converged, NEW i \in DOMAIN runs PROVE runs[i].converged
  <2> DEFINE t == runs[i].topology
             j == runs[i].jaccard_similarity
             nr == runs[i].num_replicas
  <2>1. i \in CellRuns(t, j, nr) BY RunsHaveCells
  <2>2. PICK x \in DOMAIN CellOrder : CellOrder[x] = <<t, j, nr>> BY RunsHaveCells
  <2>3. by_cell[x].all_converged BY <1>1, <1>2, <1>3
  <2>4. CellConverged(CellRuns(t, j, nr)) BY <1>2, <2>2, <2>3
  <2>5. QED BY <2>1, <2>4 DEF CellConverged
<1>4. ASSUME \A i \in DOMAIN runs : runs[i].converged PROVE all_converged
  <2>1. \A t, j, nr : CellConverged(CellRuns(t, j, nr))
    BY <1>4 DEF CellConverged, CellRuns
  <2>2. QED BY <1>1, <1>2, <2>1
<1>5. QED BY <1>3, <1>4

\* The verdict of an evaluation is true exactly if every simulation of the
\* matrix has converged, whatever is listed twice or almost twice.
THEOREM VerdictHolds == Spec => []VerdictOfAllRuns
BY EvaluationInvariant, VerdictFollows, PTL

-----------------------------------------------------------------------------
(* The panic                                                                *)

LEMMA RunsFinite ==
  ASSUME EvalInv, NEW t, NEW j, NEW nr
  PROVE  /\ IsFiniteSet(CellRuns(t, j, nr))
         /\ CellRuns(t, j, nr) \subseteq DOMAIN runs
<1>1. runs \in Seq(Entries) BY DEF EvalInv, RunsOfMatrix
<1>2. Len(runs) \in Nat /\ DOMAIN runs = 1 .. Len(runs) BY <1>1
<1>3. IsFiniteSet(DOMAIN runs) BY <1>2, FS_Interval
<1>4. CellRuns(t, j, nr) \subseteq DOMAIN runs BY DEF CellRuns
<1>5. QED BY <1>3, <1>4, FS_Subset

\* A run is free of charge exactly if it has no round.
LEMMA FreeRuns ==
  ASSUME EvalInv, NEW i \in DOMAIN runs
  PROVE  /\ runs[i].rounds \in Nat /\ runs[i].total_bytes_sent \in Nat
         /\ runs[i].rounds = 0 <=> runs[i].total_bytes_sent = 0
<1>1. RunsOfMatrix BY DEF EvalInv
<1>2. runs[i] \in Entries /\ i \in 1 .. Len(runs) BY <1>1 DEF RunsOfMatrix
<1>3. Answers(Matrix[i], runs[i]) BY <1>1, <1>2 DEF RunsOfMatrix
<1>4. QED BY <1>2, <1>3 DEF Answers, Entries

\* The mean of a cell is positive exactly if one of its runs has a round.
LEMMA PositiveCells ==
  ASSUME EvalInv, pc # "running", NEW x \in DOMAIN CellOrder, NEW c, c = CellOrder[x]
  PROVE  Positive(by_cell[x].mean_bytes) <=>
           \E i \in CellRuns(c[1], c[2], c[3]) : runs[i].rounds # 0
<1> DEFINE cell == CellRuns(c[1], c[2], c[3])
           f == [i \in cell |-> runs[i].total_bytes_sent]
           m == by_cell[x].mean_bytes
<1>1. m.sum = SumFunctionOnSet(f, cell) /\ m.n = Cardinality(cell) BY CellReports
<1>2. IsFiniteSet(cell) /\ cell \subseteq DOMAIN runs BY RunsFinite
<1>3. \A i \in cell : f[i] \in Nat /\ (f[i] > 0 <=> runs[i].rounds # 0)
  BY <1>2, FreeRuns
<1> HIDE DEF f, cell
<1>4. SumFunctionOnSet(f, cell) > 0 <=> \E i \in cell : f[i] > 0
  BY <1>2, <1>3, SumPositive
<1>5. (\E i \in cell : f[i] > 0) => Cardinality(cell) > 0
  <2>1. Cardinality(cell) \in Nat BY <1>2, FS_CardinalityType
  <2>2. Cardinality(cell) = 0 => cell = {} BY <1>2, FS_EmptySet
  <2>3. QED BY <2>1, <2>2
<1>6. QED BY <1>1, <1>3, <1>4, <1>5 DEF Positive, cell

LEMMA PanicFollows == EvalInv => PanicsForNothing
<1> DEFINE Free(i) == \A k \in DOMAIN runs :
                        OfCell(runs[k], runs[i].topology, runs[i].jaccard_similarity,
                               runs[i].num_replicas) => runs[k].rounds = 0
           Nothing == runs = <<>> \/ \E i \in DOMAIN runs : Free(i)
<1> SUFFICES ASSUME EvalInv, pc \in {"done", "panic"}
             PROVE  pc = "panic" <=> Nothing
  BY DEF PanicsForNothing
<1>1. pc = "panic" <=> ~Summable BY DEF EvalInv, SummaryOfCells
<1>2. DOMAIN by_cell = DOMAIN CellOrder BY CellReports
<1>3. /\ config \in EvalConfigs /\ runs \in Seq(Entries) /\ by_cell = Summaries
  BY DEF EvalInv, RunsOfMatrix, CellsOfRuns
<1>4. CellOrder \in Seq(Cells) /\ Range(CellOrder) = Cells
  BY <1>3, CellOrderMembers
<1>5. ASSUME Nothing PROVE ~Summable
  <2>1. CASE runs = <<>>
    <3>1. CASE DOMAIN CellOrder = {}
      <4>1. by_cell = [x \in DOMAIN by_cell |-> by_cell[x]]
        BY <1>3 DEF Summaries, Map
      <4>2. DOMAIN by_cell = 1 .. 0 BY <1>2, <3>1
      <4>3. by_cell \in [1 .. 0 -> {}] BY <4>1, <4>2
      <4>4. by_cell \in Seq({}) /\ Len(by_cell) = 0 BY <4>3, Sequence
      <4>5. by_cell = <<>> BY <4>4
      <4>6. QED BY <4>5 DEF Summable
    <3>2. CASE DOMAIN CellOrder # {}
      <4>1. PICK x \in DOMAIN CellOrder : TRUE BY <3>2
      <4> DEFINE c == CellOrder[x]
      <4>2. CellRuns(c[1], c[2], c[3]) = {} BY <2>1 DEF CellRuns
      <4> HIDE DEF c
      <4>3. ~Positive(by_cell[x].mean_bytes) BY <4>2, PositiveCells DEF c
      <4>4. QED BY <1>2, <4>3 DEF Summable
    <3>3. QED BY <3>1, <3>2
  <2>2. CASE \E i \in DOMAIN runs : Free(i)
    <3>1. PICK i \in DOMAIN runs : Free(i) BY <2>2
    <3> DEFINE t == runs[i].topology
               j == runs[i].jaccard_similarity
               nr == runs[i].num_replicas
    <3>2. PICK x \in DOMAIN CellOrder : CellOrder[x] = <<t, j, nr>> BY RunsHaveCells
    <3>3. \A k \in CellRuns(t, j, nr) : runs[k].rounds = 0 BY <3>1 DEF CellRuns
    <3> DEFINE c == CellOrder[x]
    <3>4. c[1] = t /\ c[2] = j /\ c[3] = nr BY <3>2
    <3> HIDE DEF c, t, j, nr
    <3>5. ~\E k \in CellRuns(c[1], c[2], c[3]) : runs[k].rounds # 0 BY <3>3, <3>4
    <3>6. ~Positive(by_cell[x].mean_bytes) BY <3>5, PositiveCells DEF c
    <3>7. QED BY <1>2, <3>6 DEF Summable
  <2>3. QED BY <1>5, <2>1, <2>2
<1>6. ASSUME ~Nothing PROVE Summable
  <2>1. runs # <<>> /\ \A i \in DOMAIN runs : ~Free(i) BY <1>6
  <2>2. Len(runs) \in Nat /\ DOMAIN runs = 1 .. Len(runs) /\ Len(runs) # 0 BY <1>3, <2>1
  <2>3. 1 \in DOMAIN runs BY <2>2
  <2>4. PICK first \in DOMAIN runs : TRUE BY <2>3
  <2>5. runs[first] \in Entries BY RunsHaveCells
  <2>6. PICK seed \in Seeds : TRUE BY <2>5 DEF Entries
  <2>7. DOMAIN CellOrder # {} BY RunsHaveCells, <2>4
  <2>8. by_cell # <<>> BY <1>2, <2>7
  <2>9. ASSUME NEW x \in DOMAIN CellOrder PROVE Positive(by_cell[x].mean_bytes)
    <3> DEFINE c == CellOrder[x]
    <3>1. c \in Cells BY <1>4 DEF Range
    <3> HIDE DEF c
    <3>2. PICK i \in DOMAIN runs :
            /\ runs[i].topology = c[1] /\ runs[i].jaccard_similarity = c[2]
            /\ runs[i].num_replicas = c[3]
      BY <2>6, <3>1, CellsHaveRuns
    <3>3. ~Free(i) BY <2>1
    <3>4. PICK k \in DOMAIN runs :
            OfCell(runs[k], c[1], c[2], c[3]) /\ runs[k].rounds # 0
      BY <3>2, <3>3
    <3>5. k \in CellRuns(c[1], c[2], c[3]) BY <3>4 DEF CellRuns
    <3>6. QED BY <3>4, <3>5, PositiveCells DEF c
  <2>10. QED BY <1>2, <2>8, <2>9 DEF Summable
<1>7. QED BY <1>1, <1>5, <1>6

\* geometric_mean panics exactly if there is nothing to average or a listed
\* triple of which no run has a round.
THEOREM PanicHolds == Spec => []PanicsForNothing
BY EvaluationInvariant, PanicFollows, PTL

-----------------------------------------------------------------------------
(* The fitness                                                              *)

\* A sequence without repetitions numbers its members.
LEMMA Numbered ==
  ASSUME NEW A, NEW s \in Seq(A), IsInjective(s)
  PROVE  /\ s \in Bijection(1 .. Len(s), Range(s))
         /\ IsFiniteSet(Range(s)) /\ Cardinality(Range(s)) = Len(s)
<1>1. Len(s) \in Nat /\ DOMAIN s = 1 .. Len(s) /\ s = [i \in 1 .. Len(s) |-> s[i]]
  BY LenProperties
<1>2. s \in [1 .. Len(s) -> Range(s)] BY <1>1 DEF Range
<1>3. s \in Injection(1 .. Len(s), Range(s)) BY <1>2 DEF Injection
<1>4. s \in Surjection(1 .. Len(s), Range(s)) BY <1>1, <1>2 DEF Surjection, Range
<1>5. s \in Bijection(1 .. Len(s), Range(s)) BY <1>3, <1>4 DEF Bijection
<1>6. IsFiniteSet(1 .. Len(s)) /\ Cardinality(1 .. Len(s)) = Len(s)
  <2> DEFINE n == Len(s)
             one == 1
             size == IF one > n THEN 0 ELSE n - one + 1
  <2>1. n \in Int /\ one \in Int /\ size = n BY <1>1
  <2> HIDE DEF n, one
  <2>2. IsFiniteSet(one .. n) /\ Cardinality(one .. n) = size BY <2>1, FS_Interval
  <2> HIDE DEF size
  <2>3. Cardinality(one .. n) = n BY <2>1, <2>2
  <2>4. QED BY <2>2, <2>3 DEF n, one
<1>7. IsFiniteSet(Range(s)) /\ Cardinality(Range(s)) = Cardinality(1 .. Len(s))
  BY <1>5, <1>6, RenamedIndices
<1>8. QED BY <1>5, <1>6, <1>7

\* Two listed similarities within the tolerance are the same one.
LEMMA SameSimilarity ==
  ASSUME config \in EvalConfigs, DistinctLists, NEW j \in Sims, NEW k \in Sims,
         Abs(j - k) < Tolerance
  PROVE  j = k
<1> DEFINE js == config.jaccard_similarities
<1>1. js \in Seq(Int) /\ Tolerance \in Nat /\ j \in Int /\ k \in Int
  BY ListsTyped, EvaluationAssumption
<1>2. PICK a \in DOMAIN js : js[a] = j BY DEF Sims, Range
<1>3. PICK b \in DOMAIN js : js[b] = k BY DEF Sims, Range
<1>4. a # b => Abs(js[a] - js[b]) >= Tolerance BY DEF DistinctLists
<1> HIDE DEF js
<1>5. Abs(j - k) \in Int BY <1>1 DEF Abs
<1>6. QED BY <1>1, <1>2, <1>3, <1>4, <1>5

\* If nothing is listed twice, a run passes the filter of a cell exactly if it
\* was given what the cell is of.
LEMMA RunOfCell ==
  ASSUME EvalInv, pc # "running", DistinctLists, NEW c \in Cells,
         NEW i \in CellRuns(c[1], c[2], c[3])
  PROVE  /\ i \in DOMAIN runs /\ runs[i].seed \in Seeds
         /\ simulated[i] = SimConfig(c[1], c[2], c[3], runs[i].seed)
<1>1. config \in EvalConfigs /\ RunsOfMatrix /\ Len(runs) = Len(Matrix)
  BY DEF EvalInv, CellsOfRuns
<1>2. i \in DOMAIN runs /\ OfCell(runs[i], c[1], c[2], c[3]) BY DEF CellRuns
<1>3. /\ runs[i].topology = c[1] /\ runs[i].num_replicas = c[3]
      /\ Abs(runs[i].jaccard_similarity - c[2]) < Tolerance
  BY <1>2 DEF OfCell
<1>4. runs[i] \in Entries /\ i \in 1 .. Len(runs) BY <1>1, <1>2 DEF RunsOfMatrix
<1>5. c[2] \in Sims /\ runs[i].jaccard_similarity \in Sims /\ runs[i].seed \in Seeds
  BY <1>4 DEF Cells, Entries
<1>6. runs[i].jaccard_similarity = c[2] BY <1>1, <1>3, <1>5, SameSimilarity
<1> DEFINE sim == simulated[i]
<1>7. sim = Matrix[i] /\ Answers(sim, runs[i]) BY <1>1, <1>4 DEF RunsOfMatrix
<1>8. sim \in Simulations
  <2>1. simulated \in Seq(Simulations) /\ i \in 1 .. Len(simulated)
    BY <1>1, <1>4 DEF RunsOfMatrix
  <2>2. QED BY <2>1, ElementOfSeq
<1> HIDE DEF sim
<1>9. /\ sim.topology = c[1] /\ sim.workload.jaccard_similarity = c[2]
      /\ sim.workload.num_replicas = c[3] /\ sim.seed = runs[i].seed
  BY <1>3, <1>6, <1>7 DEF Answers
<1>10. sim = SimConfig(c[1], c[2], c[3], runs[i].seed)
  BY <1>8, <1>9 DEF Simulations, SimConfig, ToWorkload
<1>11. QED BY <1>2, <1>5, <1>10 DEF sim

\* No simulation is run twice then.
LEMMA SimulatedOnce ==
  ASSUME EvalInv, pc # "running", DistinctLists,
         NEW i \in DOMAIN runs, NEW k \in DOMAIN runs, simulated[i] = simulated[k]
  PROVE  i = k
<1>1. config \in EvalConfigs /\ RunsOfMatrix /\ Len(runs) = Len(Matrix)
  BY DEF EvalInv, CellsOfRuns
<1>2. Matrix \in Seq(Simulations) /\ IsInjective(Matrix)
  BY <1>1, MatrixMembers, DistinctHolds
<1>3. i \in 1 .. Len(runs) /\ k \in 1 .. Len(runs) BY <1>1 DEF RunsOfMatrix
<1>4. Matrix[i] = Matrix[k] BY <1>1, <1>3 DEF RunsOfMatrix
<1>5. i \in DOMAIN Matrix /\ k \in DOMAIN Matrix BY <1>1, <1>2, <1>3
<1>6. QED BY <1>2, <1>4, <1>5 DEF IsInjective

\* What the simulation of c with a seed costs, as CellBytes finds it.
CostOf(c, seed) ==
  LET i == CHOOSE i \in DOMAIN runs : simulated[i] = SimConfig(c[1], c[2], c[3], seed)
  IN  runs[i].total_bytes_sent

\* The runs of a cell are one for each seed: what they cost is what the
\* simulations of the cell cost.
LEMMA CellSums ==
  ASSUME EvalInv, pc # "running", DistinctLists, NEW c \in Cells,
         NEW cell, cell = CellRuns(c[1], c[2], c[3])
  PROVE  /\ SumFunctionOnSet([i \in cell |-> runs[i].total_bytes_sent], cell)
              = CellBytes(c[1], c[2], c[3])
         /\ Cardinality(cell) = Len(config.seeds)
         /\ CellBytes(c[1], c[2], c[3]) \in Int
<1> DEFINE f == [i \in cell |-> runs[i].total_bytes_sent]
           g == [seed \in Seeds |-> CostOf(c, seed)]
           b == [i \in cell |-> runs[i].seed]
<1>0. config \in EvalConfigs BY DEF EvalInv
<1>1. IsFiniteSet(cell) /\ cell \subseteq DOMAIN runs BY RunsFinite
<1>2. \A i \in cell :
        /\ i \in DOMAIN runs /\ b[i] \in Seeds
        /\ simulated[i] = SimConfig(c[1], c[2], c[3], b[i])
  BY RunOfCell
<1>3. \A i \in DOMAIN runs : \A k \in DOMAIN runs : simulated[i] = simulated[k] => i = k
  BY SimulatedOnce
<1>4. b \in [cell -> Seeds] BY <1>2
<1>5. b \in Injection(cell, Seeds)
  <2> HIDE DEF b
  <2>1. \A i \in cell : \A k \in cell : b[i] = b[k] => i = k BY <1>2, <1>3
  <2>2. QED BY <1>4, <2>1 DEF Injection, IsInjective
<1>6. ASSUME NEW seed \in Seeds PROVE \E i \in cell : b[i] = seed
  <2>1. PICK i \in DOMAIN runs :
          /\ runs[i].topology = c[1] /\ runs[i].jaccard_similarity = c[2]
          /\ runs[i].num_replicas = c[3] /\ runs[i].seed = seed
    BY CellsHaveRuns
  <2>2. i \in CellRuns(runs[i].topology, runs[i].jaccard_similarity, runs[i].num_replicas)
    BY RunsHaveCells
  <2>3. i \in cell BY <2>1, <2>2
  <2>4. QED BY <2>1, <2>3
<1>7. b \in Surjection(cell, Seeds) BY <1>4, <1>6 DEF Surjection
<1>8. b \in Bijection(cell, Seeds) BY <1>5, <1>7 DEF Bijection
<1>9. ASSUME NEW i \in cell PROVE f[i] \in Int /\ g[b[i]] = f[i]
  <2>1. f[i] \in Int BY <1>1, FreeRuns
  <2> DEFINE k == CHOOSE k \in DOMAIN runs :
                    simulated[k] = SimConfig(c[1], c[2], c[3], b[i])
  <2>2. k \in DOMAIN runs /\ simulated[k] = SimConfig(c[1], c[2], c[3], b[i])
    BY <1>2
  <2>3. CostOf(c, b[i]) = runs[k].total_bytes_sent BY DEF CostOf
  <2> HIDE DEF k
  <2>4. k = i BY <1>2, <1>3, <2>2
  <2>5. g[b[i]] = CostOf(c, b[i]) BY <1>2
  <2>6. QED BY <2>1, <2>3, <2>4, <2>5
<1>10. CellBytes(c[1], c[2], c[3]) = SumFunctionOnSet(g, Seeds)
  BY DEF CellBytes, CostOf, SumFunction, Seeds
<1> HIDE DEF f, g, b
<1>11. Renames(b, cell, f, Seeds, g) BY <1>8, <1>9 DEF Renames
<1>12. SumFunctionOnSet(g, Seeds) = SumFunctionOnSet(f, cell)
  BY <1>1, <1>11, SumRenamed
<1>13. SumFunctionOnSet(f, cell) \in Int
  <2>1. cell \in SUBSET cell OBVIOUS
  <2>2. QED BY <1>1, <1>9, <2>1, SumType
<1>14. Cardinality(Seeds) = Cardinality(cell) BY <1>1, <1>8, RenamedIndices
<1>15. Cardinality(Seeds) = Len(config.seeds)
  <2>1. config.seeds \in Seq(Seeds) /\ IsInjective(config.seeds)
    BY <1>0, ListsTyped, DistinctHolds DEF Distinct
  <2>2. QED BY <2>1, Numbered DEF Seeds
<1>16. QED BY <1>10, <1>12, <1>13, <1>14, <1>15 DEF f

LEMMA FitnessFollows == EvalInv => FitnessOfMatrix
<1> SUFFICES ASSUME EvalInv, pc = "done", DistinctLists
             PROVE  /\ fitness.root = Cardinality(Cells)
                    /\ fitness.product =
                         ProductFunction([c \in Cells |-> CellBytes(c[1], c[2], c[3])])
                    /\ fitness.divisor =
                         ProductFunction([c \in Cells |-> Len(config.seeds)])
  BY DEF FitnessOfMatrix, Cells, Tops, Sims, Sizes
<1>1. /\ config \in EvalConfigs
      /\ fitness = GeometricMean(Map(LAMBDA c : c.mean_bytes, by_cell))
  BY DEF EvalInv, SummaryOfCells
<1>2. /\ CellOrder \in Seq(Cells) /\ Range(CellOrder) = Cells /\ IsInjective(CellOrder)
  BY <1>1, CellOrderMembers, DistinctHolds
<1> DEFINE n == Len(CellOrder)
           means == [x \in DOMAIN by_cell |-> by_cell[x].mean_bytes]
           sums == [x \in DOMAIN means |-> means[x].sum]
           ns == [x \in DOMAIN means |-> means[x].n]
           bytes == [c \in Cells |-> CellBytes(c[1], c[2], c[3])]
           seeds == [c \in Cells |-> Len(config.seeds)]
<1>3. n \in Nat /\ DOMAIN CellOrder = 1 .. n BY <1>2
<1>4. /\ CellOrder \in Bijection(1 .. n, Cells) /\ Cardinality(Cells) = n
  BY <1>2, Numbered
<1>5. IsFiniteSet(1 .. n) BY <1>3, FS_Interval
<1>6. DOMAIN by_cell = 1 .. n BY <1>3, CellReports
<1>7. /\ fitness.product = ProductFunction(sums)
      /\ fitness.divisor = ProductFunction(ns)
      /\ fitness.root = Len(means)
  BY <1>1 DEF GeometricMean, Map
<1>8. Len(means) = n
  <2>1. means \in [1 .. n -> {means[x] : x \in 1 .. n}] BY <1>6
  <2> HIDE DEF means, n
  <2>2. QED BY <1>3, <2>1, Sequence
<1>9. ASSUME NEW x \in 1 .. n
      PROVE  /\ sums[x] \in Int /\ bytes[CellOrder[x]] = sums[x]
             /\ ns[x] \in Int /\ seeds[CellOrder[x]] = ns[x]
  <2> DEFINE c == CellOrder[x]
             cell == CellRuns(c[1], c[2], c[3])
  <2>1. /\ c \in Cells
        /\ by_cell[x].mean_bytes.sum =
             SumFunctionOnSet([i \in cell |-> runs[i].total_bytes_sent], cell)
        /\ by_cell[x].mean_bytes.n = Cardinality(cell)
    BY <1>3, CellReports
  <2>2. sums[x] = by_cell[x].mean_bytes.sum /\ ns[x] = by_cell[x].mean_bytes.n
    BY <1>6
  <2>3. Len(config.seeds) \in Int BY <1>1, ListsTyped
  <2> HIDE DEF c, sums, ns
  <2>4. /\ SumFunctionOnSet([i \in cell |-> runs[i].total_bytes_sent], cell)
             = CellBytes(c[1], c[2], c[3])
        /\ Cardinality(cell) = Len(config.seeds)
        /\ CellBytes(c[1], c[2], c[3]) \in Int
    <3> HIDE DEF cell
    <3>1. cell = CellRuns(c[1], c[2], c[3]) BY DEF cell
    <3>2. QED BY <2>1, <3>1, CellSums
  <2>5. bytes[c] = CellBytes(c[1], c[2], c[3]) /\ seeds[c] = Len(config.seeds)
    BY <2>1
  <2>6. QED BY <2>1, <2>2, <2>3, <2>4, <2>5 DEF c
<1>10. /\ DOMAIN sums = 1 .. n /\ DOMAIN ns = 1 .. n
       /\ DOMAIN bytes = Cells /\ DOMAIN seeds = Cells
  BY <1>6
<1> HIDE DEF n, means, sums, ns, bytes, seeds
<1>11. Renames(CellOrder, 1 .. n, sums, Cells, bytes) BY <1>4, <1>9 DEF Renames
<1>12. Renames(CellOrder, 1 .. n, ns, Cells, seeds) BY <1>4, <1>9 DEF Renames
<1>13. Product(bytes, Cells) = Product(sums, 1 .. n) BY <1>5, <1>11, ProductRenamed
<1>14. Product(seeds, Cells) = Product(ns, 1 .. n) BY <1>5, <1>12, ProductRenamed
<1>15. \A fun : ProductFunction(fun) = Product(fun, DOMAIN fun)
  BY DEF ProductFunction, FoldFunction, Product
<1>16. ProductFunction(bytes) = ProductFunction(sums)
       /\ ProductFunction(seeds) = ProductFunction(ns)
  BY <1>10, <1>13, <1>14, <1>15
<1>17. QED BY <1>4, <1>7, <1>8, <1>16 DEF bytes, seeds

\* The fitness is the geometric mean, over all triples of topology, similarity
\* and number of replicas, of the mean cost over the seeds, as long as nothing
\* is listed twice.
THEOREM FitnessHolds == Spec => []FitnessOfMatrix
BY EvaluationInvariant, FitnessFollows, PTL

=============================================================================
