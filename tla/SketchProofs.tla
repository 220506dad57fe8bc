---------------------------- MODULE SketchProofs ----------------------------
(***************************************************************************)
(* The multiparty sketch: its machine arithmetic is that of a field, for   *)
(* every prime and every word; its cells tell what they were made of; and  *)
(* decoding by peeling finds exactly what there is a surplus of, for every *)
(* universe, mapping of elements to cells and length of sketch.            *)
(***************************************************************************)
EXTENDS MultiSketch, SumProofs

-----------------------------------------------------------------------------
(* Machine words                                                            *)

\* What is assumed of the prime and the word, apart from primality.
LEMMA Facts == P \in Nat /\ P > 1 /\ Word \in Nat /\ P <= Word /\ Word < 2 * P
BY FieldAssumption

\* fadd of multiparty_sketch.rs is addition modulo P, although the sum of the
\* two residues may not fit into a word.
THEOREM FaddExact ==
  ASSUME NEW a \in Residue, NEW b \in Residue
  PROVE  Fadd(a, b) \in Residue /\ Fadd(a, b) = (a + b) % P
<1>1. /\ a \in Nat /\ b \in Nat /\ a < P /\ b < P
      /\ P \in Nat /\ P > 1 /\ Word \in Nat /\ P <= Word /\ Word < P + P
  BY Facts DEF Residue
<1>2. CASE a + b >= Word
  <2>1. (a + b) % Word = a + b - Word
    BY <1>1, <1>2
  <2>2. (a + b - Word - P) % Word = a + b - P
    BY <1>1, <1>2
  <2>3. (a + b) % P = a + b - P
    BY <1>1, <1>2
  <2>4. Fadd(a, b) = a + b - P
    BY <1>1, <1>2, <2>1, <2>2 DEF Fadd
  <2>5. QED BY <1>1, <1>2, <2>3, <2>4 DEF Residue
<1>3. CASE a + b < Word
  <2>1. (a + b) % Word = a + b
    BY <1>1, <1>3
  <2>2. CASE a + b >= P
    <3>1. (a + b - P) % Word = a + b - P
      BY <1>1, <1>3, <2>2
    <3>2. (a + b) % P = a + b - P
      BY <1>1, <2>2
    <3>3. Fadd(a, b) = a + b - P
      BY <1>1, <1>3, <2>1, <2>2, <3>1 DEF Fadd
    <3>4. QED BY <1>1, <2>2, <3>2, <3>3 DEF Residue
  <2>3. CASE a + b < P
    <3>1. (a + b) % P = a + b
      BY <1>1, <2>3
    <3>2. Fadd(a, b) = a + b
      BY <1>1, <1>3, <2>1, <2>3 DEF Fadd
    <3>3. QED BY <1>1, <2>3, <3>1, <3>2 DEF Residue
  <2>4. QED BY <1>1, <2>2, <2>3
<1>4. QED BY <1>1, <1>2, <1>3

\* fsub is subtraction modulo P, and undoes fadd.
THEOREM FsubExact ==
  ASSUME NEW a \in Residue, NEW b \in Residue
  PROVE  /\ Fsub(a, b) \in Residue
         /\ Fsub(a, b) = (a - b) % P
         /\ Fadd(Fsub(a, b), b) = a
<1>1. /\ a \in Nat /\ b \in Nat /\ a < P /\ b < P
      /\ P \in Nat /\ P > 1
  BY Facts DEF Residue
<1>2. CASE a >= b
  <2>1. Fsub(a, b) = a - b BY <1>2 DEF Fsub
  <2>2. (a - b) % P = a - b BY <1>1, <1>2
  <2>3. a - b \in Residue BY <1>1, <1>2 DEF Residue
  <2>4. Fadd(a - b, b) = (a - b + b) % P BY <2>3, FaddExact
  <2>5. a - b + b = a /\ a % P = a BY <1>1
  <2>6. QED BY <2>1, <2>2, <2>3, <2>4, <2>5
<1>3. CASE a < b
  <2>1. Fsub(a, b) = a - b + P BY <1>1, <1>3 DEF Fsub
  <2>2. (a - b) % P = a - b + P BY <1>1, <1>3
  <2>3. a - b + P \in Residue BY <1>1, <1>3 DEF Residue
  <2>4. Fadd(a - b + P, b) = (a - b + P + b) % P BY <2>3, FaddExact
  <2>5. a - b + P + b = a + P /\ (a + P) % P = a BY <1>1
  <2>6. QED BY <2>1, <2>2, <2>3, <2>4, <2>5
<1>4. QED BY <1>1, <1>2, <1>3

-----------------------------------------------------------------------------
(* Residues                                                                 *)

\* A remainder is what is left of some multiple of P.
LEMMA ModWitness ==
  ASSUME NEW a \in Int
  PROVE  a % P \in Residue /\ \E k \in Int : a = k * P + (a % P)
<1>1. P \in Nat /\ P > 0 BY Facts
<1>2. a % P \in 0 .. P - 1 /\ a \div P \in Int /\ a = P * (a \div P) + (a % P) BY <1>1
<1>3. P * (a \div P) = (a \div P) * P BY <1>1, <1>2
<1>4. a = (a \div P) * P + (a % P) BY <1>2, <1>3
<1>5. QED BY <1>2, <1>4 DEF Residue

\* There is only one.
LEMMA ModUnique ==
  ASSUME NEW a \in Int, NEW k \in Int, NEW r \in Residue, a = k * P + r
  PROVE  a % P = r
<1>1. P \in Nat /\ P > 0 /\ r \in Nat /\ r < P BY Facts DEF Residue
<1>2. PICK l \in Int : a = l * P + (a % P) BY ModWitness
<1> DEFINE v == a % P
<1>3. v \in Nat /\ v < P BY ModWitness, <1>1 DEF Residue
<1> HIDE DEF v
<1>4. a = l * P + v BY <1>2 DEF v
<1>5. (k - l) * P = v - r
  <2>1. (k - l) * P = k * P - l * P /\ k * P \in Int /\ l * P \in Int BY <1>1
  <2>2. QED BY <1>1, <1>3, <1>4, <2>1
<1>6. k = l
  <2> DEFINE d == k - l
  <2>1. d \in Int /\ d * P = v - r BY <1>5
  <2> HIDE DEF d
  <2>2. CASE d >= 1
    <3>1. (d - 1) * P >= 0 BY <1>1, <2>1, <2>2
    <3>2. (d - 1) * P = d * P - P BY <1>1, <2>1
    <3>3. QED BY <1>1, <1>3, <2>1, <3>1, <3>2
  <2>3. CASE d <= -1
    <3>1. (-1 - d) * P >= 0 BY <1>1, <2>1, <2>3
    <3>2. (-1 - d) * P = -P - d * P BY <1>1, <2>1
    <3>3. QED BY <1>1, <1>3, <2>1, <3>1, <3>2
  <2>4. QED BY <2>1, <2>2, <2>3 DEF d
<1>7. v = r
  <2>1. l * P \in Int BY <1>1
  <2>2. QED BY <1>1, <1>3, <1>4, <1>6, <2>1
<1>8. QED BY <1>7 DEF v

\* Multiples of P do not matter.
LEMMA ModShift ==
  ASSUME NEW a \in Int, NEW k \in Int
  PROVE  (a + k * P) % P = a % P
<1>1. P \in Nat BY Facts
<1>2. PICK l \in Int : a = l * P + (a % P) BY ModWitness
<1> DEFINE v == a % P
<1>3. v \in Residue /\ v \in Int BY ModWitness DEF Residue
<1> HIDE DEF v
<1>4. a = l * P + v BY <1>2 DEF v
<1>5. (l + k) * P = l * P + k * P /\ l * P \in Int /\ k * P \in Int BY <1>1
<1>6. a + k * P = (l + k) * P + v /\ a + k * P \in Int BY <1>3, <1>4, <1>5
<1>7. (a + k * P) % P = v BY <1>3, <1>6, ModUnique
<1>8. QED BY <1>7 DEF v

\* A residue is its own.
LEMMA ModResidue ==
  ASSUME NEW r \in Residue
  PROVE  r \in Nat /\ r < P /\ r % P = r
<1>1. r \in Nat /\ r < P /\ P \in Nat BY Facts DEF Residue
<1>2. r = 0 * P + r BY <1>1
<1>3. QED BY <1>1, <1>2, ModUnique

\* Sums, differences and products may be reduced before or after.
LEMMA ModAdd ==
  ASSUME NEW a \in Int, NEW b \in Int
  PROVE  /\ ((a % P) + b) % P = (a + b) % P
         /\ ((a % P) + (b % P)) % P = (a + b) % P
<1>1. ASSUME NEW x \in Int, NEW y \in Int
      PROVE  ((x % P) + y) % P = (x + y) % P
  <2>1. PICK k \in Int : x = k * P + (x % P) BY ModWitness
  <2> DEFINE v == x % P
  <2>2. v \in Int /\ x = k * P + v BY <2>1, ModWitness DEF Residue
  <2> HIDE DEF v
  <2>3. k * P \in Int BY Facts
  <2>4. x + y = (v + y) + k * P /\ v + y \in Int BY <2>2, <2>3
  <2>5. (x + y) % P = (v + y) % P BY <2>4, ModShift
  <2>6. QED BY <2>5 DEF v
<1>2. ((a % P) + b) % P = (a + b) % P BY <1>1
<1>3. a % P \in Int /\ b % P \in Int BY ModWitness DEF Residue
<1>4. ((b % P) + (a % P)) % P = (b + (a % P)) % P BY <1>1, <1>3
<1>5. (b % P) + (a % P) = (a % P) + (b % P) /\ b + (a % P) = (a % P) + b
  BY <1>3
<1>6. QED BY <1>2, <1>4, <1>5

LEMMA ModSub ==
  ASSUME NEW a \in Int, NEW b \in Int
  PROVE  ((a % P) - (b % P)) % P = (a - b) % P
<1>1. PICK l \in Int : b = l * P + (b % P) BY ModWitness
<1> DEFINE v == b % P
           u == a % P
<1>2. v \in Int /\ u \in Int /\ b = l * P + v BY <1>1, ModWitness DEF Residue
<1>3. (u + (-v)) % P = (a + (-v)) % P BY <1>2, ModAdd
<1> HIDE DEF u, v
<1>4. l * P \in Int BY Facts
<1>5. a + (-v) = (a - b) + l * P /\ u + (-v) = u - v BY <1>2, <1>4
<1>6. ((a - b) + l * P) % P = (a - b) % P BY <1>2, ModShift
<1>7. (u - v) % P = (a - b) % P BY <1>3, <1>5, <1>6
<1>8. QED BY <1>7 DEF u, v

LEMMA ModOne ==
  ASSUME NEW a \in Int
  PROVE  /\ ((a % P) + 1) % P = (a + 1) % P
         /\ ((a % P) - 1) % P = (a - 1) % P
<1> DEFINE one == 1
           minus == -1
<1>1. one \in Int /\ minus \in Int OBVIOUS
<1> HIDE DEF one, minus
<1>2. ((a % P) + one) % P = (a + one) % P BY <1>1, ModAdd
<1>3. ((a % P) + minus) % P = (a + minus) % P BY <1>1, ModAdd
<1>4. a % P \in Int BY ModWitness DEF Residue
<1>5. (a % P) + minus = (a % P) - 1 /\ a + minus = a - 1 BY <1>4 DEF minus
<1>6. QED BY <1>2, <1>3, <1>5 DEF one

LEMMA ModMul ==
  ASSUME NEW a \in Int, NEW b \in Int
  PROVE  ((a % P) * b) % P = (a * b) % P /\ (b * (a % P)) % P = (b * a) % P
<1>1. PICK k \in Int : a = k * P + (a % P) BY ModWitness
<1> DEFINE v == a % P
<1>2. v \in Int /\ a = k * P + v BY <1>1, ModWitness DEF Residue
<1> HIDE DEF v
<1>3. P \in Int /\ k * b \in Int /\ v * b \in Int BY <1>2, Facts
<1>4. a * b = v * b + (k * b) * P BY <1>2, <1>3
<1>5. (a * b) % P = (v * b) % P BY <1>3, <1>4, ModShift
<1>6. b * a = a * b /\ b * v = v * b BY <1>2
<1>7. QED BY <1>5, <1>6 DEF v

\* The product is a residue, in any order.
LEMMA FmulLaws ==
  /\ \A a, b \in Residue : Fmul(a, b) \in Residue /\ Fmul(a, b) = Fmul(b, a)
  /\ \A a, b, c \in Residue : Fmul(Fmul(a, b), c) = Fmul(a, Fmul(b, c))
  /\ \A a \in Residue : Fmul(1, a) = a /\ Fmul(a, 1) = a
  /\ \A a \in Residue : Fmul(0, a) = 0 /\ Fmul(a, 0) = 0
  /\ 0 \in Residue /\ 1 \in Residue
<1>0. /\ 0 \in Residue /\ 1 \in Residue /\ \A a \in Residue : a \in Int /\ a % P = a
  BY Facts, ModResidue DEF Residue
<1>1. ASSUME NEW a \in Residue, NEW b \in Residue
      PROVE  Fmul(a, b) \in Residue /\ Fmul(a, b) = Fmul(b, a)
  <2>1. a * b \in Int /\ a * b = b * a BY <1>0
  <2>2. (a * b) % P \in Residue BY <2>1, ModWitness
  <2>3. QED BY <2>1, <2>2 DEF Fmul
<1>2. ASSUME NEW a \in Residue, NEW b \in Residue, NEW c \in Residue
      PROVE  Fmul(Fmul(a, b), c) = Fmul(a, Fmul(b, c))
  <2>1. a * b \in Int /\ b * c \in Int /\ a \in Int /\ c \in Int BY <1>0
  <2>2. Fmul(Fmul(a, b), c) = ((a * b) * c) % P BY <2>1, ModMul DEF Fmul
  <2>3. Fmul(a, Fmul(b, c)) = (a * (b * c)) % P BY <2>1, ModMul DEF Fmul
  <2>4. (a * b) * c = a * (b * c) BY <1>0
  <2>5. QED BY <2>2, <2>3, <2>4
<1>3. ASSUME NEW a \in Residue
      PROVE  /\ Fmul(1, a) = a /\ Fmul(a, 1) = a
             /\ Fmul(0, a) = 0 /\ Fmul(a, 0) = 0
  <2>1. 1 * a = a /\ a * 1 = a /\ 0 * a = 0 /\ a * 0 = 0 BY <1>0
  <2>2. QED BY <1>0, <2>1 DEF Fmul
<1>4. QED BY <1>0, <1>1, <1>2, <1>3

\* Factors may change places.
LEMMA FmulSwaps ==
  ASSUME NEW a \in Residue, NEW b \in Residue, NEW c \in Residue, NEW d \in Residue
  PROVE  /\ Fmul(a, Fmul(b, c)) = Fmul(b, Fmul(a, c))
         /\ Fmul(Fmul(a, b), Fmul(c, d)) = Fmul(Fmul(a, c), Fmul(b, d))
<1>1. ASSUME NEW x \in Residue, NEW y \in Residue, NEW z \in Residue
      PROVE  Fmul(x, Fmul(y, z)) = Fmul(y, Fmul(x, z))
  <2>1. Fmul(Fmul(x, y), z) = Fmul(x, Fmul(y, z)) BY FmulLaws
  <2>2. Fmul(Fmul(y, x), z) = Fmul(y, Fmul(x, z)) BY FmulLaws
  <2>3. Fmul(x, y) = Fmul(y, x) BY FmulLaws
  <2>4. QED BY <2>1, <2>2, <2>3
<1>2. Fmul(c, d) \in Residue /\ Fmul(b, d) \in Residue BY FmulLaws
<1>3. Fmul(Fmul(a, b), Fmul(c, d)) = Fmul(a, Fmul(b, Fmul(c, d)))
  BY <1>2, FmulLaws
<1>4. Fmul(Fmul(a, c), Fmul(b, d)) = Fmul(a, Fmul(c, Fmul(b, d)))
  BY <1>2, FmulLaws
<1>5. Fmul(b, Fmul(c, d)) = Fmul(c, Fmul(b, d)) BY <1>1
<1>6. QED BY <1>1, <1>3, <1>4, <1>5

\* A product is zero only if a factor is: P is prime.  The least number whose
\* product with b is a multiple of P would leave a smaller one.
LEMMA NoZeroDivisors ==
  ASSUME NEW a \in Residue, NEW b \in Residue, Fmul(a, b) = 0
  PROVE  a = 0 \/ b = 0
<1> SUFFICES ASSUME a # 0 PROVE b = 0 OBVIOUS
<1> DEFINE S == {n \in 1 .. P - 1 : (n * b) % P = 0}
<1>1. /\ P \in Nat /\ P > 1 /\ a \in Nat /\ b \in Nat /\ a < P /\ b % P = b
  BY Facts, ModResidue
<1>2. a \in S BY <1>1 DEF Fmul
<1>3. S \in SUBSET Nat /\ S # {} BY <1>1, <1>2
<1> HIDE DEF S
<1>4. PICK m \in S : \A n \in S : m <= n BY <1>3, LeastMember
<1> USE DEF S
<1>5. m \in Nat /\ 1 <= m /\ m < P /\ (m * b) % P = 0 BY <1>1, <1>4
<1>6. CASE m = 1
  <2>1. m * b = b BY <1>1, <1>6
  <2>2. QED BY <1>1, <1>5, <2>1
<1>7. CASE m > 1
  <2> DEFINE q == P \div m
             r == P % m
  <2>1. q \in Int /\ r \in 0 .. m - 1 /\ P = m * q + r BY <1>1, <1>5
  <2>2. r # 0
    <3>1. m \in 2 .. P - 1 BY <1>1, <1>5, <1>7
    <3>2. QED BY <3>1, FieldAssumption
  <2> HIDE DEF q, r
  <2>3. PICK k \in Int : m * b = k * P + ((m * b) % P)
    <3>1. m * b \in Int BY <1>1, <1>5
    <3>2. QED BY <3>1, ModWitness
  <2>4. m * b = k * P BY <1>1, <1>5, <2>3
  <2>5. r * b = 0 + (b - q * k) * P
    <3>1. r = P - m * q /\ r \in Int /\ m * q \in Int BY <1>1, <1>5, <2>1
    <3>2. r * b = P * b - (m * q) * b BY <1>1, <3>1
    <3>3. (m * q) * b = q * (m * b) BY <1>1, <1>5, <2>1
    <3>4. q * (k * P) = (q * k) * P /\ (q * k) * P \in Int BY <1>1, <2>1
    <3>5. (b - q * k) * P = P * b - (q * k) * P BY <1>1, <2>1
    <3>6. P * b \in Int BY <1>1
    <3>7. QED BY <2>4, <3>2, <3>3, <3>4, <3>5, <3>6
  <2>6. (r * b) % P = 0
    <3>1. b - q * k \in Int BY <1>1, <2>1
    <3>2. (0 + (b - q * k) * P) % P = 0 % P BY <3>1, ModShift
    <3>3. 0 % P = 0 BY ModResidue, FmulLaws
    <3>4. QED BY <2>5, <3>2, <3>3
  <2>7. r \in 1 .. P - 1 /\ r < m BY <1>1, <1>5, <2>1, <2>2
  <2>8. r \in S BY <2>6, <2>7
  <2>9. QED BY <1>4, <1>5, <2>7, <2>8
<1>8. QED BY <1>5, <1>6, <1>7

-----------------------------------------------------------------------------
(* Powers                                                                   *)

\* What fpow computes, for exponents up to n.
Powers(n, g) ==
  g = [exp \in 0 .. n |-> [base \in Residue |->
         IF exp = 0 THEN 1
         ELSE Fmul(IF exp % 2 = 1 THEN base ELSE 1, g[exp \div 2][Fmul(base, base)])]]

\* Halving an exponent.
LEMMA Halves ==
  ASSUME NEW n \in Nat, n > 0
  PROVE  /\ n \div 2 \in Nat /\ n \div 2 < n
         /\ n % 2 = 1 => (n + 1) \div 2 = (n \div 2) + 1 /\ (n + 1) % 2 = 0
         /\ n % 2 # 1 => (n + 1) \div 2 = n \div 2 /\ (n + 1) % 2 = 1
OBVIOUS

\* The recursion is well-founded.
LEMMA PowersExist == \A n \in 0 .. P : \E g : Powers(n, g)
<1> DEFINE T == {n \in 0 .. P : ~\E g : Powers(n, g)}
<1>1. ASSUME T # {} PROVE FALSE
  <2>1. T \in SUBSET Nat OBVIOUS
  <2> HIDE DEF T
  <2>2. PICK m \in T : \A n \in T : m <= n BY <1>1, <2>1, LeastMember
  <2> USE DEF T
  <2>3. m \in Nat /\ m <= P /\ P \in Nat BY Facts
  <2>4. CASE m = 0
    <3> DEFINE h == [exp \in 0 .. 0 |-> [base \in Residue |-> 1]]
    <3>1. Powers(0, h)
      BY DEF Powers
    <3>2. QED BY <2>2, <2>4, <3>1
  <2>5. CASE m > 0
    <3>1. m - 1 \in 0 .. P /\ m - 1 \notin T BY <2>2, <2>3, <2>5
    <3>2. PICK g : Powers(m - 1, g) BY <3>1
    <3> DEFINE value(b, e) ==
                 IF e = 0 THEN 1
                 ELSE Fmul(IF e % 2 = 1 THEN b ELSE 1, g[e \div 2][Fmul(b, b)])
               h == [exp \in 0 .. m |-> [base \in Residue |-> value(base, exp)]]
    <3>3. ASSUME NEW b \in Residue, NEW e \in 0 .. m - 1
          PROVE  g[e][b] = value(b, e)
      BY <3>2 DEF Powers
    <3>4. ASSUME NEW b \in Residue, NEW e \in 0 .. m
          PROVE  value(b, e) =
                   IF e = 0 THEN 1
                   ELSE Fmul(IF e % 2 = 1 THEN b ELSE 1, h[e \div 2][Fmul(b, b)])
      <4>1. Fmul(b, b) \in Residue BY FmulLaws
      <4>2. CASE e = 0 BY <4>2
      <4>3. CASE e > 0
        <5>1. e \div 2 \in 0 .. m - 1 /\ e \div 2 \in 0 .. m BY <2>3, <4>3, Halves
        <5>2. h[e \div 2][Fmul(b, b)] = value(Fmul(b, b), e \div 2) BY <4>1, <5>1
        <5>3. g[e \div 2][Fmul(b, b)] = value(Fmul(b, b), e \div 2)
          BY <3>3, <4>1, <5>1
        <5>4. QED BY <5>2, <5>3
      <4>4. e = 0 \/ e > 0 OBVIOUS
      <4>5. QED BY <4>2, <4>3, <4>4
    <3>5. Powers(m, h) BY <3>4 DEF Powers
    <3>6. QED BY <2>2, <3>5
  <2>6. QED BY <2>3, <2>4, <2>5
<1>2. QED BY <1>1

\* fpow by its recursion.
LEMMA FpowUnfolds ==
  ASSUME NEW b \in Residue, NEW n \in 0 .. P
  PROVE  Fpow[n][b] =
           IF n = 0 THEN 1
           ELSE Fmul(IF n % 2 = 1 THEN b ELSE 1, Fpow[n \div 2][Fmul(b, b)])
<1>1. Fpow = CHOOSE g : Powers(P, g) BY DEF Fpow, Powers
<1>2. P \in 0 .. P BY Facts
<1>3. Powers(P, Fpow) BY <1>1, <1>2, PowersExist
<1> DEFINE F == Fpow
<1> HIDE DEF F
<1>4. Powers(P, F) BY <1>3 DEF F
<1>5. F[n][b] = IF n = 0 THEN 1
           ELSE Fmul(IF n % 2 = 1 THEN b ELSE 1, F[n \div 2][Fmul(b, b)])
  <2> DEFINE row(e) == [base \in Residue |->
                IF e = 0 THEN 1
                ELSE Fmul(IF e % 2 = 1 THEN base ELSE 1, F[e \div 2][Fmul(base, base)])]
  <2>1. F = [e \in 0 .. P |-> row(e)] BY <1>4 DEF Powers
  <2> HIDE DEF row
  <2>2. F[n] = row(n) BY <2>1
  <2>3. F[n][b] = row(n)[b] BY <2>2
  <2>4. row(n)[b] = IF n = 0 THEN 1
           ELSE Fmul(IF n % 2 = 1 THEN b ELSE 1, F[n \div 2][Fmul(b, b)])
    BY DEF row
  <2>5. QED BY <2>3, <2>4
<1>6. QED BY <1>5 DEF F

\* It is a residue, and the next power is one multiplication more.
LEMMA FpowLaws ==
  ASSUME NEW b \in Residue
  PROVE  /\ Fpow[0][b] = 1
         /\ \A n \in 0 .. P : Fpow[n][b] \in Residue
         /\ \A n \in 0 .. P - 1 : Fpow[n + 1][b] = Fmul(b, Fpow[n][b])
<1>0. P \in Nat /\ P > 1 BY Facts
<1>1. \A c \in Residue : Fpow[0][c] = 1
  <2>1. 0 \in 0 .. P BY <1>0
  <2>2. QED BY <2>1, FpowUnfolds
<1>2. \A c \in Residue, n \in 0 .. P : Fpow[n][c] \in Residue
  <2> DEFINE T == {n \in 0 .. P : \E c \in Residue : Fpow[n][c] \notin Residue}
  <2>1. ASSUME T # {} PROVE FALSE
    <3>1. T \in SUBSET Nat OBVIOUS
    <3> HIDE DEF T
    <3>2. PICK m \in T : \A n \in T : m <= n BY <2>1, <3>1, LeastMember
    <3> USE DEF T
    <3>3. PICK c \in Residue : Fpow[m][c] \notin Residue BY <3>2
    <3>4. m \in Nat /\ m \in 0 .. P OBVIOUS
    <3>5. m > 0
      <4>1. m # 0 BY <1>1, <3>3, FmulLaws
      <4>2. QED BY <3>4, <4>1
    <3>6. m \div 2 \in 0 .. P /\ m \div 2 \notin T
      <4>1. m \div 2 \in Nat /\ m \div 2 < m BY <3>4, <3>5, Halves
      <4> DEFINE k == m \div 2
      <4> HIDE DEF k, T
      <4>2. k \in Nat /\ k < m /\ m <= P BY <3>4, <4>1 DEF k
      <4>3. k \in 0 .. P /\ k \notin T BY <1>0, <3>2, <3>4, <4>2
      <4>4. QED BY <4>3 DEF k
    <3>7. Fmul(c, c) \in Residue BY FmulLaws
    <3>8. Fpow[m \div 2][Fmul(c, c)] \in Residue BY <3>6, <3>7
    <3>9. Fpow[m][c] = Fmul(IF m % 2 = 1 THEN c ELSE 1, Fpow[m \div 2][Fmul(c, c)])
      BY <3>4, <3>5, FpowUnfolds
    <3> DEFINE x == Fpow[m \div 2][Fmul(c, c)]
               y == IF m % 2 = 1 THEN c ELSE 1
    <3>10. x \in Residue /\ y \in Residue BY <3>8, FmulLaws
    <3> HIDE DEF x, y
    <3>11. Fmul(y, x) \in Residue BY <3>10, FmulLaws
    <3>12. QED BY <3>3, <3>9, <3>11 DEF x, y
  <2>2. QED BY <2>1
<1>3. \A c \in Residue : \A n \in 0 .. P - 1 : Fpow[n + 1][c] = Fmul(c, Fpow[n][c])
  <2> DEFINE T == {n \in 0 .. P - 1 :
                     \E c \in Residue : Fpow[n + 1][c] # Fmul(c, Fpow[n][c])}
  <2>1. ASSUME T # {} PROVE FALSE
    <3>1. T \in SUBSET Nat OBVIOUS
    <3> HIDE DEF T
    <3>2. PICK m \in T : \A n \in T : m <= n BY <2>1, <3>1, LeastMember
    <3> USE DEF T
    <3>3. PICK c \in Residue : Fpow[m + 1][c] # Fmul(c, Fpow[m][c]) BY <3>2
    <3>4. m \in Nat /\ m \in 0 .. P /\ m + 1 \in 0 .. P BY <1>0
    <3> DEFINE s == Fmul(c, c)
               half == Fpow[m \div 2][s]
    <3>5. s \in Residue BY FmulLaws
    <3>6. Fpow[m + 1][c] =
            Fmul(IF (m + 1) % 2 = 1 THEN c ELSE 1, Fpow[(m + 1) \div 2][s])
      BY <3>4, FpowUnfolds
    <3>7. CASE m = 0
      <4>1. (m + 1) % 2 = 1 /\ (m + 1) \div 2 = 0 BY <3>7
      <4>2. Fpow[m + 1][c] = Fmul(c, 1) BY <1>1, <3>5, <3>6, <4>1
      <4>3. Fpow[m][c] = 1 BY <1>1, <3>7
      <4>4. QED BY <3>3, <4>2, <4>3
    <3>8. CASE m > 0
      <4>1. Fpow[m][c] = Fmul(IF m % 2 = 1 THEN c ELSE 1, half)
        BY <3>4, <3>8, FpowUnfolds
      <4>2. m \div 2 \in 0 .. P - 1 /\ m \div 2 \notin T /\ m \div 2 \in 0 .. P
        <5>1. m \div 2 \in Nat /\ m \div 2 < m BY <3>4, <3>8, Halves
        <5> DEFINE k == m \div 2
        <5> HIDE DEF k, T
        <5>2. k \in Nat /\ k < m /\ m + 1 <= P BY <3>4, <5>1 DEF k
        <5>3. k \in 0 .. P - 1 /\ k \in 0 .. P /\ k \notin T
          BY <1>0, <3>2, <3>4, <5>2
        <5>4. QED BY <5>3 DEF k
      <4>3. half \in Residue BY <1>2, <3>5, <4>2
      <4>4. CASE m % 2 = 1
        <5>1. (m + 1) \div 2 = (m \div 2) + 1 /\ (m + 1) % 2 = 0
          BY <3>4, <3>8, <4>4, Halves
        <5>2. Fpow[(m \div 2) + 1][s] = Fmul(s, half) BY <3>5, <4>2
        <5>3. Fpow[m + 1][c] = Fmul(1, Fmul(s, half)) BY <3>6, <5>1, <5>2
        <5>4. Fpow[m][c] = Fmul(c, half) BY <4>1, <4>4
        <5> HIDE DEF half
        <5>5. Fmul(1, Fmul(s, half)) = Fmul(s, half) BY <3>5, <4>3, FmulLaws
        <5>6. Fmul(s, half) = Fmul(c, Fmul(c, half)) BY <4>3, FmulLaws
        <5>7. QED BY <3>3, <5>3, <5>4, <5>5, <5>6
      <4>5. CASE m % 2 # 1
        <5>1. (m + 1) \div 2 = m \div 2 /\ (m + 1) % 2 = 1
          BY <3>4, <3>8, <4>5, Halves
        <5>2. Fpow[m + 1][c] = Fmul(c, half) BY <3>6, <5>1
        <5>3. Fpow[m][c] = Fmul(1, half) BY <4>1, <4>5
        <5> HIDE DEF half
        <5>4. Fmul(1, half) = half BY <4>3, FmulLaws
        <5>5. QED BY <3>3, <5>2, <5>3, <5>4
      <4>6. QED BY <4>4, <4>5
    <3>9. QED BY <3>4, <3>7, <3>8
  <2>2. QED BY <2>1
<1>4. QED BY <1>1, <1>2, <1>3

-----------------------------------------------------------------------------
(* Inverses: that finv yields one is Fermat's little theorem.  Multiplying  *)
(* by a permutes the residues other than 0, whose product does not change.  *)

\* A factor other than 0 can be cancelled.
LEMMA FmulCancels ==
  ASSUME NEW x \in Residue, NEW y \in Residue, NEW u \in Residue, u # 0,
         Fmul(x, u) = Fmul(y, u)
  PROVE  x = y
<1>0. /\ x \in Nat /\ y \in Nat /\ u \in Nat /\ x < P /\ y < P /\ P \in Nat
  BY Facts, ModResidue
<1>1. Fsub(x, y) \in Residue /\ Fsub(x, y) = (x - y) % P BY FsubExact
<1>2. Fmul(Fsub(x, y), u) = ((x - y) * u) % P
  <2>1. x - y \in Int /\ u \in Int BY <1>0
  <2>2. (((x - y) % P) * u) % P = ((x - y) * u) % P BY <2>1, ModMul
  <2>3. QED BY <1>1, <2>2 DEF Fmul
<1>3. (x - y) * u = x * u - y * u /\ x * u \in Int /\ y * u \in Int BY <1>0
<1>4. (((x * u) % P) - ((y * u) % P)) % P = (x * u - y * u) % P BY <1>3, ModSub
<1>5. (x * u) % P = (y * u) % P /\ (x * u) % P \in Int
  BY <1>3, ModWitness DEF Fmul, Residue
<1>6. ((x * u) % P) - ((y * u) % P) = 0 BY <1>5
<1>7. 0 % P = 0 BY ModResidue, FmulLaws
<1>8. Fmul(Fsub(x, y), u) = 0 BY <1>2, <1>3, <1>4, <1>6, <1>7
<1>9. Fsub(x, y) = 0 BY <1>1, <1>8, NoZeroDivisors
<1>10. QED BY <1>0, <1>9 DEF Fsub

\* The products of sets of residues.
Products(n, pr) ==
  /\ pr \in [SUBSET (1 .. n) -> Residue]
  /\ pr[{}] = 1
  /\ \A S \in SUBSET (1 .. n) : \A x \in S : pr[S] = Fmul(x, pr[S \ {x}])

\* There are such products, in whatever order.
LEMMA ProductsExist == \A n \in 0 .. P - 1 : \E pr : Products(n, pr)
<1> DEFINE T == {n \in 0 .. P - 1 : ~\E pr : Products(n, pr)}
<1>1. ASSUME T # {} PROVE FALSE
  <2>1. T \in SUBSET Nat OBVIOUS
  <2> HIDE DEF T
  <2>2. PICK m \in T : \A n \in T : m <= n BY <1>1, <2>1, LeastMember
  <2> USE DEF T
  <2>3. m \in Nat /\ m < P /\ P \in Nat BY Facts
  <2>4. CASE m = 0
    <3> DEFINE h == [S \in SUBSET (1 .. 0) |-> 1]
    <3>1. h \in [SUBSET (1 .. 0) -> Residue] /\ h[{}] = 1 BY FmulLaws
    <3>2. \A S \in SUBSET (1 .. 0) : S = {} OBVIOUS
    <3> HIDE DEF h
    <3>3. Products(0, h) BY <3>1, <3>2 DEF Products
    <3>4. QED BY <2>2, <2>4, <3>3
  <2>5. CASE m > 0
    <3>1. m - 1 \in 0 .. P - 1 /\ m - 1 \notin T BY <2>2, <2>3, <2>5
    <3>2. PICK g : Products(m - 1, g) BY <3>1
    <3> DEFINE D == SUBSET (1 .. m)
               E == SUBSET (1 .. m - 1)
               value(S) == IF m \in S THEN Fmul(m, g[S \ {m}]) ELSE g[S]
               h == [S \in D |-> value(S)]
    <3>3. m \in Residue /\ \A x \in 1 .. m : x \in Residue BY <2>3 DEF Residue
    <3>4. \A S \in D : S \ {m} \in E BY <2>3
    <3>5. \A S \in E : m \notin S /\ S \in D BY <2>3
    <3>6. /\ \A S \in E : g[S] \in Residue
          /\ \A S \in E : \A x \in S : g[S] = Fmul(x, g[S \ {x}])
          /\ g[{}] = 1
      BY <3>2 DEF Products
    <3> HIDE DEF D, E
    <3>7. \A S \in D : m \notin S => S = S \ {m} OBVIOUS
    <3>8. \A S \in D : value(S) \in Residue
      <4>1. \A S \in D : g[S \ {m}] \in Residue BY <3>4, <3>6
      <4>2. QED BY <3>3, <3>7, <4>1, FmulLaws
    <3>9. ASSUME NEW S \in D, NEW x \in S
          PROVE  value(S) = Fmul(x, value(S \ {x}))
      <4>0. x \in Residue /\ S \ {x} \in D BY <3>3 DEF D
      <4>1. CASE x = m
        <5>1. value(S \ {m}) = g[S \ {m}] OBVIOUS
        <5>2. QED BY <4>1, <5>1
      <4>2. CASE x # m /\ m \in S
        <5> DEFINE r == (S \ {m}) \ {x}
        <5>1. r = (S \ {x}) \ {m} /\ r \in E BY <3>4, <4>0
        <5>2. S \ {m} \in E /\ x \in S \ {m} BY <3>4, <4>2
        <5>3. g[S \ {m}] = Fmul(x, g[r]) BY <3>6, <5>2
        <5>4. value(S \ {x}) = Fmul(m, g[r]) BY <4>2, <5>1
        <5>5. value(S) = Fmul(m, Fmul(x, g[r])) BY <4>2, <5>3
        <5>6. g[r] \in Residue BY <3>6, <5>1
        <5>7. Fmul(m, Fmul(x, g[r])) = Fmul(x, Fmul(m, g[r]))
          <6> DEFINE z == g[r]
          <6>1. z \in Residue BY <5>6
          <6> HIDE DEF z
          <6>2. Fmul(m, Fmul(x, z)) = Fmul(x, Fmul(m, z))
            BY <3>3, <4>0, <6>1, FmulSwaps
          <6>3. QED BY <6>2 DEF z
        <5>8. QED BY <5>4, <5>5, <5>7
      <4>3. CASE m \notin S
        <5>1. S \in E
          <6>1. S \ {m} \in E BY <3>4
          <6>2. QED BY <3>7, <4>3, <6>1
        <5>2. QED BY <3>6, <4>3, <5>1
      <4>4. QED BY <4>1, <4>2, <4>3
    <3>10. {} \in D /\ value({}) = 1 BY <3>6 DEF D
    <3>11. \A S \in D : h[S] = value(S) OBVIOUS
    <3>12. h \in [D -> Residue] BY <3>8
    <3>13. \A S \in D : \A x \in S : S \ {x} \in D BY DEF D
    <3> HIDE DEF h, value
    <3>14. Products(m, h) BY <3>9, <3>10, <3>11, <3>12, <3>13 DEF Products, D
    <3>15. QED BY <2>2, <3>14
  <2>6. QED BY <2>3, <2>4, <2>5
<1>2. QED BY <1>1

\* The product of residues other than 0 is another.
LEMMA ProductsNotZero ==
  ASSUME NEW pr, Products(P - 1, pr)
  PROVE  \A S \in SUBSET (1 .. P - 1) : pr[S] # 0
<1> DEFINE U == 1 .. P - 1
           T == {S \in SUBSET U : pr[S] = 0}
<1>0. IsFiniteSet(U) /\ U \subseteq Residue /\ 0 \notin U
  BY FS_Interval, Facts DEF Residue
<1>1. ASSUME T # {} PROVE FALSE
  <2>1. T \in SUBSET FiniteSubsetsOf(U)
    <3>1. FiniteSubsetsOf(U) = SUBSET U BY <1>0, FS_FiniteSubsetsOfFinite
    <3>2. T \subseteq SUBSET U OBVIOUS
    <3>3. QED BY <3>1, <3>2
  <2> HIDE DEF T
  <2>2. PICK m \in T : \A s \in T : s \subseteq m => s = m BY <1>1, <2>1, SmallestSet
  <2> USE DEF T
  <2>3. m # {}
    <3>1. pr[{}] = 1 BY DEF Products
    <3>2. pr[m] = 0 OBVIOUS
    <3> HIDE DEF T, U
    <3>3. QED BY <3>1, <3>2
  <2>4. PICK x \in m : TRUE BY <2>3
  <2>5. m \ {x} \in SUBSET U /\ m \ {x} \notin T BY <2>2
  <2>6. pr[m] = Fmul(x, pr[m \ {x}]) /\ pr[m \ {x}] \in Residue
    BY <2>5 DEF Products
  <2>7. x \in Residue /\ x # 0 BY <1>0
  <2>8. QED BY <2>2, <2>5, <2>6, <2>7, NoZeroDivisors
<1>2. QED BY <1>1

\* The multiples of a by the members of S.
Multiples(a, S) == {Fmul(a, x) : x \in S}

\* The product of multiples is the product times a power.
LEMMA ProductOfMultiples ==
  ASSUME NEW a \in Residue, a # 0, NEW pr, Products(P - 1, pr)
  PROVE  \A S \in SUBSET (1 .. P - 1) :
           /\ Multiples(a, S) \in SUBSET (1 .. P - 1)
           /\ Cardinality(S) \in 0 .. P - 1
           /\ pr[Multiples(a, S)] = Fmul(Fpow[Cardinality(S)][a], pr[S])
<1> DEFINE U == 1 .. P - 1
           ok(S) == pr[Multiples(a, S)] = Fmul(Fpow[Cardinality(S)][a], pr[S])
           T == {S \in SUBSET U : ~ok(S)}
<1>0. /\ P \in Nat /\ P > 1
      /\ IsFiniteSet(U) /\ Cardinality(U) = P - 1
      /\ U \subseteq Residue /\ 0 \notin U
      /\ \A x \in Residue : x # 0 => x \in U
  BY FS_Interval, Facts DEF Residue
<1>1. \A x \in U : Fmul(a, x) \in U
  <2>1. \A x \in U : Fmul(a, x) \in Residue /\ Fmul(a, x) # 0
    BY <1>0, FmulLaws, NoZeroDivisors
  <2>2. QED BY <1>0, <2>1
<1>2. \A S \in SUBSET U : /\ IsFiniteSet(S) /\ Cardinality(S) \in 0 .. P - 1
                          /\ Multiples(a, S) \in SUBSET U
  <2> SUFFICES ASSUME NEW S \in SUBSET U
               PROVE  /\ IsFiniteSet(S) /\ Cardinality(S) \in 0 .. P - 1
                      /\ Multiples(a, S) \in SUBSET U
    OBVIOUS
  <2>1. IsFiniteSet(S) /\ Cardinality(S) <= P - 1 /\ Cardinality(S) \in Nat
    BY <1>0, FS_Subset, FS_CardinalityType
  <2>2. Multiples(a, S) \in SUBSET U BY <1>1 DEF Multiples
  <2>3. QED BY <1>0, <2>1, <2>2
<1>3. ASSUME T # {} PROVE FALSE
  <2>1. T \in SUBSET FiniteSubsetsOf(U)
    <3>1. FiniteSubsetsOf(U) = SUBSET U BY <1>0, FS_FiniteSubsetsOfFinite
    <3>2. T \subseteq SUBSET U OBVIOUS
    <3>3. QED BY <3>1, <3>2
  <2> HIDE DEF T
  <2>2. PICK m \in T : \A s \in T : s \subseteq m => s = m BY <1>3, <2>1, SmallestSet
  <2> USE DEF T
  <2>3. CASE m = {}
    <3>1. Multiples(a, m) = {} /\ Cardinality(m) = 0
      BY <2>3, FS_EmptySet DEF Multiples
    <3>2. pr[{}] = 1 /\ Fpow[0][a] = 1 /\ Fmul(1, 1) = 1
      BY FpowLaws, FmulLaws DEF Products
    <3>3. QED BY <2>2, <2>3, <3>1, <3>2
  <2>4. CASE m # {}
    <3>1. PICK c \in m : TRUE BY <2>4
    <3> DEFINE r == m \ {c}
               k == Cardinality(r)
               w == Fpow[k][a]
               z == pr[r]
               ac == Fmul(a, c)
    <3>2. m \in SUBSET U /\ r \in SUBSET U /\ r \notin T /\ c \in U
      BY <2>2, <3>1
    <3>3. ok(r) BY <3>2
    <3>4. /\ Cardinality(m) = k + 1 /\ k \in 0 .. P - 1 /\ k + 1 \in 0 .. P - 1
      <4>1. IsFiniteSet(m) /\ Cardinality(m) \in 0 .. P - 1
            /\ Cardinality(r) \in 0 .. P - 1
        BY <1>2, <3>2
      <4>2. Cardinality(r) = Cardinality(m) - 1 BY <4>1, FS_RemoveElement
      <4>3. QED BY <1>0, <4>1, <4>2
    <3>5. Multiples(a, m) \ {ac} = Multiples(a, r)
      <4>1. \A x \in m : Fmul(a, x) = ac => x = c
        <5>1. \A x \in m : Fmul(x, a) = Fmul(a, x) /\ x \in Residue
          BY <1>0, <3>2, FmulLaws
        <5>2. Fmul(c, a) = ac /\ c \in Residue BY <5>1
        <5> HIDE DEF ac
        <5>3. QED BY <5>1, <5>2, FmulCancels
      <4>2. QED BY <4>1 DEF Multiples
    <3>6. ac \in Multiples(a, m) BY <3>1 DEF Multiples
    <3>7. pr[Multiples(a, m)] = Fmul(ac, pr[Multiples(a, r)])
      <4>1. Multiples(a, m) \in SUBSET U BY <1>2, <3>2
      <4>2. QED BY <3>5, <3>6, <4>1 DEF Products
    <3>8. pr[m] = Fmul(c, z) /\ z \in Residue BY <3>2 DEF Products
    <3>9. Fpow[k + 1][a] = Fmul(a, w) /\ w \in Residue
      <4>1. k \in 0 .. P - 1 /\ k \in 0 .. P BY <1>0, <3>4
      <4>2. QED BY <4>1, FpowLaws
    <3>10. c \in Residue BY <1>0, <3>2
    <3> HIDE DEF r, k, w, z, ac
    <3>11. Fmul(Fmul(a, c), Fmul(w, z)) = Fmul(Fmul(a, w), Fmul(c, z))
      BY <3>8, <3>9, <3>10, FmulSwaps
    <3>12. pr[Multiples(a, r)] = Fmul(w, z) BY <3>3 DEF w, z, k
    <3>13. ok(m) BY <3>4, <3>7, <3>8, <3>9, <3>11, <3>12 DEF ac
    <3>14. QED BY <2>2, <3>13
  <2>5. QED BY <2>3, <2>4
<1>4. QED BY <1>2, <1>3

\* a to the power of P - 1.
LEMMA Fermat ==
  ASSUME NEW a \in Residue, a # 0
  PROVE  Fpow[P - 1][a] = 1
<1> DEFINE U == 1 .. P - 1
           f == [x \in U |-> Fmul(a, x)]
<1>0. /\ P \in Nat /\ P > 1 /\ P - 1 \in 0 .. P - 1 /\ P - 1 \in 0 .. P
      /\ IsFiniteSet(U) /\ Cardinality(U) = P - 1
      /\ U \subseteq Residue /\ U \in SUBSET U
  BY FS_Interval, Facts DEF Residue
<1>1. PICK pr : Products(P - 1, pr) BY <1>0, ProductsExist
<1>2. /\ Multiples(a, U) \in SUBSET U
      /\ pr[Multiples(a, U)] = Fmul(Fpow[P - 1][a], pr[U])
  BY <1>0, <1>1, ProductOfMultiples
<1>3. f \in [U -> U] BY <1>2 DEF Multiples
<1>4. \A x, y \in U : f[x] = f[y] => x = y
  <2> SUFFICES ASSUME NEW x \in U, NEW y \in U, f[x] = f[y] PROVE x = y OBVIOUS
  <2>1. x \in Residue /\ y \in Residue /\ Fmul(x, a) = Fmul(y, a)
    BY <1>0, FmulLaws
  <2>2. QED BY <2>1, FmulCancels
<1>5. f \in Injection(U, U) BY <1>3, <1>4 DEF Injection, IsInjective
<1> HIDE DEF f
<1>6. f \in Surjection(U, U) BY <1>0, <1>5, FS_Injection
<1>7. Multiples(a, U) = U
  <2>1. \A y \in U : \E x \in U : f[x] = y BY <1>6 DEF Surjection
  <2>2. \A y \in U : y \in Multiples(a, U) BY <2>1 DEF f, Multiples
  <2>3. QED BY <1>2, <2>2
<1> DEFINE u == pr[U]
           x == Fpow[P - 1][a]
<1>8. u \in Residue /\ u # 0 /\ x \in Residue
  BY <1>0, <1>1, ProductsNotZero, FpowLaws DEF Products
<1>9. Fmul(1, u) = Fmul(x, u) BY <1>2, <1>7, <1>8, FmulLaws
<1> HIDE DEF u, x
<1>10. x = 1 BY <1>8, <1>9, FmulCancels, FmulLaws
<1>11. QED BY <1>10 DEF x

\* fdiv is division, by everything but 0.
THEOREM FdivExact ==
  ASSUME NEW a \in Residue, NEW b \in Residue, b # 0
  PROVE  Fdiv(a, b) \in Residue /\ Fmul(Fdiv(a, b), b) = a
<1>0. P \in Nat /\ P > 1 /\ P - 2 \in 0 .. P - 1 /\ P - 2 \in 0 .. P BY Facts
<1> DEFINE i == Fpow[P - 2][b]
<1>1. i \in Residue BY <1>0, FpowLaws
<1>2. Fpow[(P - 2) + 1][b] = Fmul(b, i) BY <1>0, FpowLaws
<1>3. (P - 2) + 1 = P - 1 BY <1>0
<1>4. Fmul(b, i) = 1 BY <1>2, <1>3, Fermat
<1>5. Fdiv(a, b) = Fmul(a, i) BY DEF Fdiv, Finv
<1> HIDE DEF i
<1>6. Fmul(a, i) \in Residue /\ Fmul(Fmul(a, i), b) = Fmul(a, Fmul(i, b))
      /\ Fmul(i, b) = Fmul(b, i) /\ Fmul(a, 1) = a
  BY <1>1, FmulLaws
<1>7. QED BY <1>4, <1>5, <1>6

-----------------------------------------------------------------------------
(* Counts: n is how often each element has been added, less removed.        *)

Copies == [Element -> Int]

CountOf(n, S) == SumFunction([e \in S |-> n[e]])

\* A count is a sum over the copies.
LEMMA CountIsSum ==
  ASSUME NEW n \in Copies, NEW S \in SUBSET Element
  PROVE  /\ IsFiniteSet(S)
         /\ \A x \in S : n[x] \in Int
         /\ SumFunctionOnSet(n, S) \in Int
         /\ CountOf(n, S) = SumFunctionOnSet(n, S)
<1> DEFINE f == [e \in S |-> n[e]]
<1>1. IsFiniteSet(S) BY SketchAssumption, FS_Subset
<1>2. \A x \in S : f[x] \in Int /\ f[x] = n[x] /\ n[x] \in Int BY DEF Copies
<1>3. CountOf(n, S) = SumFunctionOnSet(f, S) BY DEF CountOf, SumFunction
<1> HIDE DEF f
<1>4. SumFunctionOnSet(f, S) = SumFunctionOnSet(n, S) BY <1>1, <1>2, SumSame
<1>5. S \in SUBSET S OBVIOUS
<1>6. SumFunctionOnSet(n, S) \in Int BY <1>1, <1>2, <1>5, SumType
<1>7. QED BY <1>1, <1>2, <1>3, <1>4, <1>6

LEMMA CountType ==
  ASSUME NEW n \in Copies, NEW S \in SUBSET Element
  PROVE  CountOf(n, S) \in Int
BY CountIsSum

\* One element's copies can be counted apart.
LEMMA CountSplits ==
  ASSUME NEW n \in Copies, NEW S \in SUBSET Element, NEW x \in S
  PROVE  CountOf(n, S) = n[x] + CountOf(n, S \ {x})
<1>1. S \ {x} \in SUBSET Element /\ S \in SUBSET S OBVIOUS
<1>2. /\ IsFiniteSet(S) /\ \A y \in S : n[y] \in Int
      /\ CountOf(n, S) = SumFunctionOnSet(n, S)
  BY CountIsSum
<1>3. CountOf(n, S \ {x}) = SumFunctionOnSet(n, S \ {x}) BY <1>1, CountIsSum
<1>4. SumFunctionOnSet(n, S) = n[x] + SumFunctionOnSet(n, S \ {x})
  BY <1>1, <1>2, SumSplits
<1>5. QED BY <1>2, <1>3, <1>4

\* Elements of which there are no copies do not count.
LEMMA CountOfZeros ==
  ASSUME NEW n \in Copies, NEW S \in SUBSET Element, \A x \in S : n[x] = 0
  PROVE  CountOf(n, S) = 0
<1>1. IsFiniteSet(S) /\ CountOf(n, S) = SumFunctionOnSet(n, S) BY CountIsSum
<1>2. SumFunctionOnSet(n, S) = 0 BY <1>1, SumOfZeros
<1>3. QED BY <1>1, <1>2

\* Only the copies matter.
LEMMA CountSame ==
  ASSUME NEW n \in Copies, NEW k \in Copies, NEW S \in SUBSET Element,
         \A x \in S : n[x] = k[x]
  PROVE  CountOf(n, S) = CountOf(k, S)
<1>1. [e \in S |-> n[e]] = [e \in S |-> k[e]] OBVIOUS
<1>2. QED BY <1>1 DEF CountOf

\* n and k are together h.
Together(n, k, h) == \A x \in Element : h[x] = n[x] + k[x]

LEMMA CountAdds ==
  ASSUME NEW n \in Copies, NEW k \in Copies, NEW h \in Copies, Together(n, k, h),
         NEW S \in SUBSET Element
  PROVE  CountOf(h, S) = CountOf(n, S) + CountOf(k, S)
<1>1. /\ IsFiniteSet(S) /\ S \in SUBSET S
      /\ CountOf(n, S) = SumFunctionOnSet(n, S)
      /\ CountOf(k, S) = SumFunctionOnSet(k, S)
      /\ CountOf(h, S) = SumFunctionOnSet(h, S)
  BY CountIsSum
<1>2. \A x \in S : n[x] \in Int /\ k[x] \in Int /\ h[x] = n[x] + k[x]
  BY DEF Together, Copies
<1>3. SumFunctionOnSet(h, S) = SumFunctionOnSet(n, S) + SumFunctionOnSet(k, S)
  BY <1>1, <1>2, SumAdds
<1>4. QED BY <1>1, <1>3

\* k is n with d added at x.
OneMore(n, k, x, d) ==
  \A y \in Element : k[y] = IF y = x THEN n[y] + d ELSE n[y]

LEMMA CountOfOneMore ==
  ASSUME NEW n \in Copies, NEW k \in Copies, NEW x \in Element, NEW d \in Int,
         OneMore(n, k, x, d), NEW S \in SUBSET Element
  PROVE  CountOf(k, S) = IF x \in S THEN CountOf(n, S) + d ELSE CountOf(n, S)
<1>1. CASE x \in S
  <2>1. CountOf(k, S) = k[x] + CountOf(k, S \ {x}) BY <1>1, CountSplits
  <2>2. CountOf(n, S) = n[x] + CountOf(n, S \ {x}) BY <1>1, CountSplits
  <2>3. S \ {x} \in SUBSET Element OBVIOUS
  <2>4. \A y \in S \ {x} : k[y] = n[y] BY DEF OneMore
  <2>5. CountOf(k, S \ {x}) = CountOf(n, S \ {x}) BY <2>3, <2>4, CountSame
  <2>6. k[x] = n[x] + d /\ n[x] \in Int BY DEF OneMore, Copies
  <2>7. CountOf(n, S \ {x}) \in Int BY <2>3, CountType
  <2>8. QED BY <1>1, <2>1, <2>2, <2>5, <2>6, <2>7
<1>2. CASE x \notin S
  <2>1. \A y \in S : k[y] = n[y] BY <1>2 DEF OneMore
  <2>2. CountOf(k, S) = CountOf(n, S) BY <2>1, CountSame
  <2>3. QED BY <1>2, <2>2
<1>3. QED BY <1>1, <1>2

\* If there are copies of one element at most, they are all that counts.
LEMMA CountOfOne ==
  ASSUME NEW n \in Copies, NEW S \in SUBSET Element, NEW x \in S,
         \A y \in S : y # x => n[y] = 0
  PROVE  CountOf(n, S) = n[x]
<1>1. CountOf(n, S) = n[x] + CountOf(n, S \ {x}) BY CountSplits
<1>2. S \ {x} \in SUBSET Element /\ \A y \in S \ {x} : n[y] = 0 OBVIOUS
<1>3. CountOf(n, S \ {x}) = 0 BY <1>2, CountOfZeros
<1>4. n[x] \in Int BY DEF Copies
<1>5. QED BY <1>1, <1>3, <1>4

\* Counts of one sign do not cancel.
LEMMA CountPositive ==
  ASSUME NEW n \in Copies, NEW S \in SUBSET Element, \A y \in S : n[y] >= 0,
         NEW x \in S, n[x] > 0
  PROVE  CountOf(n, S) > 0
<1>1. CountOf(n, S) = n[x] + CountOf(n, S \ {x}) BY CountSplits
<1>2. S \ {x} \in SUBSET Element /\ S \ {x} \in SUBSET (S \ {x}) OBVIOUS
<1>3. IsFiniteSet(S \ {x}) BY <1>2, CountIsSum
<1>4. \A y \in S \ {x} : n[y] \in Nat BY DEF Copies
<1>5. SumFunctionOnSet(n, S \ {x}) \in Nat BY <1>2, <1>3, <1>4, SumOfNaturals
<1>6. CountOf(n, S \ {x}) \in Nat BY <1>2, <1>5, CountIsSum
<1>7. n[x] \in Int BY DEF Copies
<1>8. QED BY <1>1, <1>6, <1>7

\* Elements without copies may be left out.
LEMMA CountIgnoresZeros ==
  ASSUME NEW n \in Copies, NEW S \in SUBSET Element, NEW T \in SUBSET S,
         \A x \in S \ T : n[x] = 0
  PROVE  CountOf(n, S) = CountOf(n, T)
<1> DEFINE R == {Q \in SUBSET (S \ T) : CountOf(n, T \cup Q) # CountOf(n, T)}
<1>0. IsFiniteSet(S \ T) BY CountIsSum
<1>1. ASSUME R # {} PROVE FALSE
  <2>1. R \in SUBSET FiniteSubsetsOf(S \ T)
    <3>1. FiniteSubsetsOf(S \ T) = SUBSET (S \ T) BY <1>0, FS_FiniteSubsetsOfFinite
    <3>2. R \subseteq SUBSET (S \ T) OBVIOUS
    <3>3. QED BY <3>1, <3>2
  <2> HIDE DEF R
  <2>2. PICK m \in R : \A s \in R : s \subseteq m => s = m BY <1>1, <2>1, SmallestSet
  <2> USE DEF R
  <2>3. m # {}
    <3>1. T \cup {} = T OBVIOUS
    <3>2. CountOf(n, T \cup m) # CountOf(n, T) OBVIOUS
    <3> HIDE DEF R
    <3>3. QED BY <3>1, <3>2
  <2>4. PICK x \in m : TRUE BY <2>3
  <2>5. m \ {x} \notin R /\ m \ {x} \in SUBSET (S \ T) BY <2>2, <2>4
  <2>6. CountOf(n, T \cup (m \ {x})) = CountOf(n, T) BY <2>5
  <2>7. /\ T \cup m \in SUBSET Element /\ x \in T \cup m
        /\ (T \cup m) \ {x} = T \cup (m \ {x}) /\ n[x] = 0
    BY <2>4
  <2>8. CountOf(n, T \cup m) = n[x] + CountOf(n, (T \cup m) \ {x})
    BY <2>7, CountSplits
  <2>9. CountOf(n, T) \in Int
    <3>1. T \in SUBSET Element OBVIOUS
    <3>2. QED BY <3>1, CountType
  <2>10. CountOf(n, (T \cup m) \ {x}) = CountOf(n, T) BY <2>6, <2>7
  <2>11. n[x] = 0 BY <2>7
  <2>12. CountOf(n, T \cup m) # CountOf(n, T) OBVIOUS
  <2> DEFINE c == CountOf(n, T)
             d == CountOf(n, T \cup m)
  <2> HIDE DEF R, c, d
  <2>13. d = 0 + c BY <2>8, <2>10, <2>11 DEF c, d
  <2>14. c \in Int /\ d # c BY <2>9, <2>12 DEF c, d
  <2>15. QED BY <2>13, <2>14
<1>2. S \ T \notin R BY <1>1
<1>3. CountOf(n, T \cup (S \ T)) = CountOf(n, T) BY <1>2
<1>4. T \cup (S \ T) = S OBVIOUS
<1>5. QED BY <1>3, <1>4

\* No count reaches P: what P is for.
LEMMA CountBounded ==
  ASSUME NEW n \in Copies, \A x \in Element : n[x] \in -MaxCopies .. MaxCopies,
         NEW S \in SUBSET Element
  PROVE  -P < CountOf(n, S) /\ CountOf(n, S) < P
<1> DEFINE K == MaxCopies
           bound(Q) == K * Cardinality(Q)
           R == {Q \in SUBSET Element :
                   ~(-bound(Q) <= CountOf(n, Q) /\ CountOf(n, Q) <= bound(Q))}
<1>0. IsFiniteSet(Element) /\ K \in Nat /\ K * Cardinality(Element) < P /\ P \in Nat
  BY SketchAssumption, Facts
<1>1. ASSUME R # {} PROVE FALSE
  <2>1. R \in SUBSET FiniteSubsetsOf(Element)
    <3>1. FiniteSubsetsOf(Element) = SUBSET Element BY <1>0, FS_FiniteSubsetsOfFinite
    <3>2. R \subseteq SUBSET Element OBVIOUS
    <3>3. QED BY <3>1, <3>2
  <2> HIDE DEF R
  <2>2. PICK m \in R : \A s \in R : s \subseteq m => s = m BY <1>1, <2>1, SmallestSet
  <2> USE DEF R
  <2>3. m \in SUBSET Element /\ IsFiniteSet(m) BY <1>0, FS_Subset
  <2>4. CASE m = {}
    <3>1. CountOf(n, m) = 0 BY <2>3, <2>4, CountOfZeros
    <3>2. Cardinality(m) = 0 BY <2>4, FS_EmptySet
    <3>3. K * 0 = 0 BY <1>0
    <3>4. QED BY <3>1, <3>2, <3>3
  <2>5. CASE m # {}
    <3>1. PICK x \in m : TRUE BY <2>5
    <3> DEFINE r == m \ {x}
               c == Cardinality(r)
               a == CountOf(n, r)
    <3>2. r \in SUBSET Element /\ r \notin R BY <2>2, <2>3, <3>1
    <3>3. -(K * c) <= a /\ a <= K * c BY <3>2
    <3>4. /\ Cardinality(m) = c + 1 /\ c \in Nat
      <4>1. c = Cardinality(m) - 1 /\ Cardinality(m) \in Nat /\ IsFiniteSet(r)
        BY <2>3, <3>1, FS_RemoveElement, FS_CardinalityType
      <4>2. c \in Nat BY <4>1, FS_CardinalityType
      <4>3. QED BY <4>1, <4>2
    <3>5. CountOf(n, m) = n[x] + a BY <2>3, <3>1, CountSplits
    <3>6. a \in Int BY <3>2, CountType
    <3>7. n[x] \in Int /\ -K <= n[x] /\ n[x] <= K BY <1>0, <2>3, <3>1
    <3> HIDE DEF c, a, r
    <3>8. K * (c + 1) = K * c + K /\ K * c \in Int BY <1>0, <3>4
    <3>9. -(K * (c + 1)) <= n[x] + a /\ n[x] + a <= K * (c + 1)
      BY <1>0, <3>3, <3>6, <3>7, <3>8
    <3>10. -bound(m) <= CountOf(n, m) /\ CountOf(n, m) <= bound(m)
      BY <3>4, <3>5, <3>9
    <3>11. QED BY <3>10
  <2>6. QED BY <2>4, <2>5
<1>2. S \notin R BY <1>1
<1>3. -bound(S) <= CountOf(n, S) /\ CountOf(n, S) <= bound(S) BY <1>2
<1>4. bound(S) <= K * Cardinality(Element) /\ bound(S) \in Nat
  <2> DEFINE c == Cardinality(S)
             d == Cardinality(Element)
  <2>1. c \in Nat /\ d \in Nat /\ c <= d BY <1>0, FS_Subset, FS_CardinalityType
  <2> HIDE DEF c, d
  <2>2. d - c \in Nat BY <2>1
  <2>3. K * (d - c) >= 0 BY <1>0, <2>2
  <2>4. K * (d - c) = K * d - K * c /\ K * d \in Int /\ K * c \in Nat BY <1>0, <2>1
  <2>5. K * c <= K * d BY <2>3, <2>4
  <2>6. QED BY <2>4, <2>5 DEF c, d
<1>5. K * Cardinality(Element) \in Int
  <2>1. Cardinality(Element) \in Nat BY <1>0, FS_CardinalityType
  <2>2. QED BY <1>0, <2>1
<1>6. CountOf(n, S) \in Int BY CountType
<1> HIDE DEF bound
<1>7. QED BY <1>0, <1>3, <1>4, <1>5, <1>6

\* Nor does a number of copies; one is 0 if its residue is.
LEMMA CopiesBounded ==
  ASSUME NEW n \in Copies, \A x \in Element : n[x] \in -MaxCopies .. MaxCopies,
         NEW x \in Element
  PROVE  /\ n[x] \in Int /\ -P < n[x] /\ n[x] < P
         /\ n[x] % P = 0 => n[x] = 0
         /\ CountToField(n[x]) = n[x] % P
<1>1. {x} \in SUBSET Element /\ \A y \in {x} : y # x => n[y] = 0 OBVIOUS
<1>2. CountOf(n, {x}) = n[x] BY <1>1, CountOfOne
<1>3. n[x] \in Int BY DEF Copies
<1>4. -P < n[x] /\ n[x] < P BY <1>1, <1>2, CountBounded
<1> DEFINE a == n[x]
<1>5. a \in Int /\ -P < a /\ a < P /\ P \in Nat BY <1>3, <1>4, Facts
<1> HIDE DEF a
<1>6. CASE a >= 0
  <2>1. a % P = a BY <1>5, <1>6
  <2>2. QED BY <1>3, <1>4, <1>6, <2>1 DEF CountToField, a
<1>7. CASE a < 0
  <2>1. (-a) % P = -a BY <1>5, <1>7
  <2>2. a % P = P + a BY <1>5, <1>7
  <2>3. CountToField(a) = P - ((-a) % P) BY <1>5, <1>7 DEF CountToField
  <2>4. CountToField(a) = a % P BY <1>5, <2>1, <2>2, <2>3
  <2>5. a % P # 0 BY <1>5, <2>2
  <2>6. QED BY <1>3, <1>4, <2>4, <2>5 DEF a
<1>8. QED BY <1>5, <1>6, <1>7

-----------------------------------------------------------------------------
(* Cells                                                                    *)

\* The elements that are mapped to cell j.
Here(j) == {e \in Element : j \in mapping[e]}

\* What cell j holds of the copies n.
Holds(n, j) ==
  [sum |-> [e \in Element |-> IF j \in mapping[e] THEN n[e] % P ELSE 0],
   count |-> CountOf(n, Here(j))]

\* A sketch that holds the copies n.
Sketches(n, sketch) == \A j \in DOMAIN sketch : sketch[j] = Holds(n, j)

LEMMA HoldsType ==
  ASSUME NEW n \in Copies, NEW j
  PROVE  /\ Holds(n, j) \in Cell
         /\ Holds(n, j).count = CountOf(n, Here(j))
         /\ Holds(n, j).count \in Int
         /\ \A e \in Element : Holds(n, j).sum[e] \in Residue
         /\ \A e \in Element :
              Holds(n, j).sum[e] = IF j \in mapping[e] THEN n[e] % P ELSE 0
<1>1. Here(j) \in SUBSET Element BY DEF Here
<1>2. CountOf(n, Here(j)) \in Int BY <1>1, CountType
<1>3. \A e \in Element : n[e] % P \in Residue /\ 0 \in Residue
  BY ModWitness, FmulLaws DEF Copies
<1> DEFINE s == [e \in Element |-> IF j \in mapping[e] THEN n[e] % P ELSE 0]
<1>4. s \in [Element -> Residue]
      /\ \A e \in Element : s[e] = IF j \in mapping[e] THEN n[e] % P ELSE 0
  BY <1>3
<1>5. Holds(n, j) = [sum |-> s, count |-> CountOf(n, Here(j))] BY DEF Holds
<1> HIDE DEF s
<1>6. QED BY <1>2, <1>4, <1>5 DEF Cell

\* A cell is what it holds.
LEMMA HoldsIf ==
  ASSUME NEW n \in Copies, NEW j, NEW s \in [Element -> Residue], NEW c,
         \A e \in Element : s[e] = IF j \in mapping[e] THEN n[e] % P ELSE 0,
         c = CountOf(n, Here(j))
  PROVE  [sum |-> s, count |-> c] = Holds(n, j)
<1>1. s = [e \in Element |-> s[e]] OBVIOUS
<1>2. s = [e \in Element |-> IF j \in mapping[e] THEN n[e] % P ELSE 0] BY <1>1
<1>3. QED BY <1>2 DEF Holds

\* One copy more is one more in each cell of the element.
LEMMA EncodedHolds ==
  ASSUME NEW n \in Copies, NEW k \in Copies, NEW x \in Element, NEW d \in {1, -1},
         OneMore(n, k, x, d), NEW sketch, Sketches(n, sketch)
  PROVE  /\ Sketches(k, Encoded(sketch, x, d))
         /\ DOMAIN Encoded(sketch, x, d) = DOMAIN sketch
<1> DEFINE new == Encoded(sketch, x, d)
<1>1. DOMAIN new = DOMAIN sketch BY DEF Encoded
<1>2. ASSUME NEW j \in DOMAIN sketch PROVE new[j] = Holds(k, j)
  <2> DEFINE h == Holds(n, j)
  <2>1. /\ sketch[j] = h
        /\ Here(j) \in SUBSET Element
        /\ x \in Here(j) <=> j \in mapping[x]
    BY <1>2 DEF Sketches, Here
  <2>2. /\ h.sum \in [Element -> Residue] /\ h.count = CountOf(n, Here(j))
        /\ h = [sum |-> h.sum, count |-> h.count]
        /\ \A e \in Element : h.sum[e] = IF j \in mapping[e] THEN n[e] % P ELSE 0
    <3>1. h \in Cell BY HoldsType
    <3>2. h = [sum |-> h.sum, count |-> h.count] /\ h.sum \in [Element -> Residue]
      BY <3>1 DEF Cell
    <3>3. QED BY <3>2, HoldsType
  <2>3. CountOf(k, Here(j)) =
          IF x \in Here(j) THEN CountOf(n, Here(j)) + d ELSE CountOf(n, Here(j))
    BY <2>1, CountOfOneMore
  <2>4. CountOf(n, Here(j)) \in Int BY <2>1, CountType
  <2>5. \A e \in Element : e # x => k[e] = n[e] BY DEF OneMore
  <2>6. k[x] = n[x] + d /\ n[x] \in Int BY DEF OneMore, Copies
  <2> HIDE DEF h, new
  <2>7. CASE j \notin mapping[x]
    <3>1. new[j] = h BY <1>2, <2>1, <2>7 DEF Encoded, new
    <3>2. \A e \in Element : h.sum[e] = IF j \in mapping[e] THEN k[e] % P ELSE 0
      BY <2>2, <2>5, <2>7
    <3>3. h.count = CountOf(k, Here(j)) BY <2>1, <2>2, <2>3, <2>7
    <3>4. h = Holds(k, j) BY <2>2, <3>2, <3>3, HoldsIf
    <3>5. QED BY <3>1, <3>4
  <2>8. CASE j \in mapping[x]
    <3> DEFINE v == IF d > 0 THEN Fadd(h.sum[x], 1) ELSE Fsub(h.sum[x], 1)
               s == [h.sum EXCEPT ![x] = v]
               c == IF d > 0 THEN h.count + 1 ELSE h.count - 1
    <3>1. h.sum[x] = n[x] % P /\ h.sum[x] \in Residue /\ 1 \in Residue
      BY <2>2, <2>8, FmulLaws
    <3>2. v \in Residue /\ v = k[x] % P
      <4>1. CASE d = 1
        <5>1. v = Fadd(h.sum[x], 1) BY <4>1
        <5>2. Fadd(h.sum[x], 1) \in Residue
              /\ Fadd(h.sum[x], 1) = ((n[x] % P) + 1) % P
          BY <3>1, FaddExact
        <5>3. ((n[x] % P) + 1) % P = (n[x] + 1) % P BY <2>6, ModOne
        <5>4. QED BY <2>6, <4>1, <5>1, <5>2, <5>3
      <4>2. CASE d = -1
        <5>1. v = Fsub(h.sum[x], 1) BY <4>2
        <5>2. Fsub(h.sum[x], 1) \in Residue
              /\ Fsub(h.sum[x], 1) = ((n[x] % P) - 1) % P
          BY <3>1, FsubExact
        <5>3. ((n[x] % P) - 1) % P = (n[x] - 1) % P BY <2>6, ModOne
        <5>4. n[x] - 1 = n[x] + d BY <2>6, <4>2
        <5>5. QED BY <2>6, <5>1, <5>2, <5>3, <5>4
      <4>3. QED BY <4>1, <4>2
    <3>3. new[j] = [sum |-> s, count |-> c]
      BY <1>2, <2>1, <2>8 DEF Encoded, new
    <3> HIDE DEF v, c
    <3>4. s \in [Element -> Residue] BY <2>2, <3>2
    <3>5. \A e \in Element : s[e] = IF e = x THEN v ELSE h.sum[e]
      BY <2>2
    <3> HIDE DEF s
    <3>6. \A e \in Element : s[e] = IF j \in mapping[e] THEN k[e] % P ELSE 0
      BY <2>2, <2>5, <2>8, <3>2, <3>5
    <3>7. c = CountOf(k, Here(j)) BY <2>1, <2>2, <2>3, <2>4, <2>8 DEF c
    <3>8. [sum |-> s, count |-> c] = Holds(k, j) BY <3>4, <3>6, <3>7, HoldsIf
    <3>9. QED BY <3>3, <3>8
  <2>9. QED BY <2>7, <2>8
<1>3. QED BY <1>1, <1>2 DEF Sketches

\* An empty sketch holds nothing.
NoCopies == [e \in Element |-> 0]

LEMMA NewHolds ==
  ASSUME NEW size
  PROVE  Sketches(NoCopies, NewSketch(size)) /\ DOMAIN NewSketch(size) = 1 .. size
<1>1. DOMAIN NewSketch(size) = 1 .. size BY DEF NewSketch
<1>2. NoCopies \in Copies /\ \A e \in Element : NoCopies[e] = 0
  BY DEF NoCopies, Copies
<1>3. ASSUME NEW j \in 1 .. size PROVE NewSketch(size)[j] = Holds(NoCopies, j)
  <2>1. NewSketch(size)[j] = [sum |-> NoCopies, count |-> 0]
    BY DEF NewSketch, EmptyCell, NoCopies
  <2>2. Here(j) \in SUBSET Element /\ \A x \in Here(j) : NoCopies[x] = 0
    BY <1>2 DEF Here
  <2>3. CountOf(NoCopies, Here(j)) = 0 BY <1>2, <2>2, CountOfZeros
  <2>4. NoCopies \in [Element -> Residue] BY FmulLaws DEF NoCopies
  <2>5. 0 % P = 0 BY ModResidue, FmulLaws
  <2>6. \A e \in Element :
          NoCopies[e] = IF j \in mapping[e] THEN NoCopies[e] % P ELSE 0
    BY <1>2, <2>5
  <2> DEFINE z == NoCopies
  <2>7. z \in Copies BY <1>2
  <2> HIDE DEF z
  <2>8. [sum |-> z, count |-> 0] = Holds(z, j)
    BY <2>3, <2>4, <2>6, <2>7, HoldsIf DEF z
  <2>9. QED BY <2>1, <2>8 DEF z
<1>4. QED BY <1>1, <1>3 DEF Sketches

\* What cells hold of two sketches adds up.
LEMMA HoldsTogether ==
  ASSUME NEW n \in Copies, NEW k \in Copies, NEW h \in Copies, Together(n, k, h),
         NEW j
  PROVE  /\ Holds(h, j).count = Holds(n, j).count + Holds(k, j).count
         /\ \A e \in Element : Holds(h, j).sum[e] =
              Fadd(Holds(n, j).sum[e], Holds(k, j).sum[e])
         /\ \A e \in Element : Holds(k, j).sum[e] =
              Fsub(Holds(h, j).sum[e], Holds(n, j).sum[e])
<1>1. Here(j) \in SUBSET Element BY DEF Here
<1>2. CountOf(h, Here(j)) = CountOf(n, Here(j)) + CountOf(k, Here(j))
  BY <1>1, CountAdds
<1>3. /\ Holds(h, j).count = CountOf(h, Here(j))
      /\ Holds(n, j).count = CountOf(n, Here(j))
      /\ Holds(k, j).count = CountOf(k, Here(j))
  BY HoldsType
<1>4. ASSUME NEW e \in Element
      PROVE  /\ Holds(h, j).sum[e] = Fadd(Holds(n, j).sum[e], Holds(k, j).sum[e])
             /\ Holds(k, j).sum[e] = Fsub(Holds(h, j).sum[e], Holds(n, j).sum[e])
  <2> DEFINE a == n[e]
             b == k[e]
             c == h[e]
             H(x) == IF j \in mapping[e] THEN x % P ELSE 0
  <2>1. a \in Int /\ b \in Int /\ c = a + b BY DEF Copies, Together
  <2>2. Holds(h, j).sum[e] = H(c) /\ Holds(n, j).sum[e] = H(a)
        /\ Holds(k, j).sum[e] = H(b)
    BY HoldsType
  <2> HIDE DEF a, b, c
  <2>3. /\ a % P \in Residue /\ b % P \in Residue /\ c % P \in Residue
        /\ 0 \in Residue
    <3>1. c \in Int BY <2>1
    <3>2. a % P \in Residue BY <2>1, ModWitness
    <3>3. b % P \in Residue BY <2>1, ModWitness
    <3>4. c % P \in Residue BY <3>1, ModWitness
    <3>5. QED BY <3>2, <3>3, <3>4, FmulLaws
  <2>4. (a + b) % P = Fadd(a % P, b % P)
    <3>1. Fadd(a % P, b % P) = ((a % P) + (b % P)) % P BY <2>3, FaddExact
    <3>2. QED BY <2>1, <3>1, ModAdd
  <2>5. b % P = Fsub(c % P, a % P)
    <3>1. Fsub(c % P, a % P) = ((c % P) - (a % P)) % P BY <2>3, FsubExact
    <3>2. ((c % P) - (a % P)) % P = (c - a) % P
      <4>1. c \in Int BY <2>1
      <4>2. QED BY <2>1, <4>1, ModSub
    <3>3. c - a = b BY <2>1
    <3>4. QED BY <3>1, <3>2, <3>3
  <2>6. Fadd(0, 0) = 0 /\ Fsub(0, 0) = 0
    <3>1. Fadd(0, 0) = (0 + 0) % P /\ Fsub(0, 0) = (0 - 0) % P
      BY <2>3, FaddExact, FsubExact
    <3>2. 0 % P = 0 BY <2>3, ModResidue
    <3>3. QED BY <3>1, <3>2
  <2>7. H(c) = Fadd(H(a), H(b)) /\ H(b) = Fsub(H(c), H(a))
    BY <2>1, <2>4, <2>5, <2>6
  <2>8. QED BY <2>2, <2>7
<1>5. QED BY <1>2, <1>3, <1>4

\* The copies of the elements of S.
Mask(n, S) == [e \in Element |-> IF e \in S THEN n[e] ELSE 0]

LEMMA MaskType ==
  ASSUME NEW n \in Copies, NEW S
  PROVE  /\ Mask(n, S) \in Copies
         /\ \A e \in Element : Mask(n, S)[e] = IF e \in S THEN n[e] ELSE 0
BY DEF Mask, Copies

\* The sketches that build_sketch comes through, one for each set of elements.
Stages(copies, size, N, g) ==
  g = [s \in SUBSET N |->
         IF s = {} THEN NewSketch(size)
         ELSE Encoded(g[s \ {First(s)}], First(s), copies[First(s)])]

\* What it builds holds what went into it.
LEMMA BuildHolds ==
  ASSUME NEW copies \in [Element -> {-1, 0, 1}], NEW size
  PROVE  /\ Sketches(copies, BuildSketch(copies, size))
         /\ DOMAIN BuildSketch(copies, size) = 1 .. size
<1> DEFINE N == {e \in Element : copies[e] # 0}
           M(s) == Mask(copies, s)
<1>0. /\ IsFiniteSet(N) /\ N \in SUBSET Element /\ copies \in Copies
      /\ \A x \in N : copies[x] \in {1, -1}
  BY SketchAssumption, FS_Subset DEF Copies
<1>1. M({}) = NoCopies /\ M(N) = copies
  BY <1>0 DEF Mask, NoCopies, Copies
<1>2. ASSUME NEW s \in SUBSET N, s # {}, NEW sketch, Sketches(M(s \ {First(s)}), sketch)
      PROVE  /\ Sketches(M(s), Encoded(sketch, First(s), copies[First(s)]))
             /\ DOMAIN Encoded(sketch, First(s), copies[First(s)]) = DOMAIN sketch
  <2> DEFINE x == First(s)
             r == s \ {x}
  <2>1. x \in s /\ x \in N BY <1>2 DEF First
  <2> HIDE DEF x
  <2>2. M(r) \in Copies /\ M(s) \in Copies BY <1>0, MaskType
  <2>3. OneMore(M(r), M(s), x, copies[x])
    <3>1. \A e \in Element : M(s)[e] = IF e \in s THEN copies[e] ELSE 0
      BY <1>0, MaskType
    <3>2. \A e \in Element : M(r)[e] = IF e \in r THEN copies[e] ELSE 0
      BY <1>0, MaskType
    <3>3. \A e \in Element : copies[e] \in Int BY <1>0 DEF Copies
    <3> HIDE DEF M, N
    <3>4. ASSUME NEW e \in Element
          PROVE  M(s)[e] = IF e = x THEN M(r)[e] + copies[x] ELSE M(r)[e]
      <4>1. CASE e = x
        <5>1. M(s)[e] = copies[x] /\ M(r)[e] = 0 /\ copies[x] \in Int
          BY <2>1, <3>1, <3>2, <3>3, <4>1
        <5>2. QED BY <4>1, <5>1
      <4>2. CASE e # x
        <5>1. e \in s <=> e \in r BY <4>2
        <5> HIDE DEF r
        <5>2. QED BY <3>1, <3>2, <4>2, <5>1
      <4>3. QED BY <4>1, <4>2
    <3>5. QED BY <3>4 DEF OneMore
  <2>4. x \in Element /\ copies[x] \in {1, -1} BY <1>0, <2>1
  <2>5. Sketches(M(r), sketch) BY <1>2 DEF x
  <2> HIDE DEF M, r
  <2>6. /\ Sketches(M(s), Encoded(sketch, x, copies[x]))
        /\ DOMAIN Encoded(sketch, x, copies[x]) = DOMAIN sketch
    BY <2>2, <2>3, <2>4, <2>5, EncodedHolds
  <2>7. QED BY <2>6 DEF x, M
<1>3. \E g : Stages(copies, size, N, g)
  <2> DEFINE ideal(s) == [j \in 1 .. size |-> Holds(M(s), j)]
             g == [s \in SUBSET N |-> ideal(s)]
             next(s) == IF s = {} THEN NewSketch(size)
                        ELSE Encoded(g[s \ {First(s)}], First(s), copies[First(s)])
  <2>1. ASSUME NEW s \in SUBSET N PROVE g[s] = next(s)
    <3>1. CASE s = {}
      <4>1. Sketches(NoCopies, NewSketch(size)) /\ DOMAIN NewSketch(size) = 1 .. size
        BY NewHolds
      <4>2. \A j \in 1 .. size : NewSketch(size)[j] = Holds(NoCopies, j)
        BY <4>1 DEF Sketches
      <4>3. NewSketch(size) = [j \in 1 .. size |-> NewSketch(size)[j]]
        BY DEF NewSketch
      <4>4. NewSketch(size) = [j \in 1 .. size |-> Holds(NoCopies, j)]
        BY <4>2, <4>3
      <4>5. QED BY <1>1, <3>1, <4>4
    <3>2. CASE s # {}
      <4> DEFINE r == s \ {First(s)}
                 new == Encoded(ideal(r), First(s), copies[First(s)])
      <4>1. Sketches(M(r), ideal(r)) /\ DOMAIN ideal(r) = 1 .. size BY DEF Sketches
      <4>2. Sketches(M(s), new) /\ DOMAIN new = 1 .. size
        <5> DEFINE w == ideal(r)
        <5>1. Sketches(M(r), w) /\ DOMAIN w = 1 .. size BY <4>1
        <5> HIDE DEF w, M
        <5>2. /\ Sketches(M(s), Encoded(w, First(s), copies[First(s)]))
              /\ DOMAIN Encoded(w, First(s), copies[First(s)]) = DOMAIN w
          BY <1>2, <3>2, <5>1
        <5>3. QED BY <5>1, <5>2 DEF w
      <4>3. \A j \in 1 .. size : new[j] = Holds(M(s), j) BY <4>2 DEF Sketches
      <4>4. new = [j \in 1 .. size |-> new[j]]
        <5>1. new = [j \in DOMAIN ideal(r) |-> new[j]] BY DEF Encoded
        <5> HIDE DEF new, ideal
        <5>2. QED BY <4>1, <5>1
      <4>5. new = ideal(s)
        <5> HIDE DEF new, M
        <5>1. QED BY <4>3, <4>4
      <4>6. r \in SUBSET N OBVIOUS
      <4>7. g[s] = ideal(s) /\ g[r] = ideal(r) BY <4>6
      <4> HIDE DEF ideal, g
      <4>8. QED BY <3>2, <4>5, <4>7
    <3>3. QED BY <3>1, <3>2
  <2>2. g = [s \in SUBSET N |-> g[s]] OBVIOUS
  <2> HIDE DEF g
  <2>3. Stages(copies, size, N, g) BY <2>1, <2>2 DEF Stages
  <2>4. QED BY <2>3
<1> DEFINE G == CHOOSE g : Stages(copies, size, N, g)
<1>4. BuildSketch(copies, size) = G[N]
  BY DEF BuildSketch, FoldSet, MapThenFoldSet, Stages, First
<1>5. Stages(copies, size, N, G) BY <1>3
<1> HIDE DEF G
<1> DEFINE good(s) == Sketches(M(s), G[s]) /\ DOMAIN G[s] = 1 .. size
           T == {s \in SUBSET N : ~good(s)}
<1>6. ASSUME T # {} PROVE FALSE
  <2>1. T \in SUBSET FiniteSubsetsOf(N)
    <3>1. FiniteSubsetsOf(N) = SUBSET N BY <1>0, FS_FiniteSubsetsOfFinite
    <3>2. T \subseteq SUBSET N OBVIOUS
    <3>3. QED BY <3>1, <3>2
  <2> HIDE DEF T, N
  <2>2. PICK m \in T : \A s \in T : s \subseteq m => s = m BY <1>6, <2>1, SmallestSet
  <2> USE DEF T, N
  <2>3. m \in SUBSET N /\ ~good(m) BY <2>2
  <2>4. G[m] = IF m = {} THEN NewSketch(size)
               ELSE Encoded(G[m \ {First(m)}], First(m), copies[First(m)])
    <3> HIDE DEF N, T
    <3>1. QED BY <1>5, <2>3 DEF Stages
  <2>5. CASE m = {}
    <3>1. G[m] = NewSketch(size) BY <2>4, <2>5
    <3>2. M(m) = NoCopies BY <1>1, <2>5
    <3> HIDE DEF M
    <3>3. good(m) BY <3>1, <3>2, NewHolds
    <3>4. QED BY <2>3, <3>3
  <2>6. CASE m # {}
    <3> DEFINE r == m \ {First(m)}
               new == Encoded(G[r], First(m), copies[First(m)])
    <3>1. First(m) \in m BY <2>6 DEF First
    <3>2. r \in SUBSET N /\ r \notin T BY <2>2, <2>3, <3>1
    <3>3. good(r) BY <3>2
    <3>4. Sketches(M(m), new) /\ DOMAIN new = DOMAIN G[r]
      <4> HIDE DEF N, M, T
      <4>1. QED BY <1>2, <2>3, <2>6, <3>3
    <3>5. G[m] = new BY <2>4, <2>6
    <3>6. good(m) BY <3>3, <3>4, <3>5
    <3>7. QED BY <2>3, <3>6
  <2>7. QED BY <2>5, <2>6
<1>7. good(N)
  <2>1. N \notin T BY <1>6
  <2>2. QED BY <2>1
<1>8. QED
  <2> HIDE DEF N, M
  <2>1. QED BY <1>1, <1>4, <1>7

-----------------------------------------------------------------------------
(* Pure cells                                                               *)

\* The numbers of copies are within the model's bound, and so below P.
Bounded(n) == n \in Copies /\ \A x \in Element : n[x] \in -MaxCopies .. MaxCopies

\* No residue but 0 stands for a count that is not 0.
LEMMA CountResidue ==
  ASSUME NEW c \in Int, -P < c, c < P, c # 0
  PROVE  CountToField(c) \in Residue /\ CountToField(c) # 0
<1>0. P \in Nat /\ P > 1 BY Facts
<1>1. CASE c > 0
  <2>1. c % P = c BY <1>0, <1>1
  <2>2. CountToField(c) = c BY <1>1, <2>1 DEF CountToField
  <2>3. QED BY <1>0, <1>1, <2>2 DEF Residue
<1>2. CASE c < 0
  <2>1. (-c) % P = -c BY <1>0, <1>2
  <2>2. CountToField(c) = P - (-c) BY <1>2, <2>1 DEF CountToField
  <2>3. QED BY <1>0, <1>2, <2>2 DEF Residue
<1>3. QED BY <1>1, <1>2

\* Every element but e has no copies in cell j.
AloneIn(n, e, j) ==
  /\ e \in Element /\ j \in mapping[e] /\ n[e] # 0
  /\ \A f \in Element : f # e /\ j \in mapping[f] => n[f] = 0

\* What such a cell holds.
LEMMA AloneHolds ==
  ASSUME NEW n \in Copies, NEW e, NEW j, AloneIn(n, e, j)
  PROVE  /\ Holds(n, j).count = n[e]
         /\ \A f \in Element :
              Holds(n, j).sum[f] = IF f = e THEN n[e] % P ELSE 0
<1>1. Here(j) \in SUBSET Element /\ e \in Here(j) BY DEF AloneIn, Here
<1>2. \A f \in Here(j) : f # e => n[f] = 0 BY DEF AloneIn, Here
<1>3. CountOf(n, Here(j)) = n[e] BY <1>1, <1>2, CountOfOne
<1>4. Holds(n, j).count = n[e] BY <1>3, HoldsType
<1>5. 0 % P = 0 BY ModResidue, FmulLaws
<1>6. \A f \in Element :
        Holds(n, j).sum[f] = IF j \in mapping[f] THEN n[f] % P ELSE 0
  BY HoldsType
<1>7. \A f \in Element : Holds(n, j).sum[f] = IF f = e THEN n[e] % P ELSE 0
  BY <1>5, <1>6 DEF AloneIn
<1>8. QED BY <1>4, <1>7

\* A cell that is_pure accepts holds one element, which recover_digest finds:
\* a mixture does not look pure.
LEMMA PureMeans ==
  ASSUME NEW n, Bounded(n), NEW j, IsPure(Holds(n, j))
  PROVE  AloneIn(n, RecoverDigest(Holds(n, j)), j)
<1> DEFINE c == Holds(n, j)
           e == RecoverDigest(c)
           b == CountToField(c.count)
<1>0. n \in Copies /\ \A x \in Element : n[x] \in -MaxCopies .. MaxCopies
  BY DEF Bounded
<1>1. e \in Element /\ Candidate(c) = Only(e) /\ c.count # 0
  BY DEF IsPure, RecoverDigest
<1>2. b \in Residue /\ b # 0
  <2>1. Here(j) \in SUBSET Element BY DEF Here
  <2>2. -P < c.count /\ c.count < P /\ c.count \in Int
    BY <1>0, <2>1, CountBounded, HoldsType
  <2> HIDE DEF c
  <2>3. QED BY <1>1, <2>2, CountResidue
<1>3. \A f \in Element :
        /\ c.sum[f] \in Residue
        /\ c.sum[f] = IF j \in mapping[f] THEN n[f] % P ELSE 0
  BY <1>0, HoldsType
<1> HIDE DEF c, e, b
<1>4. \A f \in Element : Fdiv(c.sum[f], b) = IF f = e THEN 1 ELSE 0
  BY <1>1 DEF Candidate, Only, b
<1>5. \A f \in Element : c.sum[f] = IF f = e THEN b ELSE 0
  <2> SUFFICES ASSUME NEW f \in Element PROVE c.sum[f] = IF f = e THEN b ELSE 0
    OBVIOUS
  <2> DEFINE s == c.sum[f]
  <2>1. s \in Residue BY <1>3
  <2>2. Fdiv(s, b) = IF f = e THEN 1 ELSE 0 BY <1>4
  <2> HIDE DEF s
  <2>3. Fmul(Fdiv(s, b), b) = s BY <1>2, <2>1, FdivExact
  <2>4. Fmul(1, b) = b /\ Fmul(0, b) = 0
    BY <1>2, FmulLaws
  <2>5. s = IF f = e THEN b ELSE 0 BY <2>2, <2>3, <2>4
  <2>6. QED BY <2>5 DEF s
<1>6. 0 % P = 0 BY ModResidue, FmulLaws
<1>7. j \in mapping[e] /\ n[e] # 0 BY <1>1, <1>2, <1>3, <1>5, <1>6
<1>8. \A f \in Element : f # e /\ j \in mapping[f] => n[f] = 0
  <2> SUFFICES ASSUME NEW f \in Element, f # e, j \in mapping[f] PROVE n[f] = 0
    OBVIOUS
  <2>1. n[f] % P = 0 BY <1>3, <1>5
  <2>2. QED BY <1>0, <2>1, CopiesBounded
<1>9. QED BY <1>1, <1>7, <1>8 DEF AloneIn, e, c

\* And a cell that holds one element is accepted.
LEMMA PureIf ==
  ASSUME NEW n, Bounded(n), NEW e, NEW j, AloneIn(n, e, j)
  PROVE  IsPure(Holds(n, j))
<1> DEFINE c == Holds(n, j)
           b == CountToField(c.count)
<1>0. n \in Copies /\ e \in Element /\ n[e] # 0
      /\ \A x \in Element : n[x] \in -MaxCopies .. MaxCopies
  BY DEF Bounded, AloneIn
<1>1. /\ c.count = n[e]
      /\ \A f \in Element : c.sum[f] = IF f = e THEN n[e] % P ELSE 0
  BY <1>0, AloneHolds
<1> HIDE DEF c
<1>2. n[e] \in Int /\ -P < n[e] /\ n[e] < P /\ b = n[e] % P
  BY <1>0, <1>1, CopiesBounded
<1> DEFINE a == n[e]
<1>3. b \in Residue /\ b # 0
  <2>1. a \in Int /\ -P < a /\ a < P /\ a # 0 BY <1>0, <1>2
  <2> HIDE DEF a
  <2>2. CountToField(a) \in Residue /\ CountToField(a) # 0 BY <2>1, CountResidue
  <2>3. QED BY <1>1, <2>2 DEF a
<1> HIDE DEF b
<1>4. Fdiv(b, b) = 1
  <2>1. Fdiv(b, b) \in Residue /\ Fmul(Fdiv(b, b), b) = b BY <1>3, FdivExact
  <2>2. 1 \in Residue /\ Fmul(1, b) = b BY <1>3, FmulLaws
  <2> DEFINE q == Fdiv(b, b)
             u == 1
  <2>3. q \in Residue /\ u \in Residue /\ Fmul(q, b) = Fmul(u, b) BY <2>1, <2>2
  <2> HIDE DEF q, u
  <2>4. q = u BY <1>3, <2>3, FmulCancels
  <2>5. QED BY <2>4 DEF q, u
<1>5. Fdiv(0, b) = 0
  <2>1. 0 \in Residue /\ Fmul(0, b) = 0 BY <1>3, FmulLaws
  <2> DEFINE z == 0
             q == Fdiv(z, b)
  <2>2. z \in Residue BY <2>1
  <2> HIDE DEF z
  <2>3. q \in Residue /\ Fmul(q, b) = z BY <1>3, <2>2, FdivExact
  <2> HIDE DEF q
  <2>4. Fmul(q, b) = Fmul(z, b) BY <2>1, <2>3 DEF z
  <2>5. q = z BY <1>3, <2>2, <2>3, <2>4, FmulCancels
  <2>6. QED BY <2>5 DEF q, z
<1>6. \A f \in Element : Fdiv(c.sum[f], b) = IF f = e THEN 1 ELSE 0
  BY <1>1, <1>2, <1>4, <1>5
<1>7. Candidate(c) = Only(e) BY <1>6 DEF Candidate, Only, b
<1>8. IsPure(c) BY <1>0, <1>1, <1>7 DEF IsPure
<1>9. QED BY <1>8 DEF c
-----------------------------------------------------------------------------
(* What the operations do to what a sketch holds                            *)

\* Content, of any numbers of copies.
ContentOf(n, j, S) ==
  LET here == {e \in S : j \in mapping[e]}
  IN  [sum |-> [e \in Element |-> IF e \in here THEN n[e] % P ELSE 0],
       count |-> SumFunction([e \in here |-> n[e]])]

LEMMA ContentHolds ==
  ASSUME NEW n \in Copies, NEW S \in SUBSET Element, NEW j
  PROVE  ContentOf(n, j, S) = Holds(Mask(n, S), j)
<1> DEFINE m == Mask(n, S)
           here == {e \in S : j \in mapping[e]}
           s == [e \in Element |-> IF e \in here THEN n[e] % P ELSE 0]
           c == SumFunction([e \in here |-> n[e]])
<1>0. m \in Copies /\ \A e \in Element : m[e] = IF e \in S THEN n[e] ELSE 0
  BY MaskType
<1> HIDE DEF m
<1>1. 0 % P = 0 /\ 0 \in Residue BY ModResidue, FmulLaws
<1>2. \A e \in Element : n[e] % P \in Residue BY ModWitness DEF Copies
<1>3. s \in [Element -> Residue] BY <1>1, <1>2
<1>4. \A e \in Element : s[e] = IF j \in mapping[e] THEN m[e] % P ELSE 0
  <2> SUFFICES ASSUME NEW e \in Element
               PROVE  s[e] = IF j \in mapping[e] THEN m[e] % P ELSE 0
    OBVIOUS
  <2>1. s[e] = IF e \in S /\ j \in mapping[e] THEN n[e] % P ELSE 0 OBVIOUS
  <2> HIDE DEF s
  <2>2. CASE e \in S BY <1>0, <2>1, <2>2
  <2>3. CASE e \notin S BY <1>0, <1>1, <2>1, <2>3
  <2>4. QED BY <2>2, <2>3
<1>5. c = CountOf(m, Here(j))
  <2>1. here \in SUBSET Element /\ here \in SUBSET Here(j)
        /\ Here(j) \in SUBSET Element
    BY DEF Here
  <2>2. \A x \in here : n[x] = m[x] BY <1>0
  <2>3. \A x \in Here(j) \ here : m[x] = 0 BY <1>0 DEF Here
  <2>4. c = CountOf(n, here) BY DEF CountOf
  <2> HIDE DEF here, c
  <2>5. CountOf(n, here) = CountOf(m, here) BY <1>0, <2>1, <2>2, CountSame
  <2>6. CountOf(m, Here(j)) = CountOf(m, here)
    BY <1>0, <2>1, <2>3, CountIgnoresZeros
  <2>7. QED BY <2>4, <2>5, <2>6
<1>6. ContentOf(n, j, S) = [sum |-> s, count |-> c] BY DEF ContentOf
<1> HIDE DEF s, c
<1>7. [sum |-> s, count |-> c] = Holds(m, j) BY <1>0, <1>3, <1>4, <1>5, HoldsIf
<1>8. QED BY <1>6, <1>7 DEF m

\* A cell is known by its sums and its count.
LEMMA SameCell ==
  ASSUME NEW n \in Copies, NEW j, NEW c,
         NEW s, s = [e \in Element |-> s[e]],
         \A e \in Element : s[e] = Holds(n, j).sum[e],
         c = Holds(n, j).count
  PROVE  [sum |-> s, count |-> c] = Holds(n, j)
<1> DEFINE h == Holds(n, j)
<1>1. h \in Cell BY HoldsType
<1> HIDE DEF h
<1>2. h = [sum |-> h.sum, count |-> h.count] /\ h.sum \in [Element -> Residue]
  BY <1>1 DEF Cell
<1>3. h.sum = [e \in Element |-> h.sum[e]] BY <1>2
<1>4. \A e \in Element : s[e] = h.sum[e] BY DEF h
<1>5. s = h.sum BY <1>3, <1>4
<1>6. c = h.count BY DEF h
<1>7. QED BY <1>2, <1>5, <1>6 DEF h

\* Adding sketches adds what they hold.
LEMMA AddedHolds ==
  ASSUME NEW n \in Copies, NEW k \in Copies, NEW h \in Copies, Together(n, k, h),
         NEW a, NEW b, Sketches(n, a), Sketches(k, b), DOMAIN a \subseteq DOMAIN b
  PROVE  Sketches(h, Added(a, b)) /\ DOMAIN Added(a, b) = DOMAIN a
<1>1. DOMAIN Added(a, b) = DOMAIN a BY DEF Added
<1>2. ASSUME NEW j \in DOMAIN a PROVE Added(a, b)[j] = Holds(h, j)
  <2> DEFINE u == Holds(n, j)
             v == Holds(k, j)
             s == [e \in Element |-> Fadd(u.sum[e], v.sum[e])]
  <2>1. a[j] = u /\ b[j] = v BY <1>2 DEF Sketches
  <2>2. Added(a, b)[j] = [sum |-> s, count |-> u.count + v.count]
    BY <1>2, <2>1 DEF Added
  <2>3. Holds(h, j).count = u.count + v.count BY HoldsTogether
  <2>4. \A e \in Element : s[e] = Holds(h, j).sum[e] BY HoldsTogether
  <2>5. s = [e \in Element |-> s[e]] OBVIOUS
  <2> HIDE DEF s, u, v
  <2>6. [sum |-> s, count |-> u.count + v.count] = Holds(h, j)
    BY <2>3, <2>4, <2>5, SameCell
  <2>7. QED BY <2>2, <2>6
<1>3. QED BY <1>1, <1>2 DEF Sketches

\* Subtracting one takes out what it holds.
LEMMA SubtractedHolds ==
  ASSUME NEW n \in Copies, NEW k \in Copies, NEW h \in Copies, Together(n, k, h),
         NEW a, NEW b, Sketches(h, a), Sketches(n, b), DOMAIN a \subseteq DOMAIN b
  PROVE  Sketches(k, Subtracted(a, b)) /\ DOMAIN Subtracted(a, b) = DOMAIN a
<1>1. DOMAIN Subtracted(a, b) = DOMAIN a BY DEF Subtracted
<1>2. ASSUME NEW j \in DOMAIN a PROVE Subtracted(a, b)[j] = Holds(k, j)
  <2> DEFINE u == Holds(h, j)
             v == Holds(n, j)
             s == [e \in Element |-> Fsub(u.sum[e], v.sum[e])]
  <2>1. a[j] = u /\ b[j] = v BY <1>2 DEF Sketches
  <2>2. Subtracted(a, b)[j] = [sum |-> s, count |-> u.count - v.count]
    BY <1>2, <2>1 DEF Subtracted
  <2>3. u.count = v.count + Holds(k, j).count /\ v.count \in Int
        /\ Holds(k, j).count \in Int
    BY HoldsTogether, HoldsType
  <2>4. \A e \in Element : s[e] = Holds(k, j).sum[e] BY HoldsTogether
  <2>5. s = [e \in Element |-> s[e]] OBVIOUS
  <2> HIDE DEF s, u, v
  <2>6. Holds(k, j).count = u.count - v.count BY <2>3
  <2>7. [sum |-> s, count |-> u.count - v.count] = Holds(k, j)
    BY <2>4, <2>5, <2>6, SameCell
  <2>8. QED BY <2>2, <2>7
<1>3. QED BY <1>1, <1>2 DEF Sketches

\* k has what n has, but nothing of e.
Dropped(n, k, e) == \A f \in Element : k[f] = IF f = e THEN 0 ELSE n[f]

\* Taking a pure cell out of all cells of its element takes out the element,
\* all of it, and nothing else.
LEMMA WithoutHolds ==
  ASSUME NEW n, Bounded(n), NEW k \in Copies, NEW e, NEW i, AloneIn(n, e, i),
         Dropped(n, k, e), NEW w, Sketches(n, w)
  PROVE  /\ Sketches(k, Without(w, e, Holds(n, i)))
         /\ DOMAIN Without(w, e, Holds(n, i)) = DOMAIN w
<1> DEFINE c == Holds(n, i)
           new == Without(w, e, c)
           one == Mask(n, {e})
<1>0. n \in Copies /\ e \in Element BY DEF Bounded, AloneIn
<1>1. DOMAIN new = DOMAIN w BY DEF Without
<1>2. one \in Copies /\ \A f \in Element : one[f] = IF f = e THEN n[f] ELSE 0
  BY <1>0, MaskType
<1>3. /\ c.count = n[e]
      /\ \A f \in Element : c.sum[f] = IF f = e THEN n[e] % P ELSE 0
  BY <1>0, AloneHolds
<1> HIDE DEF one, c
<1>4. Together(one, k, n)
  <2>1. \A f \in Element : n[f] \in Int BY <1>0 DEF Copies
  <2>2. QED BY <1>2, <2>1 DEF Together, Dropped
<1>5. ASSUME NEW j \in DOMAIN w PROVE new[j] = Holds(k, j)
  <2> DEFINE u == Holds(n, j)
             v == Holds(one, j)
             s == [f \in Element |-> Fsub(u.sum[f], c.sum[f])]
  <2>1. w[j] = u BY <1>5 DEF Sketches
  <2>2. /\ u.count = v.count + Holds(k, j).count
        /\ \A f \in Element : Holds(k, j).sum[f] = Fsub(u.sum[f], v.sum[f])
    BY <1>0, <1>2, <1>4, HoldsTogether
  <2>3. u.count \in Int /\ v.count \in Int /\ Holds(k, j).count \in Int
    BY <1>0, <1>2, HoldsType
  <2>4. \A f \in Element : v.sum[f] = IF j \in mapping[f] THEN one[f] % P ELSE 0
    BY <1>2, HoldsType
  <2>5. 0 % P = 0 BY ModResidue, FmulLaws
  <2>6. CASE j \in mapping[e]
    <3>1. AloneIn(one, e, j) BY <1>0, <1>2, <2>6 DEF AloneIn
    <3>2. v.count = one[e] BY <1>2, <3>1, AloneHolds
    <3>3. \A f \in Element : c.sum[f] = v.sum[f] BY <1>2, <1>3, <2>4, <2>5, <2>6
    <3>4. c.count = v.count BY <1>0, <1>2, <1>3, <3>2
    <3>5. new[j] = [sum |-> s, count |-> u.count - c.count]
      BY <1>5, <2>1, <2>6 DEF Without
    <3>6. s = [f \in Element |-> s[f]] OBVIOUS
    <3>7. \A f \in Element : s[f] = Holds(k, j).sum[f] BY <2>2, <3>3
    <3> HIDE DEF u, v, s
    <3>8. u.count - c.count = Holds(k, j).count BY <2>2, <2>3, <3>4
    <3>9. [sum |-> s, count |-> u.count - c.count] = Holds(k, j)
      BY <3>6, <3>7, <3>8, SameCell
    <3>10. QED BY <3>5, <3>9
  <2>7. CASE j \notin mapping[e]
    <3>1. new[j] = u BY <1>5, <2>1, <2>7 DEF Without
    <3>2. Here(j) \in SUBSET Element /\ \A x \in Here(j) : n[x] = k[x]
      BY <2>7 DEF Here, Dropped
    <3>3. CountOf(n, Here(j)) = CountOf(k, Here(j)) BY <1>0, <3>2, CountSame
    <3>4. u.count = Holds(k, j).count BY <1>0, <3>3, HoldsType
    <3>5. \A f \in Element : u.sum[f] = IF j \in mapping[f] THEN n[f] % P ELSE 0
      BY <1>0, HoldsType
    <3>6. \A f \in Element :
            Holds(k, j).sum[f] = IF j \in mapping[f] THEN k[f] % P ELSE 0
      BY HoldsType
    <3>7. \A f \in Element : j \in mapping[f] => k[f] = n[f]
      BY <2>7 DEF Dropped
    <3>8. \A f \in Element : u.sum[f] = Holds(k, j).sum[f] BY <3>5, <3>6, <3>7
    <3>9. u \in Cell BY <1>0, HoldsType
    <3> DEFINE us == u.sum
               uc == u.count
    <3>10. u = [sum |-> us, count |-> uc] /\ us = [f \in Element |-> us[f]]
      BY <3>9 DEF Cell
    <3>11. \A f \in Element : us[f] = Holds(k, j).sum[f] BY <3>8
    <3>12. uc = Holds(k, j).count BY <3>4
    <3> HIDE DEF us, uc, u
    <3>13. [sum |-> us, count |-> uc] = Holds(k, j)
      BY <3>10, <3>11, <3>12, SameCell
    <3>14. QED BY <3>1, <3>10, <3>13
  <2>8. QED BY <2>6, <2>7
<1>6. Sketches(k, new) BY <1>1, <1>5 DEF Sketches
<1>7. QED BY <1>1, <1>6 DEF c
-----------------------------------------------------------------------------
(* The inductive invariant                                                  *)

\* What has been listed is the surplus that is not left, so that an element
\* peeled off is new to the list: what is proved of SketchInv and of
\* NothingInvented is proved of both together.
IInv == SketchInv /\ NothingInvented

\* The longest sketch is one of them.
LEMMA Longest == MaxSize \in Sizes /\ \A n \in Sizes : n <= MaxSize
<1> DEFINE max(s) == \E n \in s : \A m \in s : m <= n
           T == {s \in SUBSET Sizes : s # {} /\ ~max(s)}
<1>0. Sizes \subseteq Nat /\ IsFiniteSet(Sizes) /\ Sizes # {}
  BY SketchAssumption
<1>1. ASSUME T # {} PROVE FALSE
  <2>1. T \in SUBSET FiniteSubsetsOf(Sizes)
    <3>1. FiniteSubsetsOf(Sizes) = SUBSET Sizes BY <1>0, FS_FiniteSubsetsOfFinite
    <3>2. T \subseteq SUBSET Sizes OBVIOUS
    <3>3. QED BY <3>1, <3>2
  <2> HIDE DEF T
  <2>2. PICK t \in T : \A s \in T : s \subseteq t => s = t BY <1>1, <2>1, SmallestSet
  <2> USE DEF T
  <2>3. t \in SUBSET Sizes /\ t # {} /\ ~max(t) BY <2>2
  <2>4. PICK x \in t : TRUE BY <2>3
  <2> DEFINE r == t \ {x}
  <2>5. r \in SUBSET Sizes /\ r \notin T BY <2>2, <2>3, <2>4
  <2>6. x \in Nat /\ \A m \in r : m \in Nat BY <1>0, <2>3, <2>4
  <2>7. CASE r = {}
    <3>1. \A m \in t : m <= x BY <2>4, <2>6, <2>7
    <3>2. QED BY <2>3, <2>4, <3>1
  <2>8. CASE r # {}
    <3>1. PICK y \in r : \A m \in r : m <= y BY <2>5, <2>8
    <3>2. y \in Nat /\ y \in t BY <2>6, <3>1
    <3>3. CASE x <= y
      <4>1. \A m \in t : m <= y BY <3>1, <3>3
      <4>2. QED BY <2>3, <3>2, <4>1
    <3>4. CASE ~(x <= y)
      <4>1. \A m \in r : m <= x BY <2>6, <3>1, <3>2, <3>4
      <4>2. \A m \in t : m <= x BY <2>4, <2>6, <4>1
      <4>3. QED BY <2>3, <2>4, <4>2
    <3>5. QED BY <3>3, <3>4
  <2>9. QED BY <2>7, <2>8
<1>2. max(Sizes)
  <2>1. Sizes \notin T BY <1>1
  <2>2. QED BY <1>0, <2>1
<1>3. QED BY <1>2 DEF MaxSize

\* What a sketch of len cells is.
IsSketch(n, w, len) ==
  DOMAIN w = 1 .. len /\ w = [j \in DOMAIN w |-> w[j]] /\ Sketches(n, w)

LEMMA SketchIsSeq ==
  ASSUME NEW n \in Copies, NEW w, NEW len \in Nat, IsSketch(n, w, len)
  PROVE  w \in Seq(Cell) /\ Len(w) = len
<1>1. \A j \in 1 .. len : w[j] \in Cell
  <2>1. \A j \in 1 .. len : w[j] = Holds(n, j) BY DEF IsSketch, Sketches
  <2>2. QED BY <2>1, HoldsType
<1>2. w = [j \in 1 .. len |-> w[j]] BY DEF IsSketch
<1>3. w \in [1 .. len -> Cell] BY <1>1, <1>2
<1>4. QED BY <1>3

\* A sequence of cells that tell is a sketch.
LEMMA SeqIsSketch ==
  ASSUME NEW n, NEW w \in Seq(Cell), Sketches(n, w)
  PROVE  IsSketch(n, w, Len(w))
BY DEF IsSketch

\* What is left, of any copy of the cells.
LeftOf(w) == {e \in Element : w[1].sum[e] # 0}

LEMMA LeftIs ==
  ASSUME mapping \in [Element -> Mapping], MaxSize > 0,
         NEW n, Bounded(n), NEW w, Sketches(n, w), 1 \in DOMAIN w
  PROVE  LeftOf(w) = {e \in Element : n[e] # 0}
<1>0. n \in Copies /\ \A e \in Element : n[e] \in -MaxCopies .. MaxCopies
  BY DEF Bounded
<1>1. w[1] = Holds(n, 1) BY DEF Sketches
<1>2. \A e \in Element : 1 \in mapping[e] BY DEF Mapping
<1>3. \A e \in Element : w[1].sum[e] = n[e] % P
  <2> DEFINE j == 1
  <2>1. \A e \in Element : j \in mapping[e] BY <1>2
  <2>2. w[1] = Holds(n, j) BY <1>1
  <2> HIDE DEF j
  <2>3. QED BY <1>0, <2>1, <2>2, HoldsType
<1>4. 0 % P = 0 BY ModResidue, FmulLaws
<1>5. \A e \in Element : n[e] % P = 0 => n[e] = 0 BY <1>0, CopiesBounded
<1>6. \A e \in Element : w[1].sum[e] # 0 <=> n[e] # 0 BY <1>3, <1>4, <1>5
<1>7. QED BY <1>6 DEF LeftOf

\* CellsTell, in terms of what cells hold; and the same after a step.
LEMMA CellsMean ==
  ASSUME net \in Copies
  PROVE  CellsTell <=> /\ Sketches(net, cells)
                       /\ pc # "combine" => Sketches(Mask(net, Left), work)
<1>1. \A j : Content(j, Element) = Holds(Mask(net, Element), j)
  <2>1. \A j : ContentOf(net, j, Element) = Holds(Mask(net, Element), j)
    BY ContentHolds
  <2>2. \A j : Content(j, Element) = ContentOf(net, j, Element)
    BY DEF Content, ContentOf
  <2>3. QED BY <2>1, <2>2
<1>2. Mask(net, Element) = net BY DEF Mask, Copies
<1>3. \A j : Content(j, Left) = Holds(Mask(net, Left), j)
  <2>1. Left \in SUBSET Element BY DEF Left
  <2>2. \A j : ContentOf(net, j, Left) = Holds(Mask(net, Left), j)
    BY <2>1, ContentHolds
  <2>3. \A j : Content(j, Left) = ContentOf(net, j, Left)
    BY DEF Content, ContentOf
  <2>4. QED BY <2>2, <2>3
<1>4. QED BY <1>1, <1>2, <1>3 DEF CellsTell, Sketches

LEMMA CellsMeanNext ==
  ASSUME mapping' = mapping, net' \in Copies
  PROVE  CellsTell' <=>
           /\ Sketches(net', cells')
           /\ pc' # "combine" => Sketches(Mask(net', LeftOf(work')), work')
<1> DEFINE n == net'
           L == LeftOf(work')
<1>0. n \in Copies OBVIOUS
<1>1. \A j : Content(j, Element)' = ContentOf(n, j, Element)
  BY DEF Content, ContentOf
<1>2. \A j : Content(j, Left)' = ContentOf(n, j, L)
  BY DEF Content, ContentOf, Left, LeftOf
<1>3. L \in SUBSET Element BY DEF LeftOf
<1> HIDE DEF n, L
<1>4. \A j : ContentOf(n, j, Element) = Holds(Mask(n, Element), j)
  BY <1>0, ContentHolds
<1>5. Mask(n, Element) = n BY <1>0 DEF Mask, Copies
<1>6. \A j : ContentOf(n, j, L) = Holds(Mask(n, L), j) BY <1>0, <1>3, ContentHolds
<1>7. CellsTell' <=>
        /\ \A j \in DOMAIN cells' : cells'[j] = Content(j, Element)'
        /\ pc' # "combine" => \A j \in DOMAIN work' : work'[j] = Content(j, Left)'
  BY DEF CellsTell
<1>8. CellsTell' <=>
        /\ \A j \in DOMAIN cells' : cells'[j] = Holds(n, j)
        /\ pc' # "combine" =>
             \A j \in DOMAIN work' : work'[j] = Holds(Mask(n, L), j)
  BY <1>1, <1>2, <1>4, <1>5, <1>6, <1>7
<1>9. QED BY <1>8 DEF Sketches, n, L
\* What the invariant says of the copy that is decoded.
LEMMA InDecoding ==
  ASSUME IInv, pc # "combine"
  PROVE  /\ net \in Copies
         /\ \A e \in Element : net[e] \in Int
         /\ Left \in SUBSET Element
         /\ Bounded(Mask(net, Left))
         /\ \A e \in Element : Mask(net, Left)[e] = IF e \in Left THEN net[e] ELSE 0
         /\ IsSketch(Mask(net, Left), work, Len(work))
         /\ Len(work) \in Sizes /\ Len(work) \in Nat
         /\ DOMAIN work = 1 .. Len(work)
         /\ Len(work) > 0 =>
              /\ MaxSize > 0
              /\ \A e \in Element : 1 \in mapping[e]
              /\ \A e \in Left : net[e] # 0
<1>1. /\ TypeOK /\ CellsTell /\ Progress
  BY DEF IInv, SketchInv
<1>2. net \in Copies /\ \A e \in Element : net[e] \in Int
  BY <1>1 DEF TypeOK, Copies
<1>3. Left \in SUBSET Element BY DEF Left
<1> DEFINE m == Mask(net, Left)
<1>4. m \in Copies /\ \A e \in Element : m[e] = IF e \in Left THEN net[e] ELSE 0
  BY <1>2, MaskType
<1>5. Bounded(m)
  <2>1. \A e \in Element : net[e] \in -MaxCopies .. MaxCopies
    BY <1>1 DEF Progress, InBounds
  <2>2. MaxCopies \in Nat BY SketchAssumption
  <2>3. 0 \in -MaxCopies .. MaxCopies BY <2>2
  <2>4. \A e \in Element : m[e] \in -MaxCopies .. MaxCopies BY <1>4, <2>1, <2>3
  <2>5. QED BY <1>4, <2>4 DEF Bounded
<1>6. Sketches(m, work) BY <1>1, <1>2, CellsMean
<1>7. work \in Seq(Cell) BY <1>1 DEF TypeOK
<1>8. IsSketch(m, work, Len(work)) BY <1>6, <1>7, SeqIsSketch
<1>9. /\ Len(work) \in Sizes /\ Len(work) \in Nat /\ DOMAIN work = 1 .. Len(work)
  BY <1>1, <1>7 DEF Progress
<1>10. ASSUME Len(work) > 0
       PROVE  /\ MaxSize > 0
              /\ \A e \in Element : 1 \in mapping[e]
              /\ \A e \in Left : net[e] # 0
  <2>1. MaxSize \in Nat /\ Len(work) <= MaxSize
    BY <1>9, Longest, SketchAssumption
  <2>2. MaxSize > 0 BY <1>9, <1>10, <2>1
  <2>3. mapping \in [Element -> Mapping] BY <1>1 DEF TypeOK
  <2>4. \A e \in Element : 1 \in mapping[e] BY <2>2, <2>3 DEF Mapping
  <2>5. 1 \in DOMAIN work BY <1>9, <1>10
  <2>6. LeftOf(work) = {e \in Element : m[e] # 0}
    BY <1>5, <1>6, <2>2, <2>3, <2>5, LeftIs
  <2>7. Left = LeftOf(work) BY DEF Left, LeftOf
  <2>8. \A e \in Left : net[e] # 0 BY <1>4, <2>6, <2>7
  <2>9. QED BY <2>2, <2>4, <2>8
<1>11. QED BY <1>2, <1>3, <1>4, <1>5, <1>8, <1>9, <1>10

\* To begin with there is nothing in the cells.
LEMMA InitTells == Init => IInv
<1> SUFFICES ASSUME Init PROVE IInv OBVIOUS
<1> USE DEF Init
<1>1. PICK size \in Sizes : cells = NewSketch(size) OBVIOUS
<1>2. size \in Nat BY SketchAssumption
<1>3. net = NoCopies /\ NoCopies \in Copies BY DEF NoCopies, Copies
<1>4. IsSketch(NoCopies, cells, size)
  <2>1. Sketches(NoCopies, cells) /\ DOMAIN cells = 1 .. size BY <1>1, NewHolds
  <2>2. cells = [j \in DOMAIN cells |-> cells[j]] BY <1>1 DEF NewSketch
  <2>3. QED BY <2>1, <2>2 DEF IsSketch
<1> DEFINE z == NoCopies
<1>5. cells \in Seq(Cell) /\ Len(cells) = size
  <2>1. z \in Copies /\ IsSketch(z, cells, size) BY <1>3, <1>4
  <2> HIDE DEF z
  <2>2. QED BY <1>2, <2>1, SketchIsSeq
<1>6. TypeOK
  <2>1. work \in Seq(Cell) /\ remote_only \in Seq(Element) OBVIOUS
  <2>2. answer \in [some : BOOLEAN, list : Seq(Element)] BY DEF NoAnswer
  <2>3. net \in [Element -> Int] BY <1>3 DEF Copies
  <2>4. mapping \in [Element -> Mapping] OBVIOUS
  <2>5. changed \in BOOLEAN OBVIOUS
  <2>6. at \in Nat \ {0} OBVIOUS
  <2>7. pc \in {"combine", "scan", "done"} OBVIOUS
  <2> HIDE DEF Init
  <2>8. QED BY <1>5, <2>1, <2>2, <2>3, <2>4, <2>5, <2>6, <2>7 DEF TypeOK
<1>7. CellsTell
  <2>1. net \in Copies /\ Sketches(net, cells) /\ pc = "combine"
    BY <1>3, <1>4 DEF IsSketch
  <2>2. QED BY <2>1, CellsMean
<1>8. Progress
  <2>1. MaxCopies \in Nat BY SketchAssumption
  <2>2. InBounds(net) BY <2>1 DEF InBounds
  <2>3. QED BY <1>1, <1>5, <2>2 DEF Progress
<1>9. NothingInvented BY DEF NothingInvented
<1>10. QED BY <1>6, <1>7, <1>8, <1>9 DEF IInv, SketchInv

\* Whatever is combined, the cells hold what was added less what was removed.
LEMMA CombineTells ==
  ASSUME IInv, pc = "combine", pc' = pc, mapping' = mapping, decoding' = decoding,
         net' \in Copies, InBounds(net'), IsSketch(net', cells', Len(cells))
  PROVE  IInv'
<1>1. TypeOK /\ Progress /\ cells \in Seq(Cell) /\ Len(cells) \in Nat
  BY DEF IInv, SketchInv, TypeOK
<1>2. /\ work' = work /\ remote_only' = remote_only /\ changed' = changed
      /\ at' = at /\ answer' = answer
  BY DEF decoding
<1>3. cells' \in Seq(Cell) /\ Len(cells') = Len(cells)
  <2> DEFINE n == net'
             w == cells'
             len == Len(cells)
  <2>1. n \in Copies /\ len \in Nat /\ IsSketch(n, w, len) BY <1>1
  <2> HIDE DEF n, w, len
  <2>2. w \in Seq(Cell) /\ Len(w) = len BY <2>1, SketchIsSeq
  <2>3. QED BY <2>2 DEF w, len
<1>4. TypeOK' BY <1>1, <1>2, <1>3 DEF TypeOK, Copies
<1>5. CellsTell'
  <2>1. Sketches(net', cells') BY DEF IsSketch
  <2>2. QED BY <2>1, CellsMeanNext
<1>6. Progress' BY <1>1, <1>2, <1>3 DEF Progress, InBounds
<1>7. NothingInvented'
  <2>1. remote_only' = <<>> BY <1>1, <1>2 DEF Progress
  <2>2. QED BY <2>1 DEF NothingInvented
<1>8. QED BY <1>4, <1>5, <1>6, <1>7 DEF IInv, SketchInv

\* What the invariant says of the cells that are combined.
LEMMA InCombining ==
  ASSUME IInv
  PROVE  /\ net \in Copies /\ IsSketch(net, cells, Len(cells))
         /\ \A e \in Element : net[e] \in Int
         /\ Len(cells) \in Sizes /\ Len(cells) \in Nat /\ InBounds(net)
<1>1. /\ TypeOK /\ CellsTell /\ Progress BY DEF IInv, SketchInv
<1>2. net \in Copies /\ cells \in Seq(Cell) BY <1>1 DEF TypeOK, Copies
<1>3. Sketches(net, cells) BY <1>1, <1>2, CellsMean
<1>4. IsSketch(net, cells, Len(cells)) BY <1>2, <1>3, SeqIsSketch
<1>5. QED BY <1>1, <1>2, <1>4 DEF Progress, Copies

LEMMA EncodeTells ==
  ASSUME IInv, NEW e \in Element, NEW sign \in {1, -1}, EncodeElement(e, sign)
  PROVE  IInv'
<1>0. /\ pc = "combine" /\ pc' = pc /\ mapping' = mapping /\ decoding' = decoding
      /\ cells' = Encoded(cells, e, sign) /\ InBounds(net')
      /\ net' = [net EXCEPT ![e] = @ + sign]
  BY DEF EncodeElement
<1>1. net \in Copies /\ IsSketch(net, cells, Len(cells)) /\ Sketches(net, cells)
      /\ \A f \in Element : net[f] \in Int
  BY InCombining DEF IsSketch
<1> DEFINE n == net'
<1>2. n \in Copies /\ OneMore(net, n, e, sign)
  BY <1>0, <1>1 DEF Copies, OneMore
<1> HIDE DEF n
<1>3. Sketches(n, cells') /\ DOMAIN cells' = DOMAIN cells
  BY <1>0, <1>1, <1>2, EncodedHolds
<1>4. cells' = [j \in DOMAIN cells' |-> cells'[j]] BY <1>0 DEF Encoded
<1>5. IsSketch(n, cells', Len(cells)) BY <1>1, <1>3, <1>4 DEF IsSketch
<1>6. QED BY <1>0, <1>2, <1>5, CombineTells DEF n

\* The sketch that is added or subtracted is as long as any.
LEMMA OtherSketch ==
  ASSUME IInv, NEW copies \in [Element -> {-1, 0, 1}]
  PROVE  /\ copies \in Copies
         /\ Sketches(copies, BuildSketch(copies, MaxSize))
         /\ DOMAIN cells \subseteq DOMAIN BuildSketch(copies, MaxSize)
<1>1. /\ Sketches(copies, BuildSketch(copies, MaxSize))
      /\ DOMAIN BuildSketch(copies, MaxSize) = 1 .. MaxSize
  BY BuildHolds
<1>2. Len(cells) <= MaxSize /\ MaxSize \in Nat /\ Len(cells) \in Nat
      /\ DOMAIN cells = 1 .. Len(cells)
  BY InCombining, Longest, SketchAssumption DEF IsSketch
<1>3. DOMAIN cells \subseteq 1 .. MaxSize BY <1>2
<1>4. copies \in Copies BY DEF Copies
<1>5. QED BY <1>1, <1>3, <1>4

LEMMA AddTells ==
  ASSUME IInv, NEW copies \in [Element -> {-1, 0, 1}], AddSketch(copies)
  PROVE  IInv'
<1> DEFINE b == BuildSketch(copies, MaxSize)
           n == net'
<1>0. /\ pc = "combine" /\ pc' = pc /\ mapping' = mapping /\ decoding' = decoding
      /\ cells' = Added(cells, b) /\ InBounds(net')
      /\ n = [e \in Element |-> net[e] + copies[e]]
  BY DEF AddSketch
<1>1. net \in Copies /\ IsSketch(net, cells, Len(cells)) /\ Sketches(net, cells)
      /\ \A f \in Element : net[f] \in Int
  BY InCombining DEF IsSketch
<1>2. copies \in Copies /\ Sketches(copies, b) /\ DOMAIN cells \subseteq DOMAIN b
  BY OtherSketch
<1> HIDE DEF b
<1>3. n \in Copies /\ Together(net, copies, n)
  <2>1. \A f \in Element : copies[f] \in Int BY <1>2 DEF Copies
  <2>2. QED BY <1>0, <1>1, <2>1 DEF Copies, Together
<1> HIDE DEF n
<1>4. Sketches(n, cells') /\ DOMAIN cells' = DOMAIN cells
  BY <1>0, <1>1, <1>2, <1>3, AddedHolds
<1>5. cells' = [j \in DOMAIN cells' |-> cells'[j]] BY <1>0 DEF Added
<1>6. IsSketch(n, cells', Len(cells)) BY <1>1, <1>4, <1>5 DEF IsSketch
<1>7. QED BY <1>0, <1>3, <1>6, CombineTells DEF n

LEMMA SubTells ==
  ASSUME IInv, NEW copies \in [Element -> {-1, 0, 1}], SubSketch(copies)
  PROVE  IInv'
<1> DEFINE b == BuildSketch(copies, MaxSize)
           n == net'
<1>0. /\ pc = "combine" /\ pc' = pc /\ mapping' = mapping /\ decoding' = decoding
      /\ cells' = Subtracted(cells, b) /\ InBounds(net')
      /\ n = [e \in Element |-> net[e] - copies[e]]
  BY DEF SubSketch
<1>1. net \in Copies /\ IsSketch(net, cells, Len(cells)) /\ Sketches(net, cells)
      /\ \A f \in Element : net[f] \in Int
  BY InCombining DEF IsSketch
<1>2. copies \in Copies /\ Sketches(copies, b) /\ DOMAIN cells \subseteq DOMAIN b
  BY OtherSketch
<1> HIDE DEF b
<1>3. n \in Copies /\ Together(copies, n, net)
  <2>1. \A f \in Element : copies[f] \in Int BY <1>2 DEF Copies
  <2>2. QED BY <1>0, <1>1, <2>1 DEF Copies, Together
<1> HIDE DEF n
<1>4. Sketches(n, cells') /\ DOMAIN cells' = DOMAIN cells
  BY <1>0, <1>1, <1>2, <1>3, SubtractedHolds
<1>5. cells' = [j \in DOMAIN cells' |-> cells'[j]] BY <1>0 DEF Subtracted
<1>6. IsSketch(n, cells', Len(cells)) BY <1>1, <1>4, <1>5 DEF IsSketch
<1>7. QED BY <1>0, <1>3, <1>6, CombineTells DEF n
\* try_decode starts from a copy of the cells, in which everything is left.
LEMMA TryDecodeTells == ASSUME IInv, TryDecode PROVE IInv'
<1>0. /\ pc = "combine" /\ pc' = "scan" /\ mapping' = mapping /\ cells' = cells
      /\ net' = net /\ work' = cells /\ remote_only' = <<>> /\ changed' = FALSE
      /\ at' = 1 /\ answer' = answer
  BY DEF TryDecode
<1>1. TypeOK /\ Progress BY DEF IInv, SketchInv
<1>2. /\ net \in Copies /\ Sketches(net, cells) /\ DOMAIN cells = 1 .. Len(cells)
      /\ \A e \in Element : net[e] \in Int
      /\ Len(cells) \in Sizes /\ Len(cells) \in Nat /\ InBounds(net)
  BY InCombining DEF IsSketch
<1> DEFINE L == LeftOf(cells)
<1>3. ASSUME Len(cells) > 0 PROVE L = {e \in Element : net[e] # 0}
  <2>1. MaxSize \in Nat /\ Len(cells) <= MaxSize BY <1>2, Longest, SketchAssumption
  <2>2. MaxSize > 0 /\ 1 \in DOMAIN cells BY <1>2, <1>3, <2>1
  <2>3. mapping \in [Element -> Mapping] BY <1>1 DEF TypeOK
  <2>4. Bounded(net) BY <1>2 DEF Bounded, InBounds
  <2>5. QED BY <1>2, <2>2, <2>3, <2>4, LeftIs
<1>4. Sketches(Mask(net, L), cells)
  <2>1. CASE Len(cells) = 0
    <3>1. DOMAIN cells = {} BY <1>2, <2>1
    <3>2. QED BY <3>1 DEF Sketches
  <2>2. CASE Len(cells) # 0
    <3>1. Len(cells) > 0 BY <1>2, <2>2
    <3>2. L = {e \in Element : net[e] # 0} BY <1>3, <3>1
    <3> HIDE DEF L
    <3>3. Mask(net, L) = net BY <1>2, <3>2 DEF Mask, Copies
    <3>4. QED BY <1>2, <3>3
  <2>3. QED BY <2>1, <2>2
<1>5. TypeOK'
  <2>1. remote_only' \in Seq(Element) BY <1>0
  <2>2. changed' \in BOOLEAN BY <1>0
  <2>3. at' \in Nat \ {0} BY <1>0
  <2>4. QED BY <1>0, <1>1, <2>1, <2>2, <2>3 DEF TypeOK
<1>6. CellsTell'
  <2>1. Sketches(Mask(net', LeftOf(work')), work') BY <1>0, <1>4
  <2>2. net' \in Copies /\ Sketches(net', cells') BY <1>0, <1>2
  <2>3. QED BY <1>0, <2>1, <2>2, CellsMeanNext
<1>7. Progress'
  <2>1. Left' = L BY <1>0 DEF Left, LeftOf
  <2>2. Surplus' = Surplus BY <1>0 DEF Surplus
  <2>3. Range(<<>>) = {} BY DEF Range
  <2>4. Len(cells) = 0 \/ Surplus \subseteq L
    <3>1. CASE Len(cells) = 0 BY <3>1
    <3>2. CASE Len(cells) # 0
      <4>1. Len(cells) > 0 BY <1>2, <3>2
      <4>2. L = {e \in Element : net[e] # 0} BY <1>3, <4>1
      <4>3. QED BY <1>2, <4>2 DEF Surplus
    <3>3. QED BY <3>1, <3>2
  <2>5. Range(remote_only') = IF Len(work') = 0 THEN {} ELSE Surplus' \ Left'
    BY <1>0, <2>1, <2>2, <2>3, <2>4
  <2>6. InBounds(net)' BY <1>0, <1>2 DEF InBounds
  <2>7. at' \in 1 .. Len(work') + 1 /\ \A j \in 1 .. at' - 1 : ~IsPure(work'[j])
    BY <1>0, <1>2
  <2>8. QED BY <1>0, <1>2, <2>5, <2>6, <2>7 DEF Progress
<1>8. NothingInvented'
  <2>1. DOMAIN remote_only' = {} BY <1>0
  <2>2. QED BY <2>1 DEF NothingInvented
<1>9. QED BY <1>5, <1>6, <1>7, <1>8 DEF IInv, SketchInv

\* A step that leaves cells and list as they are.
LEMMA ListTells ==
  ASSUME IInv, pc # "combine", pc' # "combine", TypeOK', Progress',
         mapping' = mapping, cells' = cells, net' = net, work' = work,
         remote_only' = remote_only
  PROVE  IInv'
<1>1. TypeOK /\ CellsTell /\ NothingInvented BY DEF IInv, SketchInv
<1>2. CellsTell'
  <2>1. net \in Copies BY <1>1 DEF TypeOK, Copies
  <2>2. /\ Sketches(net, cells) /\ Sketches(Mask(net, Left), work)
    BY <1>1, <2>1, CellsMean
  <2>3. Left = LeftOf(work) BY DEF Left, LeftOf
  <2>4. QED BY <2>1, <2>2, <2>3, CellsMeanNext
<1>3. NothingInvented' BY <1>1 DEF NothingInvented
<1>4. QED BY <1>2, <1>3 DEF IInv, SketchInv

LEMMA SkipTells == ASSUME IInv, Skip PROVE IInv'
<1>0. /\ pc = "scan" /\ pc' = pc /\ mapping' = mapping /\ cells' = cells
      /\ net' = net /\ work' = work /\ remote_only' = remote_only
      /\ changed' = changed /\ at' = at + 1 /\ answer' = answer
      /\ at \in DOMAIN work /\ ~IsPure(work[at])
  BY DEF Skip
<1>1. TypeOK /\ Progress BY DEF IInv, SketchInv
<1>2. /\ DOMAIN work = 1 .. Len(work) /\ Len(work) \in Nat /\ at \in Nat \ {0}
  BY <1>0, <1>1, InDecoding DEF TypeOK
<1>3. TypeOK' BY <1>0, <1>1, <1>2 DEF TypeOK
<1>4. Progress'
  <2>1. Left' = Left /\ Surplus' = Surplus BY <1>0 DEF Left, Surplus
  <2>2. InBounds(net)' BY <1>0, <1>1 DEF Progress, InBounds
  <2>3. at' \in 1 .. Len(work') + 1 BY <1>0, <1>2
  <2>4. changed' \/ \A j \in 1 .. at' - 1 : ~IsPure(work'[j])
    <3>1. changed \/ \A j \in 1 .. at - 1 : ~IsPure(work[j])
      BY <1>0, <1>1 DEF Progress
    <3>2. \A j \in 1 .. at' - 1 : j \in 1 .. at - 1 \/ j = at BY <1>0, <1>2
    <3>3. QED BY <1>0, <3>1, <3>2
  <2>5. QED BY <1>0, <1>1, <2>1, <2>2, <2>3, <2>4 DEF Progress
<1>5. QED BY <1>0, <1>3, <1>4, ListTells

LEMMA EndPassTells == ASSUME IInv, EndPass PROVE IInv'
<1>0. /\ pc = "scan" /\ mapping' = mapping /\ cells' = cells
      /\ net' = net /\ work' = work /\ remote_only' = remote_only
      /\ at \notin DOMAIN work
  BY DEF EndPass
<1>1. TypeOK /\ Progress BY DEF IInv, SketchInv
<1>2. /\ DOMAIN work = 1 .. Len(work) /\ Len(work) \in Nat /\ at \in Nat \ {0}
      /\ at \in 1 .. Len(work) + 1
      /\ changed \/ \A j \in 1 .. at - 1 : ~IsPure(work[j])
  BY <1>0, <1>1, InDecoding DEF TypeOK, Progress
<1>3. Left' = Left /\ Surplus' = Surplus BY <1>0 DEF Left, Surplus
<1>4. InBounds(net)' BY <1>0, <1>1 DEF Progress, InBounds
<1>5. CASE changed
  <2>1. at' = 1 /\ changed' = FALSE /\ answer' = answer /\ pc' = pc
    BY <1>5 DEF EndPass, Repeat
  <2>2. TypeOK'
    <3>1. changed' \in BOOLEAN BY <2>1
    <3>2. at' \in Nat \ {0} BY <2>1
    <3>3. QED BY <1>0, <1>1, <2>1, <3>1, <3>2 DEF TypeOK
  <2>3. at' \in 1 .. Len(work') + 1 /\ \A j \in 1 .. at' - 1 : ~IsPure(work'[j])
    BY <1>0, <1>2, <2>1
  <2>4. Progress' BY <1>0, <1>1, <1>3, <1>4, <2>1, <2>3 DEF Progress
  <2>5. QED BY <1>0, <2>1, <2>2, <2>4, ListTells
<1>6. CASE ~changed
  <2>1. /\ answer' = (IF Accepts THEN Some(remote_only) ELSE NoAnswer)
        /\ pc' = "done" /\ at' = at /\ changed' = changed
    BY <1>6 DEF EndPass, Repeat
  <2>2. answer' \in [some : BOOLEAN, list : Seq(Element)]
    <3>1. remote_only \in Seq(Element) /\ <<>> \in Seq(Element) BY <1>1 DEF TypeOK
    <3>2. Some(remote_only) \in [some : BOOLEAN, list : Seq(Element)]
          /\ NoAnswer \in [some : BOOLEAN, list : Seq(Element)]
      BY <3>1 DEF Some, NoAnswer
    <3>3. QED BY <2>1, <3>2
  <2>3. TypeOK' BY <1>0, <1>1, <2>1, <2>2 DEF TypeOK
  <2>4. \A j \in DOMAIN work : ~IsPure(work[j]) BY <1>0, <1>2, <1>6
  <2>5. Accepts' = Accepts BY <1>0 DEF Accepts
  <2>6. Progress' BY <1>0, <1>1, <1>3, <1>4, <2>1, <2>4, <2>5 DEF Progress
  <2>7. QED BY <1>0, <2>1, <2>3, <2>6, ListTells
<1>7. QED BY <1>5, <1>6
\* Peeling takes one element out of what is left, and lists it if it is in
\* surplus.
LEMMA PeelTells == ASSUME IInv, Peel PROVE IInv'
<1> DEFINE m == Mask(net, Left)
           c == Holds(m, at)
           e == RecoverDigest(c)
           L == Left \ {e}
           k == Mask(net, L)
           new == Without(work, e, c)
           list == IF c.count > 0 THEN Append(remote_only, e) ELSE remote_only
<1>0. /\ pc = "scan" /\ pc' = pc /\ mapping' = mapping /\ cells' = cells
      /\ net' = net /\ changed' = TRUE /\ at' = at + 1 /\ answer' = answer
      /\ at \in DOMAIN work /\ IsPure(work[at])
  BY DEF Peel
<1>1. TypeOK /\ CellsTell /\ Progress /\ NothingInvented BY DEF IInv, SketchInv
<1>2. /\ net \in Copies /\ Left \in SUBSET Element /\ Bounded(m)
      /\ \A f \in Element : net[f] \in Int
      /\ \A f \in Element : m[f] = IF f \in Left THEN net[f] ELSE 0
      /\ IsSketch(m, work, Len(work)) /\ Sketches(m, work)
      /\ Len(work) \in Nat /\ DOMAIN work = 1 .. Len(work)
  BY <1>0, InDecoding DEF IsSketch
<1>3. at \in Nat \ {0} BY <1>1 DEF TypeOK
<1>4. Len(work) > 0 /\ 1 \in DOMAIN work BY <1>0, <1>2, <1>3
<1>5. MaxSize > 0 /\ mapping \in [Element -> Mapping]
      /\ \A f \in Left : net[f] # 0
  BY <1>0, <1>1, <1>4, InDecoding DEF TypeOK
<1>6. work[at] = c BY <1>0, <1>2 DEF Sketches
<1>7. work' = new /\ remote_only' = list BY <1>6 DEF Peel
<1> HIDE DEF m
<1>8. AloneIn(m, e, at)
  <2>1. IsPure(Holds(m, at)) BY <1>0, <1>6
  <2>2. QED BY <1>2, <2>1, PureMeans
<1>9. c.count = m[e]
  <2>1. m \in Copies BY <1>2 DEF Bounded
  <2> HIDE DEF e, c
  <2>2. QED BY <1>8, <2>1, AloneHolds DEF c
<1> HIDE DEF e
<1>10. e \in Element /\ m[e] # 0 BY <1>8 DEF AloneIn
<1>11. e \in Left /\ c.count = net[e] BY <1>2, <1>9, <1>10
<1>12. k \in Copies /\ \A f \in Element : k[f] = IF f \in L THEN net[f] ELSE 0
  BY <1>2, MaskType
<1> HIDE DEF k
<1>13. Dropped(m, k, e) BY <1>2, <1>12 DEF Dropped
<1>14. Sketches(k, new) /\ DOMAIN new = DOMAIN work
  <2>1. /\ Sketches(k, Without(work, e, Holds(m, at)))
        /\ DOMAIN Without(work, e, Holds(m, at)) = DOMAIN work
    BY <1>2, <1>8, <1>12, <1>13, WithoutHolds
  <2>2. QED BY <2>1
<1>15. new = [j \in DOMAIN new |-> new[j]] BY DEF Without
<1> HIDE DEF new
<1>16. Bounded(k)
  <2>1. \A f \in Element : m[f] \in -MaxCopies .. MaxCopies BY <1>2 DEF Bounded
  <2>2. MaxCopies \in Nat BY SketchAssumption
  <2>3. 0 \in -MaxCopies .. MaxCopies BY <2>2
  <2>4. \A f \in Element : k[f] = m[f] \/ k[f] = 0 BY <1>13 DEF Dropped
  <2>5. \A f \in Element : k[f] \in -MaxCopies .. MaxCopies BY <2>1, <2>3, <2>4
  <2>6. QED BY <1>12, <2>5 DEF Bounded
<1>17. LeftOf(new) = L
  <2>1. 1 \in DOMAIN new BY <1>4, <1>14
  <2>2. LeftOf(new) = {f \in Element : k[f] # 0}
    BY <1>5, <1>14, <1>16, <2>1, LeftIs
  <2>3. \A f \in Element : k[f] # 0 <=> f \in L BY <1>2, <1>5, <1>12
  <2>4. QED BY <1>2, <2>2, <2>3
<1>18. new \in Seq(Cell) /\ Len(new) = Len(work)
  <2>1. IsSketch(k, new, Len(work)) BY <1>2, <1>14, <1>15 DEF IsSketch
  <2> DEFINE len == Len(work)
  <2>2. len \in Nat /\ IsSketch(k, new, len) BY <1>2, <2>1
  <2> HIDE DEF len
  <2>3. new \in Seq(Cell) /\ Len(new) = len BY <1>12, <2>2, SketchIsSeq
  <2>4. QED BY <2>3 DEF len
<1> HIDE DEF c
<1>19. remote_only \in Seq(Element) /\ Range(remote_only) = Surplus \ Left
  BY <1>0, <1>1, <1>4 DEF TypeOK, Progress
<1>20. /\ list \in Seq(Element) /\ Range(list) = Surplus \ L
       /\ \A i \in DOMAIN list : net[list[i]] > 0
       /\ \A i, j \in DOMAIN list : list[i] = list[j] => i = j
  <2>1. /\ \A i \in DOMAIN remote_only : net[remote_only[i]] > 0
        /\ \A i, j \in DOMAIN remote_only : remote_only[i] = remote_only[j] => i = j
    BY <1>1 DEF NothingInvented
  <2>2. CASE c.count > 0
    <3> DEFINE n == Len(remote_only)
    <3>1. net[e] > 0 /\ e \in Surplus BY <1>10, <1>11, <2>2 DEF Surplus
    <3>2. list = Append(remote_only, e) BY <2>2
    <3> HIDE DEF list
    <3>3. /\ list \in Seq(Element) /\ DOMAIN list = 1 .. n + 1
          /\ n \in Nat /\ DOMAIN remote_only = 1 .. n
          /\ list[n + 1] = e
          /\ \A i \in 1 .. n : list[i] = remote_only[i]
      BY <1>10, <1>19, <3>2
    <3>4. \A i \in 1 .. n + 1 : i \in 1 .. n \/ i = n + 1 BY <3>3
    <3>5. n + 1 \in 1 .. n + 1 /\ \A i \in 1 .. n : i \in 1 .. n + 1 BY <3>3
    <3> HIDE DEF n
    <3>6. \A i \in DOMAIN list : net[list[i]] > 0 BY <2>1, <3>1, <3>3, <3>4
    <3>7. \A i \in 1 .. n : list[i] # e
      <4>1. \A i \in 1 .. n : remote_only[i] \in Range(remote_only)
        BY <3>3 DEF Range
      <4>2. QED BY <1>11, <1>19, <3>3, <4>1
    <3>8. \A i, j \in DOMAIN list : list[i] = list[j] => i = j
      BY <2>1, <3>3, <3>4, <3>7
    <3>9. Range(list) = Range(remote_only) \cup {e}
      <4>1. Range(list) = {list[i] : i \in 1 .. n + 1} BY <3>3 DEF Range
      <4>2. Range(remote_only) = {remote_only[i] : i \in 1 .. n} BY <3>3 DEF Range
      <4>3. QED BY <3>3, <3>4, <3>5, <4>1, <4>2
    <3>10. Range(list) = Surplus \ L BY <1>11, <1>19, <3>1, <3>9
    <3>11. QED BY <3>3, <3>6, <3>8, <3>10
  <2>3. CASE ~(c.count > 0)
    <3>1. list = remote_only BY <2>3
    <3>2. e \notin Surplus BY <1>11, <2>3 DEF Surplus
    <3>3. Surplus \ L = Surplus \ Left BY <3>2
    <3> HIDE DEF list, L
    <3>4. QED BY <1>19, <2>1, <3>1, <3>3
  <2>4. QED BY <2>2, <2>3
<1> HIDE DEF list
<1>21. TypeOK'
  <2>1. changed' \in BOOLEAN BY <1>0
  <2>2. at' \in Nat \ {0} BY <1>0, <1>3
  <2>3. work' \in Seq(Cell) BY <1>7, <1>18
  <2>4. remote_only' \in Seq(Element) BY <1>7, <1>20
  <2>5. QED BY <1>0, <1>1, <2>1, <2>2, <2>3, <2>4 DEF TypeOK
<1>22. CellsTell'
  <2>1. Sketches(net, cells) BY <1>1, <1>2, CellsMean
  <2>2. Sketches(Mask(net', LeftOf(work')), work')
    BY <1>0, <1>7, <1>14, <1>17 DEF k
  <2>3. QED BY <1>0, <1>2, <2>1, <2>2, CellsMeanNext
<1>23. Progress'
  <2>1. Left' = L BY <1>7, <1>17 DEF Left, LeftOf
  <2>2. Surplus' = Surplus BY <1>0 DEF Surplus
  <2>3. InBounds(net)' BY <1>0, <1>1 DEF Progress, InBounds
  <2>4. Len(work') = Len(work) /\ Len(work') # 0 BY <1>4, <1>7, <1>18
  <2>5. Range(remote_only') = Surplus' \ Left' BY <1>7, <1>20, <2>1, <2>2
  <2>6. at' \in 1 .. Len(work') + 1 BY <1>0, <1>2, <1>3, <2>4
  <2>7. Len(work) = Len(cells) /\ Len(cells) \in Sizes BY <1>0, <1>1 DEF Progress
  <2>8. QED BY <1>0, <2>3, <2>4, <2>5, <2>6, <2>7 DEF Progress
<1>24. NothingInvented' BY <1>0, <1>7, <1>20 DEF NothingInvented
<1>25. QED BY <1>21, <1>22, <1>23, <1>24 DEF IInv, SketchInv

\* Nothing else happens.
LEMMA StutterTells == ASSUME IInv, UNCHANGED vars PROVE IInv'
<1>1. /\ mapping' = mapping /\ cells' = cells /\ net' = net /\ work' = work
      /\ remote_only' = remote_only /\ changed' = changed /\ at' = at
      /\ answer' = answer /\ pc' = pc
  BY DEF vars, decoding
<1>2. TypeOK /\ CellsTell /\ Progress /\ NothingInvented BY DEF IInv, SketchInv
<1>3. TypeOK'
  <2>1. changed' \in BOOLEAN BY <1>1, <1>2 DEF TypeOK
  <2>2. QED BY <1>1, <1>2, <2>1 DEF TypeOK
<1>4. CellsTell' BY <1>1, <1>2 DEF CellsTell, Content, Left
<1>5. Progress'
  <2>1. /\ Left' = Left /\ Surplus' = Surplus /\ Accepts' = Accepts
        /\ InBounds(net)' = InBounds(net)
    BY <1>1 DEF Left, Surplus, Accepts, InBounds
  <2>2. InBounds(net)' BY <1>2, <2>1 DEF Progress
  <2>3. QED BY <1>1, <1>2, <2>1, <2>2 DEF Progress
<1>6. NothingInvented' BY <1>1, <1>2 DEF NothingInvented
<1>7. QED BY <1>3, <1>4, <1>5, <1>6 DEF IInv, SketchInv

LEMMA NextTells == ASSUME IInv, [Next]_vars PROVE IInv'
<1>1. CASE Combine
  <2>1. CASE \E e \in Element, sign \in {1, -1} : EncodeElement(e, sign)
    BY <2>1, EncodeTells
  <2>2. CASE \E copies \in [Element -> {-1, 0, 1}] :
               AddSketch(copies) \/ SubSketch(copies)
    BY <2>2, AddTells, SubTells
  <2>3. QED BY <1>1, <2>1, <2>2 DEF Combine
<1>2. CASE TryDecode BY <1>2, TryDecodeTells
<1>3. CASE Skip BY <1>3, SkipTells
<1>4. CASE Peel BY <1>4, PeelTells
<1>5. CASE EndPass BY <1>5, EndPassTells
<1>6. CASE UNCHANGED vars BY <1>6, StutterTells
<1>7. CASE Halted BY <1>7, StutterTells DEF Halted
<1>8. QED BY <1>1, <1>2, <1>3, <1>4, <1>5, <1>6, <1>7 DEF Next, Decode

LEMMA Telling == Spec => []IInv
<1>1. Init => IInv BY InitTells
<1>2. IInv /\ [Next]_vars => IInv' BY NextTells
<1>3. QED BY <1>1, <1>2, PTL DEF Spec

-----------------------------------------------------------------------------
(* Results                                                                  *)

\* However sketches are built, added and subtracted, a cell tells exactly what
\* is mapped to it; and however they are peeled, what is listed is exactly the
\* surplus that is no longer in the cells.
THEOREM SketchTells == Spec => []SketchInv
<1>1. IInv => SketchInv BY DEF IInv
<1>2. QED BY <1>1, Telling, PTL

\* try_decode lists nothing that is not in surplus, and nothing twice,
\* although a cell may mix elements of both signs.
THEOREM NothingIsInvented == Spec => []NothingInvented
<1>1. IInv => NothingInvented BY DEF IInv
<1>2. QED BY <1>1, Telling, PTL

\* What is left, if every cell of the decoder counts nothing and all copies
\* have one sign: nothing.
LEMMA NoneLeft ==
  ASSUME IInv, pc # "combine", Len(work) > 0, Accepts,
         \A e \in Element : net[e] >= 0
  PROVE  Left = {}
<1> DEFINE m == Mask(net, Left)
           j == 1
<1>1. /\ m \in Copies /\ Left \in SUBSET Element /\ j \in DOMAIN work
      /\ \A f \in Element : m[f] = IF f \in Left THEN net[f] ELSE 0
      /\ \A f \in Element : j \in mapping[f] /\ net[f] \in Int
      /\ \A f \in Left : net[f] # 0
      /\ Sketches(m, work)
  BY InDecoding DEF Bounded, IsSketch
<1> HIDE DEF m, j
<1>2. Here(j) = Element BY <1>1 DEF Here
<1>3. CountOf(m, Here(j)) = 0
  <2>1. work[j] = Holds(m, j) /\ work[j].count = 0
    BY <1>1 DEF Sketches, Accepts
  <2>2. QED BY <1>1, <2>1, HoldsType
<1>4. ASSUME NEW e \in Left PROVE FALSE
  <2>1. \A f \in Element : m[f] >= 0 BY <1>1
  <2>2. e \in Element /\ m[e] > 0 BY <1>1
  <2>3. CountOf(m, Element) > 0
    <3> DEFINE S == Element
    <3>1. S \in SUBSET Element /\ e \in S /\ \A f \in S : m[f] >= 0 BY <2>1, <2>2
    <3> HIDE DEF S
    <3>2. CountOf(m, S) > 0 BY <1>1, <2>2, <3>1, CountPositive
    <3>3. QED BY <3>2 DEF S
  <2>4. QED BY <1>2, <1>3, <2>3
<1>5. QED BY <1>4

\* Nothing left makes the answer complete.
LEMMA CompleteIf ==
  ASSUME IInv, pc = "done", Accepts, Len(work) > 0, Left = {}
  PROVE  Complete
<1>1. Progress BY DEF IInv, SketchInv
<1>2. answer = Some(remote_only) /\ Range(remote_only) = Surplus
  BY <1>1 DEF Progress
<1>3. QED BY <1>2 DEF Complete, Some

\* With nothing removed more often than added, a decode that accepts has found
\* all: the counts, which is all that try_decode looks at, are enough.
THEOREM OneSidedDecodes == Spec => []OneSidedExact
<1>1. IInv => OneSidedExact
  <2> SUFFICES ASSUME IInv, pc = "done", answer.some, Len(cells) > 0,
                      \A e \in Element : net[e] >= 0
               PROVE  Complete
    BY DEF OneSidedExact
  <2>1. Progress BY DEF IInv, SketchInv
  <2>2. /\ Len(work) = Len(cells) /\ Len(work) > 0
        /\ answer = IF Accepts THEN Some(remote_only) ELSE NoAnswer
    BY <2>1 DEF Progress
  <2>3. Accepts BY <2>2 DEF NoAnswer
  <2>4. Left = {} BY <2>2, <2>3, NoneLeft
  <2>5. QED BY <2>2, <2>3, <2>4, CompleteIf
<1>2. QED BY <1>1, Telling, PTL

\* If every set of elements present has a cell that holds just one of them, so
\* has what is left: the passes stop with nothing left.
LEMMA PeelsAll ==
  ASSUME IInv, pc = "done", Peelable, Len(work) > 0
  PROVE  Left = {} /\ Accepts
<1> DEFINE m == Mask(net, Left)
<1>0. Progress BY DEF IInv, SketchInv
<1>1. /\ m \in Copies /\ Bounded(m) /\ Left \in SUBSET Element
      /\ \A f \in Element : m[f] = IF f \in Left THEN net[f] ELSE 0
      /\ \A f \in Left : net[f] # 0
      /\ Sketches(m, work)
      /\ DOMAIN work = 1 .. Len(work)
  BY InDecoding DEF Bounded, IsSketch
<1>2. /\ \A j \in DOMAIN work : ~IsPure(work[j])
      /\ Len(work) = Len(cells)
  BY <1>0 DEF Progress
<1>3. DOMAIN cells = DOMAIN work
  <2>1. DOMAIN cells = 1 .. Len(cells) BY InCombining DEF IsSketch
  <2>2. QED BY <1>1, <1>2, <2>1
<1> HIDE DEF m
<1>4. ASSUME Left # {} PROVE FALSE
  <2> DEFINE L == Left
             in(j) == {e \in L : j \in mapping[e]}
  <2>1. L \in (SUBSET {e \in Element : net[e] # 0}) \ {{}} BY <1>1, <1>4
  <2> HIDE DEF L
  <2>2. PICK j \in DOMAIN cells : Cardinality(in(j)) = 1 BY <2>1 DEF Peelable
  <2>3. IsFiniteSet(in(j))
    <3>1. IsFiniteSet(Element) /\ in(j) \subseteq Element
      BY <2>1, SketchAssumption
    <3> HIDE DEF in
    <3>2. QED BY <3>1, FS_Subset
  <2>4. \E e : in(j) = {e}
    <3> HIDE DEF in
    <3>1. QED BY <2>2, <2>3, FS_Singleton
  <2>5. PICK e : in(j) = {e} BY <2>4
  <2>6. e \in L /\ j \in mapping[e] /\ \A f \in L : j \in mapping[f] => f = e
    BY <2>5
  <2>7. AloneIn(m, e, j) BY <1>1, <2>6 DEF AloneIn, L
  <2>8. IsPure(Holds(m, j)) BY <1>1, <2>7, PureIf
  <2>9. work[j] = Holds(m, j) BY <1>1, <1>3, <2>2 DEF Sketches
  <2>10. QED BY <1>2, <1>3, <2>2, <2>8, <2>9
<1>5. Left = {} BY <1>4
<1>6. ASSUME NEW j \in DOMAIN work PROVE work[j].count = 0
  <2>1. Here(j) \in SUBSET Element /\ \A x \in Here(j) : m[x] = 0
    BY <1>1, <1>5 DEF Here
  <2>2. CountOf(m, Here(j)) = 0 BY <1>1, <2>1, CountOfZeros
  <2>3. work[j] = Holds(m, j) BY <1>1 DEF Sketches
  <2>4. QED BY <1>1, <2>2, <2>3, HoldsType
<1>7. QED BY <1>5, <1>6 DEF Accepts

\* Whenever some order of peeling would get at everything, the passes of
\* try_decode do, whatever is in the sketch and however often.
THEOREM PeelableDecodes == Spec => []DecodesIfPeelable
<1>1. IInv => DecodesIfPeelable
  <2> SUFFICES ASSUME IInv, pc = "done", Peelable PROVE Complete
    BY DEF DecodesIfPeelable
  <2>1. Progress BY DEF IInv, SketchInv
  <2>2. /\ Len(work) \in Nat /\ DOMAIN work = 1 .. Len(work)
        /\ \A e \in Element : net[e] \in Int
    BY InDecoding
  <2>3. CASE Len(work) > 0 BY <2>3, PeelsAll, CompleteIf
  <2>4. CASE Len(work) = 0
    <3>1. DOMAIN work = {} BY <2>2, <2>4
    <3>2. answer = Some(remote_only) BY <2>1, <3>1 DEF Progress, Accepts
    <3>3. Range(remote_only) = {} BY <2>1, <2>4 DEF Progress
    <3>4. DOMAIN cells = {}
      <4>1. DOMAIN cells = 1 .. Len(cells) /\ Len(cells) = Len(work)
        BY <2>1, InCombining DEF IsSketch, Progress
      <4>2. QED BY <2>4, <4>1
    <3>5. {e \in Element : net[e] # 0} = {}
      <4> DEFINE S == {e \in Element : net[e] # 0}
      <4>1. S # {} => \E j \in DOMAIN cells : TRUE BY DEF Peelable
      <4>2. QED BY <3>4, <4>1
    <3>6. Surplus = {} BY <2>2, <3>5 DEF Surplus
    <3>7. QED BY <3>2, <3>3, <3>6 DEF Complete, Some
  <2>5. QED BY <2>2, <2>3, <2>4
<1>2. QED BY <1>1, Telling, PTL

=============================================================================
