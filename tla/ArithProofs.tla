---------------------------- MODULE ArithProofs ----------------------------
(***************************************************************************)
(* Facts the proofs of every component cite: about the integer helpers of  *)
(* Arith, induction over numbers and finite sets, and what sums are.       *)
(***************************************************************************)
EXTENDS Arith, FiniteSetsExt, FiniteSetTheorems, WellFoundedInduction, TLAPS

\* A product of naturals is a natural, and grows with a factor.
LEMMA NatProduct ==
  ASSUME NEW a \in Nat, NEW b \in Nat
  PROVE  a * b \in Nat
  OBVIOUS

LEMMA ProductGrows ==
  ASSUME NEW a \in Nat, NEW b \in Nat, NEW c \in Nat, b <= c
  PROVE  a * b <= a * c
  <1>1. a * (c - b) \in Nat /\ a * c = a * b + a * (c - b)
    BY NatProduct
  <1> QED
    BY <1>1

LEMMA IntProductGrows ==
  ASSUME NEW a \in Nat, NEW b \in Int, NEW c \in Int, b <= c
  PROVE  /\ a * b \in Int /\ a * c \in Int
         /\ a * b <= a * c
  <1>1. a * (c - b) \in Nat /\ a * c = a * b + a * (c - b)
    BY NatProduct
  <1> QED
    BY <1>1

\* Integer division by a positive number, told by multiplication.
LEMMA NatQuotient ==
  ASSUME NEW a \in Nat, NEW d \in Nat \ {0}
  PROVE  /\ a \div d \in Nat
         /\ d * (a \div d) <= a
  OBVIOUS

\* MulDiv (arith.go:6) never returns more than the exact quotient.
LEMMA MulDivFloor ==
  ASSUME NEW a \in Nat, NEW b \in Nat, NEW d \in Nat \ {0}
  PROVE  /\ MulDiv(a, b, d) \in Nat
         /\ d * MulDiv(a, b, d) <= a * b
  <1>1. a * b \in Nat
    BY NatProduct
  <1> QED
    BY <1>1, NatQuotient DEF MulDiv

\* Go's remainder (counter.go:51) is an integer, whatever the sign.
LEMMA GoRemType ==
  ASSUME NEW a \in Int, NEW b \in Nat \ {0}
  PROVE  GoRem(a, b) \in Int
  <1>1. CASE a >= 0
    BY <1>1 DEF GoRem
  <1>2. CASE ~(a >= 0)
    <2>1. -a \in Nat
      BY <1>2
    <2>2. (-a) % b \in Nat
      BY <2>1
    <2> QED
      BY <1>2, <2>2 DEF GoRem
  <1> QED
    BY <1>1, <1>2

\* A saturating sum (arith.go:114) is a natural no larger than the sum.
LEMMA SaturatingSum ==
  ASSUME NEW a \in Nat, NEW b \in Nat
  PROVE  /\ SaturatingAddU64(a, b) \in Nat
         /\ SaturatingAddU64(a, b) <= a + b
  BY WidthAssumption DEF SaturatingAddU64, MinU64

\* A word keeps a number that fits it, unsigned and signed.
LEMMA WordFits ==
  ASSUME NEW x \in Nat, x <= MaxU64
  PROVE  U64(x) = x
  BY WidthAssumption DEF U64

LEMMA SignedWordFits ==
  ASSUME NEW x \in Nat, x <= MaxI64
  PROVE  I64(x) = x
  BY DEF I64

\* Any integer leaves a word, and any word a signed integer.
LEMMA WordType ==
  ASSUME NEW x \in Int
  PROVE  /\ U64(x) \in 0..MaxU64
         /\ I64(U64(x)) \in Int
  BY WidthAssumption DEF U64, I64, MaxI64

LEMMA MaxI64Fits == MaxI64 \in Nat /\ MaxI64 <= MaxU64
  BY WidthAssumption DEF MaxI64

\* A signed word keeps a number that fits it, and what it makes of any other
\* does; the difference of two numbers it keeps is one.
LEMMA WrappedType ==
  ASSUME NEW x \in Int
  PROVE  I64(U64(x)) \in (-MaxI64 - 1)..MaxI64
  <1>1. U64(x) \in 0..MaxU64
    BY WordType
  <1>2. MaxU64 = 2 * MaxI64 + 1 /\ MaxI64 \in Nat
    BY WidthAssumption DEF MaxI64
  <1> QED
    BY <1>1, <1>2 DEF I64

LEMMA WrappedFits ==
  ASSUME NEW x \in 0..MaxI64
  PROVE  I64(U64(x)) = x
  <1>1. x \in Nat /\ x <= MaxU64
    BY MaxI64Fits, WidthAssumption
  <1> QED
    BY <1>1, WordFits, SignedWordFits

LEMMA WrappedDifference ==
  ASSUME NEW x \in 0..MaxI64, NEW y \in 0..MaxI64
  PROVE  I64(U64(x - y)) = x - y
  <1>1. CASE x >= y
    BY <1>1, WrappedFits, MaxI64Fits
  <1>2. CASE x < y
    <2>1. MaxU64 = 2 * MaxI64 + 1 /\ MaxI64 \in Nat
      BY WidthAssumption DEF MaxI64
    <2>2. (x - y) % (MaxU64 + 1) = x - y + (MaxU64 + 1)
      BY <1>2, <2>1
    <2> QED
      BY <1>2, <2>1, <2>2 DEF U64, I64
  <1> QED
    BY <1>1, <1>2

-----------------------------------------------------------------------------
(* Induction.  The library's induction theorems quantify over predicates,  *)
(* which the provers cannot instantiate; for a set they can: it is that of *)
(* the numbers, or of the subsets, of which the claim is true.             *)

LEMMA LeastNumber ==
  ASSUME NEW T \in SUBSET Nat, T # {}
  PROVE  \E x \in T : \A y \in T : x <= y
  <1>1. PICK R : R = OpToRel(<, Nat)
    OBVIOUS
  <1>2. IsWellFoundedOn(R, Nat)
    BY <1>1, NatLessThanWellFounded
  <1>3. \A x, y \in Nat : x < y => <<x, y>> \in R
    BY <1>1 DEF OpToRel
  <1>4. PICK x \in T : \A y \in T : ~ (<<y, x>> \in R)
    BY <1>2, WFMin
  <1>5. \A y \in T : x \in Nat /\ y \in Nat /\ ~(y < x)
    BY <1>3, <1>4
  <1>6. \A y \in T : x <= y
    BY <1>5
  <1> QED
    BY <1>6

LEMMA NatInduct ==
  ASSUME NEW S, 0 \in S, \A n \in Nat : n \in S => n + 1 \in S
  PROVE  Nat \subseteq S
  <1> SUFFICES ASSUME Nat \ S # {} PROVE FALSE
    OBVIOUS
  <1>1. PICK x \in Nat \ S : \A y \in Nat \ S : x <= y
    BY LeastNumber
  <1>2. x - 1 \in Nat
    BY <1>1
  <1>3. x - 1 \in S
    BY <1>1, <1>2
  <1> QED
    BY <1>1, <1>2, <1>3

\* For finite sets: what holds of a set if it holds of all that lack one of
\* its elements.
LEMMA SetInduct ==
  ASSUME NEW S, IsFiniteSet(S), NEW Q,
         \A s \in SUBSET S : (\A x \in s : s \ {x} \in Q) => s \in Q
  PROVE  SUBSET S \subseteq Q
  <1> DEFINE P == {n \in Nat : \A s \in SUBSET S : Cardinality(s) = n => s \in Q}
  <1>1. \A s \in SUBSET S : IsFiniteSet(s) /\ Cardinality(s) \in Nat
    BY FS_Subset, FS_CardinalityType
  <1>2. 0 \in P
    <2>1. ASSUME NEW s \in SUBSET S, Cardinality(s) = 0
          PROVE  s \in Q
      <3>1. s = {}
        BY <1>1, <2>1, FS_EmptySet
      <3> QED
        BY <3>1
    <2> QED
      BY <2>1
  <1>3. ASSUME NEW n \in Nat, n \in P
        PROVE  n + 1 \in P
    <2>1. ASSUME NEW s \in SUBSET S, Cardinality(s) = n + 1
          PROVE  s \in Q
      <3>1. ASSUME NEW x \in s
            PROVE  s \ {x} \in Q
        <4>1. Cardinality(s \ {x}) = n
          BY <1>1, <2>1, FS_RemoveElement
        <4> QED
          BY <1>3, <4>1
      <3> QED
        BY <3>1
    <2> QED
      BY <2>1
  <1> HIDE DEF P
  <1>4. Nat \subseteq P
    BY <1>2, <1>3, NatInduct
  <1> QED
    BY <1>1, <1>4 DEF P

-----------------------------------------------------------------------------
(* Sums over finite sets, as the community modules fold them.              *)

\* f[s] is what MapThenSumSet makes of the subset s of S, with weights w.
Folded(f, w, S) ==
  f = [s \in SUBSET S |->
         IF s = {} THEN 0 ELSE LET x == CHOOSE x \in s : TRUE IN w[x] + f[s \ {x}]]

FoldStep(f, w, s) ==
  IF s = {} THEN 0 ELSE LET x == CHOOSE x \in s : TRUE IN w[x] + f[s \ {x}]

Total(w, S) == MapThenSumSet(LAMBDA i : w[i], S)

\* The recursive function of the fold exists.
LEMMA FoldExists ==
  ASSUME NEW w, NEW S, IsFiniteSet(S)
  PROVE  \E f : Folded(f, w, S)
  <1> DEFINE Upto(f, n) ==
        \A s \in SUBSET S : Cardinality(s) <= n => f[s] = FoldStep(f, w, s)
      P == {n \in Nat : \E f : Upto(f, n)}
  <1>1. \A s \in SUBSET S : IsFiniteSet(s) /\ Cardinality(s) \in Nat
    BY FS_Subset, FS_CardinalityType
  <1>2. 0 \in P
    <2> DEFINE f == [s \in SUBSET S |-> 0]
    <2>1. ASSUME NEW s \in SUBSET S, Cardinality(s) <= 0
          PROVE  f[s] = FoldStep(f, w, s)
      <3>1. s = {}
        BY <1>1, <2>1, FS_EmptySet
      <3> QED
        BY <3>1 DEF FoldStep
    <2> HIDE DEF f
    <2>2. Upto(f, 0)
      BY <2>1
    <2> QED
      BY <2>2
  <1>3. ASSUME NEW n \in Nat, n \in P
        PROVE  n + 1 \in P
    <2>1. PICK f : Upto(f, n)
      BY <1>3
    <2> DEFINE g == [s \in SUBSET S |-> IF Cardinality(s) <= n THEN f[s] ELSE FoldStep(f, w, s)]
    <2>2. ASSUME NEW s \in SUBSET S, Cardinality(s) <= n + 1
          PROVE  g[s] = FoldStep(g, w, s)
      <3>1. CASE s = {}
        <4>1. g[s] = f[s]
          BY <1>1, <3>1, FS_EmptySet
        <4>2. f[s] = FoldStep(f, w, s)
          BY <1>1, <2>1, <3>1, FS_EmptySet
        <4> QED
          BY <3>1, <4>1, <4>2 DEF FoldStep
      <3>2. CASE s # {}
        <4>1. PICK x \in s : x = CHOOSE y \in s : TRUE
          BY <3>2
        <4>2. s \ {x} \in SUBSET S /\ Cardinality(s \ {x}) <= n
          BY <1>1, <2>2, FS_RemoveElement
        <4>3. g[s \ {x}] = f[s \ {x}]
          BY <4>2
        <4>4. FoldStep(g, w, s) = FoldStep(f, w, s)
          BY <4>1, <4>3 DEF FoldStep
        <4>5. g[s] = FoldStep(f, w, s)
          BY <2>1
        <4> QED
          BY <4>4, <4>5
      <3> QED
        BY <3>1, <3>2
    <2> HIDE DEF g
    <2>3. Upto(g, n + 1)
      BY <2>2
    <2> QED
      BY <2>3
  <1> HIDE DEF P
  <1>4. Cardinality(S) \in P
    BY <1>1, <1>2, <1>3, NatInduct
  <1>5. PICK f : Upto(f, Cardinality(S))
    BY <1>4 DEF P
  <1> DEFINE g == [s \in SUBSET S |-> f[s]]
  <1>6. ASSUME NEW s \in SUBSET S
        PROVE  g[s] = FoldStep(g, w, s)
    <2>1. g[s] = FoldStep(f, w, s)
      BY <1>1, <1>5, FS_Subset
    <2>2. FoldStep(g, w, s) = FoldStep(f, w, s)
      <3>1. CASE s = {}
        BY <3>1 DEF FoldStep
      <3>2. CASE s # {}
        <4>1. PICK x \in s : x = CHOOSE y \in s : TRUE
          BY <3>2
        <4>2. g[s \ {x}] = f[s \ {x}]
          OBVIOUS
        <4> QED
          BY <4>1, <4>2 DEF FoldStep
      <3> QED
        BY <3>1, <3>2
    <2> QED
      BY <2>1, <2>2
  <1>7. g = [s \in SUBSET S |-> g[s]]
    OBVIOUS
  <1> HIDE DEF g
  <1>8. g = [s \in SUBSET S |-> FoldStep(g, w, s)]
    BY <1>6, <1>7
  <1>9. Folded(g, w, S)
    BY <1>8 DEF Folded, FoldStep
  <1> QED
    BY <1>9

LEMMA TotalFolded ==
  ASSUME NEW w, NEW S, IsFiniteSet(S)
  PROVE  \E f : Folded(f, w, S) /\ Total(w, S) = f[S]
  <1>1. PICK f : Folded(f, w, S)
    BY FoldExists
  <1> QED
    BY <1>1 DEF Total, MapThenSumSet, MapThenFoldSet, Folded

LEMMA FoldAt ==
  ASSUME NEW f, NEW w, NEW S, Folded(f, w, S)
  PROVE  \A s \in SUBSET S : f[s] = FoldStep(f, w, s)
  BY DEF Folded, FoldStep

\* The sum does not depend on the set it was taken out of.
LEMMA FoldUnique ==
  ASSUME NEW S, IsFiniteSet(S), NEW T \in SUBSET S, NEW w, NEW v, \A i \in T : w[i] = v[i],
         NEW f, NEW g, Folded(f, w, S), Folded(g, v, T)
  PROVE  \A s \in SUBSET T : f[s] = g[s]
  <1> DEFINE Q == {s \in SUBSET T : f[s] = g[s]}
  <1>1. ASSUME NEW s \in SUBSET T, \A x \in s : s \ {x} \in Q
        PROVE  s \in Q
    <2>1. f[s] = FoldStep(f, w, s) /\ g[s] = FoldStep(g, v, s)
      BY FoldAt
    <2>2. CASE s = {}
      BY <2>1, <2>2 DEF FoldStep
    <2>3. CASE s # {}
      <3>1. PICK x \in s : x = CHOOSE y \in s : TRUE
        BY <2>3
      <3>2. f[s \ {x}] = g[s \ {x}] /\ w[x] = v[x]
        BY <1>1, <3>1
      <3> QED
        BY <2>1, <3>1, <3>2 DEF FoldStep
    <2> QED
      BY <2>2, <2>3
  <1> HIDE DEF Q
  <1>2. IsFiniteSet(T)
    BY FS_Subset
  <1>3. SUBSET T \subseteq Q
    BY <1>1, <1>2, SetInduct
  <1> QED
    BY <1>3 DEF Q

LEMMA FoldType ==
  ASSUME NEW S, IsFiniteSet(S), NEW w, NEW T, T \in {Nat, Int}, \A i \in S : w[i] \in T,
         NEW f, Folded(f, w, S)
  PROVE  \A s \in SUBSET S : f[s] \in T
  <1> DEFINE Q == {s \in SUBSET S : f[s] \in T}
  <1>1. ASSUME NEW s \in SUBSET S, \A x \in s : s \ {x} \in Q
        PROVE  s \in Q
    <2>1. f[s] = FoldStep(f, w, s)
      BY FoldAt
    <2>2. CASE s = {}
      BY <2>1, <2>2 DEF FoldStep
    <2>3. CASE s # {}
      <3>1. PICK x \in s : x = CHOOSE y \in s : TRUE
        BY <2>3
      <3>2. f[s \ {x}] \in T /\ w[x] \in T
        BY <1>1
      <3>3. f[s] = w[x] + f[s \ {x}]
        BY <2>1, <2>3, <3>1 DEF FoldStep
      <3>4. f[s] \in T
        BY <3>2, <3>3
      <3> QED
        BY <3>4
    <2> QED
      BY <2>2, <2>3
  <1> HIDE DEF Q
  <1>2. SUBSET S \subseteq Q
    BY <1>1, SetInduct
  <1> QED
    BY <1>2 DEF Q

\* The order in which the elements are taken does not matter.
LEMMA FoldAny ==
  ASSUME NEW S, IsFiniteSet(S), NEW w, \A i \in S : w[i] \in Int, NEW f, Folded(f, w, S)
  PROVE  \A s \in SUBSET S : \A y \in s : f[s] = f[s \ {y}] + w[y]
  <1> DEFINE Q == {s \in SUBSET S : \A y \in s : f[s] = f[s \ {y}] + w[y]}
  <1>1. \A s \in SUBSET S : f[s] \in Int
    BY FoldType
  <1>2. ASSUME NEW s \in SUBSET S, \A x \in s : s \ {x} \in Q
        PROVE  s \in Q
    <2>1. ASSUME NEW y \in s
          PROVE  f[s] = f[s \ {y}] + w[y]
      <3>1. PICK x \in s : x = CHOOSE z \in s : TRUE
        OBVIOUS
      <3>2. f[s] = f[s \ {x}] + w[x] /\ w[x] \in Int
        <4>1. f[s] = w[x] + f[s \ {x}]
          BY <3>1, FoldAt DEF FoldStep
        <4> QED
          BY <1>1, <4>1
      <3>3. CASE y # x
        <4>1. /\ y \in s \ {x} /\ x \in s \ {y}
              /\ (s \ {x}) \ {y} = (s \ {y}) \ {x}
          BY <3>1, <3>3
        <4>2. PICK r \in SUBSET S : r = (s \ {x}) \ {y}
          OBVIOUS
        <4>3. /\ f[s \ {x}] = f[r] + w[y]
              /\ f[s \ {y}] = f[r] + w[x]
          BY <1>2, <3>1, <4>1, <4>2
        <4>4. f[r] \in Int /\ w[y] \in Int
          BY <1>1
        <4> QED
          BY <3>2, <4>3, <4>4
      <3> QED
        BY <3>2, <3>3
    <2> QED
      BY <2>1
  <1> HIDE DEF Q
  <1>3. SUBSET S \subseteq Q
    BY <1>2, SetInduct
  <1> QED
    BY <1>3 DEF Q

\* What a sum is, whatever the fold that makes it.
LEMMA TotalIs ==
  ASSUME NEW S, IsFiniteSet(S), NEW w, NEW f, Folded(f, w, S)
  PROVE  Total(w, S) = f[S]
  <1>1. PICK g : Folded(g, w, S) /\ Total(w, S) = g[S]
    BY TotalFolded
  <1> QED
    BY <1>1, FoldUnique

LEMMA TotalNone ==
  ASSUME NEW w
  PROVE  Total(w, {}) = 0
  <1>1. IsFiniteSet({})
    BY FS_EmptySet
  <1>2. PICK g : Folded(g, w, {}) /\ Total(w, {}) = g[{}]
    BY <1>1, TotalFolded
  <1> QED
    BY <1>2, FoldAt DEF FoldStep

LEMMA TotalType ==
  ASSUME NEW S, IsFiniteSet(S), NEW w, NEW T, T \in {Nat, Int}, \A i \in S : w[i] \in T
  PROVE  Total(w, S) \in T
  <1>1. PICK g : Folded(g, w, S) /\ Total(w, S) = g[S]
    BY TotalFolded
  <1> QED
    BY <1>1, FoldType

LEMMA TotalSame ==
  ASSUME NEW S, IsFiniteSet(S), NEW w, NEW v, \A i \in S : w[i] = v[i]
  PROVE  Total(w, S) = Total(v, S)
  <1>1. PICK f : Folded(f, w, S) /\ Total(w, S) = f[S]
    BY TotalFolded
  <1>2. PICK g : Folded(g, v, S) /\ Total(v, S) = g[S]
    BY TotalFolded
  <1>3. S \in SUBSET S
    OBVIOUS
  <1>4. \A s \in SUBSET S : f[s] = g[s]
    BY <1>1, <1>2, <1>3, FoldUnique
  <1> QED
    BY <1>1, <1>2, <1>3, <1>4

\* An element taken out.
LEMMA TotalLess ==
  ASSUME NEW S, IsFiniteSet(S), NEW w, \A i \in S : w[i] \in Int, NEW x \in S
  PROVE  Total(w, S) = Total(w, S \ {x}) + w[x]
  <1>1. PICK f : Folded(f, w, S) /\ Total(w, S) = f[S]
    BY TotalFolded
  <1>2. f[S] = f[S \ {x}] + w[x]
    BY <1>1, FoldAny
  <1>3. IsFiniteSet(S \ {x})
    BY FS_RemoveElement
  <1>4. PICK g : Folded(g, w, S \ {x}) /\ Total(w, S \ {x}) = g[S \ {x}]
    BY <1>3, TotalFolded
  <1>5. PICK R : R = S \ {x}
    OBVIOUS
  <1>6. f[R] = g[R]
    BY <1>1, <1>4, <1>5, FoldUnique
  <1> QED
    BY <1>1, <1>2, <1>4, <1>5, <1>6

LEMMA TotalMore ==
  ASSUME NEW S, IsFiniteSet(S), NEW w, \A i \in S : w[i] \in Int, NEW x, x \notin S, w[x] \in Int
  PROVE  Total(w, S \cup {x}) = Total(w, S) + w[x]
  <1>1. PICK T : T = S \cup {x}
    OBVIOUS
  <1>2. IsFiniteSet(T)
    BY <1>1, FS_AddElement
  <1>3. S = T \ {x} /\ x \in T /\ \A i \in T : w[i] \in Int
    BY <1>1
  <1>4. Total(w, T) = Total(w, T \ {x}) + w[x]
    BY <1>2, <1>3, TotalLess
  <1> QED
    BY <1>1, <1>3, <1>4

\* Two disjoint parts.
LEMMA TotalParts ==
  ASSUME NEW S, IsFiniteSet(S), NEW w, \A i \in S : w[i] \in Int, NEW T \in SUBSET S
  PROVE  Total(w, S) = Total(w, S \ T) + Total(w, T)
  <1> DEFINE Q == {s \in SUBSET T : Total(w, (S \ T) \cup s) = Total(w, S \ T) + Total(w, s)}
  <1>1. ASSUME NEW s \in SUBSET T, \A x \in s : s \ {x} \in Q
        PROVE  s \in Q
    <2>1. IsFiniteSet(s) /\ IsFiniteSet(S \ T) /\ IsFiniteSet((S \ T) \cup s)
      BY FS_Subset
    <2>2. /\ \A i \in s : w[i] \in Int
          /\ \A i \in S \ T : w[i] \in Int
          /\ \A i \in (S \ T) \cup s : w[i] \in Int
      OBVIOUS
    <2>3. CASE s = {}
      <3>1. PICK u, r : u = (S \ T) \cup s /\ r = S \ T
        OBVIOUS
      <3>2. u = r
        BY <2>3, <3>1
      <3>3. Total(w, r) \in Int
        BY <2>1, <2>2, <3>1, TotalType
      <3>4. Total(w, s) = 0
        BY <2>3, TotalNone
      <3>5. Total(w, u) = Total(w, r) + Total(w, s)
        BY <3>2, <3>3, <3>4
      <3> QED
        BY <3>1, <3>5
    <2>4. ASSUME NEW x \in s
          PROVE  s \in Q
      <3>1. PICK r \in SUBSET T : r = s \ {x}
        OBVIOUS
      <3>2. PICK u : u = (S \ T) \cup s
        OBVIOUS
      <3>3. u \ {x} = (S \ T) \cup r /\ x \in u
        BY <3>1, <3>2
      <3>4. Total(w, u) = Total(w, u \ {x}) + w[x]
        BY <2>1, <2>2, <3>2, <3>3, TotalLess
      <3>5. Total(w, s) = Total(w, r) + w[x]
        BY <2>1, <2>2, <3>1, TotalLess
      <3>6. Total(w, u \ {x}) = Total(w, S \ T) + Total(w, r)
        BY <1>1, <3>1, <3>3
      <3>7. Total(w, S \ T) \in Int /\ Total(w, r) \in Int /\ w[x] \in Int
        <4>1. IsFiniteSet(r) /\ \A i \in r : w[i] \in Int
          BY <2>1, <3>1, FS_Subset
        <4> QED
          BY <2>1, <2>2, <4>1, TotalType
      <3>8. Total(w, u) = Total(w, S \ T) + Total(w, s)
        BY <3>4, <3>5, <3>6, <3>7
      <3> QED
        BY <3>2, <3>8
    <2> QED
      BY <2>3, <2>4
  <1> HIDE DEF Q
  <1>2. IsFiniteSet(T)
    BY FS_Subset
  <1>3. T \in Q
    BY <1>1, <1>2, SetInduct
  <1>4. (S \ T) \cup T = S
    OBVIOUS
  <1> QED
    BY <1>3, <1>4 DEF Q

\* A part is no more than the whole.
LEMMA TotalSubset ==
  ASSUME NEW S, IsFiniteSet(S), NEW w, \A i \in S : w[i] \in Nat, NEW T \in SUBSET S
  PROVE  Total(w, T) <= Total(w, S)
  <1>1. IsFiniteSet(T) /\ IsFiniteSet(S \ T)
    BY FS_Subset
  <1>2. Total(w, T) \in Nat /\ Total(w, S \ T) \in Nat
    BY <1>1, TotalType
  <1>3. Total(w, S) = Total(w, S \ T) + Total(w, T)
    BY TotalParts
  <1> QED
    BY <1>2, <1>3

-----------------------------------------------------------------------------
(* The sum of the first n of w is m.                                       *)

AddsUp(w, n, m) == (\A i \in 1..n : w[i] \in Nat) /\ m = Total(w, 1..n)

LEMMA AddsUpNone ==
  ASSUME NEW w
  PROVE  AddsUp(w, 0, 0)
  <1>1. 1..0 = {}
    OBVIOUS
  <1>2. PICK S : S = 1..0
    OBVIOUS
  <1>3. Total(w, S) = 0
    BY <1>1, <1>2, TotalNone
  <1> QED
    BY <1>1, <1>2, <1>3 DEF AddsUp

\* One more summand.
LEMMA AddsUpMore ==
  ASSUME NEW n \in Nat, NEW m, NEW w, AddsUp(w, n, m), NEW c \in Nat, NEW v,
         v[n + 1] = c, \A i \in 1..n : v[i] = w[i]
  PROVE  AddsUp(v, n + 1, m + c)
  <1>1. PICK S : S = 1..n
    OBVIOUS
  <1>2. PICK x, T : x = n + 1 /\ T = S \cup {x}
    OBVIOUS
  <1>3. IsFiniteSet(S)
    BY <1>1, FS_Interval
  <1>4. /\ \A i \in S : w[i] \in Nat /\ v[i] = w[i] /\ v[i] \in Int
        /\ m = Total(w, S) /\ x \notin S /\ v[x] = c /\ v[x] \in Int
    BY <1>1, <1>2 DEF AddsUp
  <1>5. Total(v, S) = m
    BY <1>3, <1>4, TotalSame
  <1>6. Total(v, T) = m + c
    BY <1>2, <1>3, <1>4, <1>5, TotalMore
  <1>7. T = 1..(n + 1) /\ \A i \in T : v[i] \in Nat
    BY <1>1, <1>2, <1>4
  <1> QED
    BY <1>6, <1>7 DEF AddsUp

\* One summand less: it was in the sum, and the others still are.
LEMMA AddsUpLess ==
  ASSUME NEW n \in Nat, NEW m, NEW w, AddsUp(w, n, m), NEW k \in 1..n, NEW c \in Nat,
         w[k] = c, \A i \in 1..n : w[i] \in Nat,
         NEW v, v[k] = 0, \A i \in 1..n : i # k => v[i] = w[i]
  PROVE  c <= m /\ m \in Nat /\ AddsUp(v, n, m - c)
  <1>1. PICK S : S = 1..n
    OBVIOUS
  <1>2. PICK R : R = S \ {k}
    OBVIOUS
  <1>3. IsFiniteSet(S) /\ IsFiniteSet(R)
    <2>1. IsFiniteSet(S)
      BY <1>1, FS_Interval
    <2> QED
      BY <1>2, <2>1, FS_RemoveElement
  <1>4. /\ \A i \in S : w[i] \in Nat /\ w[i] \in Int /\ v[i] \in Nat /\ v[i] \in Int
        /\ k \in S /\ m = Total(w, S)
    BY <1>1 DEF AddsUp
  <1>5. /\ Total(w, S) = Total(w, R) + c
        /\ Total(v, S) = Total(v, R) + 0
    BY <1>2, <1>3, <1>4, TotalLess
  <1>6. Total(v, R) = Total(w, R) /\ Total(w, R) \in Nat
    <2>1. \A i \in R : v[i] = w[i] /\ w[i] \in Nat
      BY <1>1, <1>2, <1>4
    <2>2. Total(v, R) = Total(w, R)
      BY <1>3, <2>1, TotalSame
    <2>3. Total(w, R) \in Nat
      BY <1>3, <2>1, TotalType
    <2> QED
      BY <2>2, <2>3
  <1>7. m \in Nat /\ c <= m /\ m - c = Total(v, S)
    BY <1>4, <1>5, <1>6
  <1> QED
    BY <1>1, <1>4, <1>7 DEF AddsUp

\* Only the summands count.
LEMMA AddsUpSame ==
  ASSUME NEW n \in Nat, NEW m, NEW w, AddsUp(w, n, m),
         NEW v, \A i \in 1..n : v[i] = w[i]
  PROVE  AddsUp(v, n, m)
  <1>1. IsFiniteSet(1..n)
    BY FS_Interval
  <1>2. Total(w, 1..n) = Total(v, 1..n)
    BY <1>1, TotalSame
  <1> QED
    BY <1>2 DEF AddsUp

\* Sums over spans of numbers.
LEMMA SpanSame ==
  ASSUME NEW i \in Int, NEW j \in Int, NEW w, NEW v, \A x \in i..j : v[x] = w[x]
  PROVE  Total(v, i..j) = Total(w, i..j)
  <1>1. PICK S : S = i..j
    OBVIOUS
  <1>2. IsFiniteSet(S) /\ \A x \in S : v[x] = w[x]
    BY <1>1, FS_Interval
  <1> QED
    BY <1>1, <1>2, TotalSame

\* A span one longer has one more to add.
LEMMA SpanMore ==
  ASSUME NEW i \in Int, NEW m \in Int, NEW x \in Int, x = m + 1, i <= x,
         NEW w, \A y \in i..m : w[y] \in Int,
         NEW v, v[x] \in Int, \A y \in i..m : v[y] = w[y]
  PROVE  /\ Total(v, i..x) = Total(w, i..m) + v[x]
         /\ Total(w, i..m) \in Int
  <1>1. PICK S : S = i..m
    OBVIOUS
  <1>2. PICK T : T = S \cup {x}
    OBVIOUS
  <1>3. IsFiniteSet(S)
    BY <1>1, FS_Interval
  <1>4. /\ \A y \in S : v[y] = w[y] /\ v[y] \in Int /\ w[y] \in Int
        /\ x \notin S /\ v[x] \in Int
        /\ T = i..x
    BY <1>1, <1>2
  <1>5. Total(v, T) = Total(v, S) + v[x]
    BY <1>2, <1>3, <1>4, TotalMore
  <1>6. Total(v, S) = Total(w, S) /\ Total(w, S) \in Int
    BY <1>3, <1>4, TotalSame, TotalType
  <1> QED
    BY <1>1, <1>2, <1>4, <1>5, <1>6

\* A multiple of the width divides by it.
LEMMA ExactQuotient ==
  ASSUME NEW w \in Nat \ {0}, NEW x \in Nat
  PROVE  (w * x) \div w = x
  <1>1. PICK q : q = (w * x) \div w
    OBVIOUS
  <1>2. w * x \in Nat
    BY NatProduct
  <1>3. q \in Nat /\ w * q <= w * x /\ w * x < w * q + w
    BY <1>1, <1>2
  <1>4. CASE q < x
    <2>1. w * (q + 1) <= w * x
      BY <1>3, <1>4, ProductGrows
    <2>2. w * (q + 1) = w * q + w
      BY <1>3
    <2> QED
      BY <1>2, <1>3, <2>1, <2>2
  <1>5. CASE q > x
    <2>1. w * (x + 1) <= w * q
      BY <1>3, <1>5, ProductGrows
    <2>2. w * (x + 1) = w * x + w
      OBVIOUS
    <2> QED
      BY <1>2, <1>3, <2>1, <2>2
  <1> QED
    BY <1>1, <1>3, <1>4, <1>5

=============================================================================
