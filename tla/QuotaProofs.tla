---------------------------- MODULE QuotaProofs ----------------------------
(***************************************************************************)
(* Theorems about PolicyTable and Quota: which policy a key has, that it   *)
(* never falls back, that texts are in force, and that every call of any   *)
(* number of goroutines is on the one book of its policy.                  *)
(***************************************************************************)
EXTENDS Quota, ArithProofs, SequenceTheorems

\* A text reads line by line as it reads as a whole (parse.go:42): what the
\* run quota checks of drafts, here asked of the texts that are loaded.
ReadAsWritten == \A x \in Texts : Parsed[x] = Says(x)

-----------------------------------------------------------------------------
(* The chain of a key.                                                     *)

LevelsOf(k) == {0} \cup {n \in 1..3 : Concrete(k, n)}

\* The numbers of S, from the highest to the lowest.
Descends(s, S) ==
  /\ s \in Seq(Nat)
  /\ \A i \in 1..Len(s) : s[i] \in S
  /\ \A n \in S : \E i \in 1..Len(s) : s[i] = n
  /\ \A i, j \in 1..Len(s) : i < j => s[i] > s[j]

LEMMA DescendsMore ==
  ASSUME NEW s, NEW S \in SUBSET Nat, Descends(s, S), NEW n \in Nat, \A m \in S : m > n
  PROVE  Descends(s \o <<n>>, S \cup {n})
  <1>1. PICK t, N : t = s \o <<n>> /\ N = Len(s)
    OBVIOUS
  <1>2. s \in Seq(Nat) /\ N \in Nat
    BY <1>1 DEF Descends
  <1>3. /\ t \in Seq(Nat) /\ Len(t) = N + 1 /\ t[N + 1] = n
        /\ \A i \in 1..N : t[i] = s[i]
    BY <1>1, <1>2
  <1>4. \A i \in 1..Len(t) : i \in 1..N \/ i = N + 1
    BY <1>2, <1>3
  <1>5. \A i \in 1..Len(t) : t[i] \in S \cup {n}
    BY <1>1, <1>3, <1>4 DEF Descends
  <1>6. \A m \in S \cup {n} : \E i \in 1..Len(t) : t[i] = m
    <2>1. N + 1 \in 1..Len(t)
      BY <1>2, <1>3
    <2>2. ASSUME NEW m \in S
          PROVE  \E i \in 1..Len(t) : t[i] = m
      <3>1. PICK i \in 1..N : s[i] = m
        BY <1>1 DEF Descends
      <3>2. i \in 1..Len(t) /\ t[i] = m
        BY <1>2, <1>3, <3>1
      <3> QED
        BY <3>2
    <2> QED
      BY <1>3, <2>1, <2>2
  <1>7. ASSUME NEW i \in 1..Len(t), NEW j \in 1..Len(t), i < j
        PROVE  t[i] > t[j]
    <2>1. i \in 1..N
      BY <1>2, <1>3, <1>7
    <2>2. CASE j \in 1..N
      BY <1>1, <1>3, <1>7, <2>1, <2>2 DEF Descends
    <2>3. CASE j = N + 1
      <3>1. t[j] = n /\ t[i] \in S
        BY <1>1, <1>3, <2>1, <2>3 DEF Descends
      <3> QED
        BY <3>1
    <2> QED
      BY <1>4, <2>2, <2>3
  <1> QED
    BY <1>1, <1>3, <1>5, <1>6, <1>7 DEF Descends

LEMMA LevelsAre ==
  ASSUME NEW k
  PROVE  Descends(Levels(k), LevelsOf(k))
  <1> DEFINE at(n) == IF Concrete(k, n) THEN <<n>> ELSE <<>>
             in(n) == IF Concrete(k, n) THEN {n} ELSE {}
  <1>1. Descends(<<>>, {})
    BY DEF Descends
  <1>2. ASSUME NEW s, NEW S \in SUBSET Nat, Descends(s, S), NEW n \in Nat,
               \A m \in S : m > n
        PROVE  Descends(s \o at(n), S \cup in(n))
    <2>1. CASE Concrete(k, n)
      BY <1>2, <2>1, DescendsMore
    <2>2. CASE ~Concrete(k, n)
      <3>1. s \o <<>> = s /\ S \cup {} = S
        BY <1>2 DEF Descends
      <3> QED
        BY <1>2, <2>2, <3>1
    <2> QED
      BY <2>1, <2>2
  <1>3. in(3) \in SUBSET Nat /\ in(2) \in SUBSET Nat /\ in(1) \in SUBSET Nat
    OBVIOUS
  <1>4. Descends(<<>> \o at(3), {} \cup in(3))
    BY <1>1, <1>2
  <1>5. <<>> \o at(3) = at(3) /\ {} \cup in(3) = in(3)
    OBVIOUS
  <1>6. Descends(at(3) \o at(2), in(3) \cup in(2))
    <2>1. \A m \in in(3) : m > 2
      OBVIOUS
    <2> HIDE DEF at, in
    <2> QED
      BY <1>2, <1>3, <1>4, <1>5, <2>1
  <1>7. Descends(at(3) \o at(2) \o at(1), in(3) \cup in(2) \cup in(1))
    <2>1. \A m \in in(3) \cup in(2) : m > 1
      OBVIOUS
    <2> HIDE DEF at, in
    <2> QED
      BY <1>2, <1>3, <1>6, <2>1
  <1>8. Descends(at(3) \o at(2) \o at(1) \o <<0>>, in(3) \cup in(2) \cup in(1) \cup {0})
    <2>1. \A m \in in(3) \cup in(2) \cup in(1) : m > 0
      OBVIOUS
    <2> HIDE DEF at, in
    <2> QED
      BY <1>3, <1>7, <2>1, DescendsMore
  <1>9. in(3) \cup in(2) \cup in(1) \cup {0} = LevelsOf(k)
    BY DEF LevelsOf
  <1> QED
    BY <1>8, <1>9 DEF Levels

LEMMA ChainIs ==
  ASSUME NEW k \in Keys
  PROVE  /\ Len(Chain[k]) = Len(Levels(k)) /\ Len(Chain[k]) \in Nat
         /\ \A i \in 1..Len(Chain[k]) : Chain[k][i] = Level(k, Levels(k)[i])
  <1>1. Len(Levels(k)) \in Nat
    BY LevelsAre DEF Descends
  <1>2. PICK n : n = Len(Levels(k))
    OBVIOUS
  <1>3. Chain[k] = [i \in 1..n |-> Level(k, Levels(k)[i])]
    BY <1>2 DEF Chain, FallbackChain
  <1>4. Len(Chain[k]) = n
    BY <1>1, <1>2, <1>3
  <1> QED
    BY <1>1, <1>2, <1>3, <1>4

\* The levels of a key are triples without gaps,
LEMMA LevelIs ==
  ASSUME NEW k, NEW n \in LevelsOf(k)
  PROVE  /\ n \in 0..3
         /\ \A d \in Dims :
              /\ Level(k, n)[d] # Missing
              /\ Concrete(Level(k, n), d) <=> d <= n /\ Concrete(k, d)
              /\ Concrete(k, d) /\ d <= n => Level(k, n)[d] = k[d]
              /\ ~(Concrete(k, d) /\ d <= n) => Level(k, n)[d] = Wildcard
  <1>1. n \in 0..3 /\ (n # 0 => Concrete(k, n))
    BY DEF LevelsOf
  <1>2. ASSUME NEW d \in Dims
        PROVE  /\ Level(k, n)[d] # Missing
               /\ Concrete(Level(k, n), d) <=> d <= n /\ Concrete(k, d)
               /\ Concrete(k, d) /\ d <= n => Level(k, n)[d] = k[d]
               /\ ~(Concrete(k, d) /\ d <= n) => Level(k, n)[d] = Wildcard
    <2>1. Level(k, n)[d] = IF d <= n THEN Norm(k[d]) ELSE Wildcard
      BY DEF Level
    <2>2. Missing # Wildcard
      BY DEF Missing, Wildcard
    <2> QED
      BY <2>1, <2>2 DEF Norm, Concrete
  <1> QED
    BY <1>1, <1>2

\* and just the patterns that fit it.
LEMMA FittingIs ==
  ASSUME NEW k \in Keys, NEW p \in Patterns
  PROVE  p \in Fitting[k] <=> \E n \in LevelsOf(k) : p = Level(k, n)
  <1>1. p = [d \in Dims |-> p[d]]
    BY TableAssumption
  <1>2. ASSUME NEW n \in LevelsOf(k), p = Level(k, n)
        PROVE  p \in Fitting[k]
    <2>1. n \in 0..3
      BY LevelIs
    <2>2. ASSUME NEW d \in Dims
          PROVE  /\ p[d] # Missing
                 /\ ~Concrete(p, d) \/ k[d] = p[d]
                 /\ Concrete(p, d) =>
                      \A c \in 1..(d - 1) : Concrete(k, c) => Concrete(p, c)
      <3>1. /\ p[d] # Missing
            /\ Concrete(p, d) => d <= n /\ Concrete(k, d) /\ p[d] = k[d]
        BY <1>2, LevelIs
      <3>2. ASSUME d <= n, NEW c \in 1..(d - 1), Concrete(k, c)
            PROVE  Concrete(p, c)
        <4>1. c \in Dims /\ c <= n
          BY <2>1, <3>2 DEF Dims
        <4> QED
          BY <1>2, <3>2, <4>1, LevelIs
      <3> QED
        BY <3>1, <3>2
    <2> QED
      BY <2>2 DEF Fitting, MatchPattern
  <1>3. ASSUME p \in Fitting[k]
        PROVE  \E n \in LevelsOf(k) : p = Level(k, n)
    <2>1. \A d \in Dims :
            /\ p[d] # Missing /\ (~Concrete(p, d) \/ k[d] = p[d])
            /\ Concrete(p, d) => \A c \in 1..(d - 1) : Concrete(k, c) => Concrete(p, c)
      BY <1>3 DEF Fitting, MatchPattern
    <2>2. \A d \in Dims :
            /\ Concrete(p, d) => Concrete(k, d) /\ p[d] = k[d]
            /\ ~Concrete(p, d) => p[d] = Wildcard
      BY <2>1 DEF Concrete
    <2>3. PICK n \in LevelsOf(k) : \A d \in Dims : Concrete(p, d) <=> d <= n /\ Concrete(k, d)
      <3>1. CASE Concrete(p, 3)
        <4>1. 3 \in LevelsOf(k)
          BY <2>2, <3>1 DEF LevelsOf, Dims
        <4> QED
          BY <2>1, <2>2, <3>1, <4>1 DEF Dims
      <3>2. CASE ~Concrete(p, 3) /\ Concrete(p, 2)
        <4>1. 2 \in LevelsOf(k)
          BY <2>2, <3>2 DEF LevelsOf, Dims
        <4> QED
          BY <2>1, <2>2, <3>2, <4>1 DEF Dims
      <3>3. CASE ~Concrete(p, 3) /\ ~Concrete(p, 2) /\ Concrete(p, 1)
        <4>1. 1 \in LevelsOf(k)
          BY <2>2, <3>3 DEF LevelsOf, Dims
        <4> QED
          BY <2>1, <2>2, <3>3, <4>1 DEF Dims
      <3>4. CASE ~Concrete(p, 3) /\ ~Concrete(p, 2) /\ ~Concrete(p, 1)
        <4>1. 0 \in LevelsOf(k)
          BY DEF LevelsOf
        <4> QED
          BY <3>4, <4>1 DEF Dims
      <3> QED
        BY <3>1, <3>2, <3>3, <3>4
    <2>4. \A d \in Dims : p[d] = Level(k, n)[d]
      BY <2>2, <2>3, LevelIs
    <2>5. Level(k, n) = [d \in Dims |-> Level(k, n)[d]]
      BY DEF Level
    <2>6. p = Level(k, n)
      BY <1>1, <2>4, <2>5
    <2> QED
      BY <2>6
  <1> QED
    BY <1>2, <1>3

\* A higher level is more specific.
LEMMA LevelsRank ==
  ASSUME NEW k, NEW n \in LevelsOf(k), NEW m \in LevelsOf(k), m < n
  PROVE  MoreSpecific(Level(k, n), Level(k, m))
  <1>1. PICK A, B : /\ A = {d \in Dims : Concrete(Level(k, n), d)}
                    /\ B = {d \in Dims : Concrete(Level(k, m), d)}
    OBVIOUS
  <1>2. A \subseteq Dims /\ B \subseteq A /\ n \in A /\ n \notin B
    <2>1. n \in Dims /\ Concrete(k, n) /\ m \in 0..3 /\ n \in 0..3
      BY DEF LevelsOf, Dims
    <2>2. \A d \in Dims : (d <= m => d <= n) /\ (d = n => d <= n /\ ~(d <= m))
      BY <2>1 DEF Dims
    <2>3. \A d \in Dims : d \in A <=> d <= n /\ Concrete(k, d)
      BY <1>1, LevelIs
    <2>4. \A d \in Dims : d \in B <=> d <= m /\ Concrete(k, d)
      BY <1>1, LevelIs
    <2>5. A \subseteq Dims /\ B \subseteq Dims
      BY <1>1
    <2> QED
      BY <2>1, <2>2, <2>3, <2>4, <2>5
  <1>3. IsFiniteSet(A)
    <2>1. PICK x \in Int : x = 3
      OBVIOUS
    <2>2. PICK D : D = 1..x
      OBVIOUS
    <2>3. IsFiniteSet(D)
      BY <2>2, FS_Interval
    <2>4. A \subseteq D
      BY <1>2, <2>1, <2>2 DEF Dims
    <2> QED
      BY <2>3, <2>4, FS_Subset
  <1>4. IsFiniteSet(B) /\ Cardinality(B) <= Cardinality(A) /\ Cardinality(A) # Cardinality(B)
    BY <1>2, <1>3, FS_Subset
  <1>5. Cardinality(A) \in Nat /\ Cardinality(B) \in Nat
    BY <1>3, <1>4, FS_CardinalityType
  <1>6. Specificity(Level(k, n)) > Specificity(Level(k, m))
    BY <1>1, <1>4, <1>5 DEF Specificity
  <1> QED
    BY <1>6 DEF MoreSpecific

-----------------------------------------------------------------------------
(* The table.                                                              *)

Tabled ==
  /\ specs \in [Names -> Policies \cup {NIL}]
  /\ \A n \in Names : specs[n] # NIL => specs[n].name = n
  /\ byPat \in [Patterns -> Names \cup {NIL}]
  /\ \A p \in Patterns : byPat[p] # NIL => specs[byPat[p]] # NIL

\* The list of bindings is the map, each pattern once.
Listed ==
  /\ binds \in Seq(Bindings)
  /\ \A i \in 1..Len(binds) : byPat[binds[i].pattern] = binds[i].policy
  /\ \A p \in Patterns : byPat[p] # NIL => \E i \in 1..Len(binds) : binds[i].pattern = p
  /\ \A i, j \in 1..Len(binds) : binds[i].pattern = binds[j].pattern => i = j

Loads ==
  [text: {x \in Texts : Parsed[x] # NIL}, specs: Seq(Policies), binds: Seq(Bindings)]

\* What of a text is not in force is still to be loaded.
Going(l) ==
  /\ \A s \in Range(Parsed[l.text].specs) : s \in Range(l.specs) \/ specs[s.name] = s
  /\ \A b \in Range(Parsed[l.text].binds) : b \in Range(l.binds) \/ byPat[b.pattern] # NIL

InForce(said) ==
  /\ \A s \in Range(said.specs) : specs[s.name] = s
  /\ \A b \in Range(said.binds) : byPat[b.pattern] # NIL

Loading ==
  /\ loading \in [Goroutines -> Loads \cup {NIL}]
  /\ \A g \in Goroutines : loading[g] # NIL => Going(loading[g])
  /\ \A said \in loaded : \E x \in Texts : Parsed[x] # NIL /\ said = Says(x)
  /\ ReadAsWritten => \A said \in loaded : InForce(said)
  /\ writes \in 0..MaxWrites

TInv == Tabled /\ Listed /\ Loading

\* No policy is ever changed, and no pattern loses its policy.
Kept ==
  /\ \A n \in Names : specs[n] # NIL => specs'[n] = specs[n]
  /\ \A p \in Patterns : byPat[p] # NIL => byPat'[p] # NIL

LEMMA PolicyIs ==
  ASSUME NEW s \in Policies
  PROVE  s.name \in Names /\ s # NIL
  BY TableAssumption

LEMMA BindingIs ==
  ASSUME NEW b \in Bindings
  PROVE  b.policy \in Names /\ b.pattern \in Patterns /\ b.policy # NIL
  BY TableAssumption DEF Patterns

LEMMA SpecAdded ==
  ASSUME Tabled, Listed, NEW s \in Policies, Registrable(s), AddSpec(s),
         UNCHANGED <<byPat, binds>>
  PROVE  Tabled' /\ Listed' /\ Kept /\ specs'[s.name] = s
  <1>1. /\ s.name \in Names /\ s # NIL /\ specs[s.name] = NIL
        /\ specs' = [specs EXCEPT ![s.name] = s]
    BY PolicyIs DEF Registrable, AddSpec
  <1>2. /\ specs'[s.name] = s
        /\ \A n \in Names : n # s.name => specs'[n] = specs[n]
        /\ specs' \in [Names -> Policies \cup {NIL}]
    BY <1>1 DEF Tabled
  <1>3. \A p \in Patterns : byPat'[p] = byPat[p] /\ byPat[p] \in Names \cup {NIL}
    BY DEF Tabled
  <1>4. Kept
    BY <1>1, <1>2, <1>3 DEF Kept
  <1>5. Listed'
    BY DEF Listed
  <1>6. \A n \in Names : specs'[n] # NIL => specs'[n].name = n
    BY <1>1, <1>2 DEF Tabled
  <1>7. \A p \in Patterns : byPat'[p] # NIL => specs'[byPat'[p]] # NIL
    BY <1>1, <1>2, <1>3 DEF Tabled
  <1> QED
    BY <1>2, <1>4, <1>5, <1>6, <1>7 DEF Tabled

\* The place of a pattern in the list.
LEMMA PlaceIs ==
  ASSUME Listed, NEW b \in Bindings
  PROVE  LET old == SelectInSeq(binds, LAMBDA x : x.pattern = b.pattern) IN
         \/ old = 0 /\ \A i \in 1..Len(binds) : binds[i].pattern # b.pattern
         \/ old \in 1..Len(binds) /\ binds[old].pattern = b.pattern
  <1> DEFINE I == {i \in 1..Len(binds) : binds[i].pattern = b.pattern}
             old == SelectInSeq(binds, LAMBDA x : x.pattern = b.pattern)
  <1>1. old = IF I # {} THEN Min(I) ELSE 0
    BY DEF SelectInSeq
  <1>2. CASE I = {}
    BY <1>1, <1>2
  <1>3. CASE I # {}
    <2>1. I \in SUBSET Nat
      OBVIOUS
    <2>2. \E x \in I : \A y \in I : x <= y
      BY <1>3, <2>1, LeastNumber
    <2> HIDE DEF I
    <2>3. Min(I) \in I
      BY <2>2 DEF Min
    <2>4. old \in I
      BY <1>1, <1>3, <2>3
    <2> QED
      BY <2>4 DEF I
  <1> QED
    BY <1>2, <1>3

LEMMA BindingAdded ==
  ASSUME Tabled, Listed, NEW b \in Bindings, Bindable(b), AddBinding(b), specs' = specs
  PROVE  Tabled' /\ Listed' /\ Kept /\ byPat'[b.pattern] # NIL
  <1>1. /\ b.policy \in Names /\ b.pattern \in Patterns /\ b.policy # NIL
        /\ specs[b.policy] # NIL /\ byPat' = [byPat EXCEPT ![b.pattern] = b.policy]
    BY BindingIs DEF Bindable, AddBinding
  <1>2. /\ byPat'[b.pattern] = b.policy
        /\ \A p \in Patterns : p # b.pattern => byPat'[p] = byPat[p]
        /\ byPat' \in [Patterns -> Names \cup {NIL}]
    BY <1>1 DEF Tabled
  <1>3. Kept /\ byPat'[b.pattern] # NIL
    BY <1>1, <1>2 DEF Kept
  <1>4. Tabled'
    BY <1>1, <1>2 DEF Tabled
  <1>5. PICK n \in Nat : n = Len(binds)
    BY DEF Listed
  <1>6. /\ binds \in Seq(Bindings)
        /\ \A i \in 1..n : binds[i] \in Bindings /\ binds[i].pattern \in Patterns
        /\ \A i \in 1..n : byPat[binds[i].pattern] = binds[i].policy
        /\ \A p \in Patterns : byPat[p] # NIL => \E i \in 1..n : binds[i].pattern = p
        /\ \A i, j \in 1..n : binds[i].pattern = binds[j].pattern => i = j
    BY <1>5, BindingIs DEF Listed
  <1>7. PICK old : old = SelectInSeq(binds, LAMBDA x : x.pattern = b.pattern)
    OBVIOUS
  <1>8. \/ old = 0 /\ \A i \in 1..n : binds[i].pattern # b.pattern
        \/ old \in 1..n /\ binds[old].pattern = b.pattern
    BY <1>5, <1>7, PlaceIs
  <1>9. binds' = IF old = 0 THEN Append(binds, b) ELSE ReplaceAt(binds, old, b)
    BY <1>7 DEF AddBinding
  <1>10. ASSUME old = 0
         PROVE  Listed'
    <2>1. /\ binds' \in Seq(Bindings) /\ Len(binds') = n + 1
          /\ \A i \in 1..n : binds'[i] = binds[i]
          /\ binds'[n + 1] = b
      BY <1>5, <1>6, <1>9, <1>10
    <2>2. \A i \in 1..n : binds[i].pattern # b.pattern
      BY <1>8, <1>10
    <2>3. \A i \in 1..(n + 1) : i \in 1..n \/ i = n + 1
      OBVIOUS
    <2>4. \A i \in 1..(n + 1) : byPat'[binds'[i].pattern] = binds'[i].policy
      BY <1>2, <1>6, <2>1, <2>2, <2>3
    <2>5. \A i, j \in 1..(n + 1) : binds'[i].pattern = binds'[j].pattern => i = j
      BY <1>6, <2>1, <2>2, <2>3
    <2>6. ASSUME NEW p \in Patterns, byPat'[p] # NIL
          PROVE  \E i \in 1..(n + 1) : binds'[i].pattern = p
      <3>1. CASE p = b.pattern
        <4>1. n + 1 \in 1..(n + 1)
          OBVIOUS
        <4> QED
          BY <2>1, <3>1, <4>1
      <3>2. CASE p # b.pattern
        <4>1. PICK i \in 1..n : binds[i].pattern = p
          BY <1>2, <1>6, <2>6, <3>2
        <4>2. i \in 1..(n + 1) /\ binds'[i].pattern = p
          BY <2>1, <4>1
        <4> QED
          BY <4>2
      <3> QED
        BY <3>1, <3>2
    <2> QED
      BY <2>1, <2>4, <2>5, <2>6 DEF Listed
  <1>11. ASSUME old # 0
         PROVE  Listed'
    <2>1. old \in 1..n /\ binds[old].pattern = b.pattern
      BY <1>8, <1>11
    <2>2. /\ binds' \in Seq(Bindings) /\ Len(binds') = n
          /\ \A i \in 1..n : i # old => binds'[i] = binds[i]
          /\ binds'[old] = b
      BY <1>5, <1>6, <1>9, <1>11, <2>1 DEF ReplaceAt
    <2>3. \A i \in 1..n : binds'[i].pattern = binds[i].pattern
      BY <2>1, <2>2
    <2>4. \A i \in 1..n : byPat'[binds'[i].pattern] = binds'[i].policy
      BY <1>2, <1>6, <2>1, <2>2, <2>3
    <2>5. \A i, j \in 1..n : binds'[i].pattern = binds'[j].pattern => i = j
      BY <1>6, <2>3
    <2>6. ASSUME NEW p \in Patterns, byPat'[p] # NIL
          PROVE  \E i \in 1..n : binds'[i].pattern = p
      BY <1>2, <1>6, <2>1, <2>3, <2>6
    <2> QED
      BY <2>2, <2>4, <2>5, <2>6 DEF Listed
  <1> QED
    BY <1>3, <1>4, <1>10, <1>11

-----------------------------------------------------------------------------
(* Texts under way.                                                        *)

LEMMA ParsedIs ==
  ASSUME NEW x \in Texts, Parsed[x] # NIL
  PROVE  /\ Parsed[x].specs \in Seq(Policies) /\ Parsed[x].binds \in Seq(Bindings)
         /\ \A s \in Range(Parsed[x].specs) : s \in Policies /\ s.name \in Names /\ s # NIL
         /\ \A b \in Range(Parsed[x].binds) : b \in Bindings /\ b.pattern \in Patterns
  <1>1. Parsed[x].specs \in Seq(Policies) /\ Parsed[x].binds \in Seq(Bindings)
    BY TableAssumption
  <1>2. /\ Range(Parsed[x].specs) \subseteq Policies
        /\ Range(Parsed[x].binds) \subseteq Bindings
    BY <1>1 DEF Range
  <1> QED
    BY <1>1, <1>2, PolicyIs, BindingIs

LEMMA GoingStays ==
  ASSUME Kept, NEW l \in Loads, Going(l)
  PROVE  Going(l)'
  <1>1. l.text \in Texts /\ Parsed[l.text] # NIL
    BY DEF Loads
  <1>2. \A s \in Range(Parsed[l.text].specs) :
          (s \in Range(l.specs) \/ specs[s.name] = s) /\ s.name \in Names /\ s # NIL
    BY <1>1, ParsedIs DEF Going
  <1>3. \A b \in Range(Parsed[l.text].binds) :
          (b \in Range(l.binds) \/ byPat[b.pattern] # NIL) /\ b.pattern \in Patterns
    BY <1>1, ParsedIs DEF Going
  <1>4. \A s \in Range(Parsed[l.text].specs) : s \in Range(l.specs) \/ specs'[s.name] = s
    BY <1>2 DEF Kept
  <1>5. \A b \in Range(Parsed[l.text].binds) : b \in Range(l.binds) \/ byPat'[b.pattern] # NIL
    BY <1>3 DEF Kept
  <1> QED
    BY <1>4, <1>5 DEF Going

LEMMA InForceStays ==
  ASSUME Kept, ReadAsWritten, NEW x \in Texts, Parsed[x] # NIL, InForce(Says(x))
  PROVE  InForce(Says(x))'
  <1>1. PICK said : said = Parsed[x] /\ said = Says(x)
    BY DEF ReadAsWritten
  <1>2. \A s \in Range(said.specs) : specs[s.name] = s /\ s.name \in Names /\ s # NIL
    BY <1>1, ParsedIs DEF InForce
  <1>3. \A b \in Range(said.binds) : byPat[b.pattern] # NIL /\ b.pattern \in Patterns
    BY <1>1, ParsedIs DEF InForce
  <1>4. \A s \in Range(said.specs) : specs'[s.name] = s
    BY <1>2 DEF Kept
  <1>5. \A b \in Range(said.binds) : byPat'[b.pattern] # NIL
    BY <1>3 DEF Kept
  <1> QED
    BY <1>1, <1>4, <1>5 DEF InForce

\* A goroutine goes on with its load, or ends it.
LEMMA LoadingGoes ==
  ASSUME Loading, Kept, NEW g \in Goroutines, NEW m, m # NIL => m \in Loads /\ Going(m)',
         Goes(g, m), loaded' = loaded, writes' \in 0..MaxWrites
  PROVE  Loading'
  <1>1. /\ loading \in [Goroutines -> Loads \cup {NIL}]
        /\ loading' = [loading EXCEPT ![g] = m] /\ m \in Loads \cup {NIL}
    BY DEF Loading, Goes
  <1>2. loading' \in [Goroutines -> Loads \cup {NIL}]
    BY <1>1
  <1>3. ASSUME NEW h \in Goroutines, loading'[h] # NIL
        PROVE  Going(loading[h])'
    <2>1. CASE h = g
      <3>1. loading'[h] = m
        BY <1>1, <2>1
      <3> QED
        BY <1>3, <3>1 DEF Going
    <2>2. CASE h # g
      <3>1. loading'[h] = loading[h] /\ loading[h] \in Loads
        BY <1>1, <1>3, <2>2
      <3>2. PICK l \in Loads : l = loading[h]
        BY <3>1
      <3>3. Going(l)
        BY <1>3, <3>1, <3>2 DEF Loading
      <3>4. Going(l)'
        BY <3>3, GoingStays
      <3> QED
        BY <3>1, <3>2, <3>4 DEF Going
    <2> QED
      BY <2>1, <2>2
  <1>4. \A said \in loaded' : \E x \in Texts : Parsed[x] # NIL /\ said = Says(x)
    BY DEF Loading
  <1>5. ASSUME ReadAsWritten, NEW said \in loaded'
        PROVE  InForce(said)'
    <2>1. PICK x \in Texts : Parsed[x] # NIL /\ said = Says(x)
      BY <1>5, <1>4
    <2>2. InForce(Says(x))
      BY <1>5, <2>1 DEF Loading
    <2>3. InForce(Says(x))'
      BY <1>5, <2>1, <2>2, InForceStays
    <2> QED
      BY <2>1, <2>3 DEF InForce
  <1> QED
    BY <1>2, <1>3, <1>4, <1>5 DEF Loading

\* The same when no goroutine's load moves.
LEMMA LoadingStays ==
  ASSUME Loading, Kept, UNCHANGED <<loading, loaded>>, writes' \in 0..MaxWrites
  PROVE  Loading'
  <1>1. ASSUME NEW h \in Goroutines, loading'[h] # NIL
        PROVE  Going(loading[h])'
    <2>1. PICK l \in Loads : l = loading[h] /\ l = loading'[h] /\ Going(l)
      BY <1>1 DEF Loading
    <2>2. Going(l)'
      BY <2>1, GoingStays
    <2> QED
      BY <2>1, <2>2 DEF Going
  <1>2. ASSUME ReadAsWritten, NEW said \in loaded'
        PROVE  InForce(said)'
    <2>1. PICK x \in Texts : Parsed[x] # NIL /\ said = Says(x)
      BY <1>2 DEF Loading
    <2>2. InForce(Says(x))
      BY <1>2, <2>1 DEF Loading
    <2>3. InForce(Says(x))'
      BY <1>2, <2>1, <2>2, InForceStays
    <2> QED
      BY <2>1, <2>3 DEF InForce
  <1> QED
    BY <1>1, <1>2 DEF Loading

LEMMA Nothing ==
  ASSUME UNCHANGED <<specs, byPat>>
  PROVE  Kept
  BY DEF Kept

LEMMA StandStill ==
  ASSUME Tabled, Listed, UNCHANGED <<specs, byPat, binds>>
  PROVE  Tabled' /\ Listed'
  <1>1. Tabled'
    BY DEF Tabled
  <1>2. Listed'
    BY DEF Listed
  <1> QED
    BY <1>1, <1>2

LEMMA WriteCounts ==
  ASSUME Loading, Write
  PROVE  writes' \in 0..MaxWrites
  BY TableAssumption DEF Loading, Write

LEMMA RegisterKeeps ==
  ASSUME TInv, NEW s \in Specs, Register(s)
  PROVE  TInv' /\ Kept
  <1>1. s \in Policies
    BY DEF Policies
  <1>2. Tabled' /\ Listed' /\ Kept
    BY <1>1, SpecAdded DEF TInv, Register
  <1>3. Loading'
    BY <1>2, WriteCounts, LoadingStays DEF TInv, Register
  <1> QED
    BY <1>2, <1>3 DEF TInv

LEMMA BindKeeps ==
  ASSUME TInv, NEW b \in Bindings, Bind(b)
  PROVE  TInv' /\ Kept
  <1>1. Tabled' /\ Listed' /\ Kept
    BY BindingAdded DEF TInv, Bind
  <1>2. Loading'
    BY <1>1, WriteCounts, LoadingStays DEF TInv, Bind
  <1> QED
    BY <1>1, <1>2 DEF TInv

LEMMA LoadTextKeeps ==
  ASSUME TInv, NEW g \in Goroutines, NEW x \in Texts, LoadText(g, x)
  PROVE  TInv' /\ Kept
  <1>1. Tabled' /\ Listed' /\ Kept
    BY StandStill, Nothing DEF TInv, LoadText
  <1>2. PICK m : m = [text |-> x, specs |-> Parsed[x].specs, binds |-> Parsed[x].binds]
    OBVIOUS
  <1>3. Goes(g, m) /\ Parsed[x] # NIL /\ loaded' = loaded
    BY <1>2 DEF LoadText
  <1>4. m \in Loads
    BY <1>2, <1>3, ParsedIs DEF Loads
  <1>5. Going(m)'
    BY <1>2 DEF Going
  <1>6. Loading'
    BY <1>1, <1>3, <1>4, <1>5, WriteCounts, LoadingGoes DEF TInv, LoadText
  <1> QED
    BY <1>1, <1>6 DEF TInv

LEMMA HeadTail ==
  ASSUME NEW S, NEW s \in Seq(S), s # <<>>
  PROVE  /\ Head(s) \in S /\ Tail(s) \in Seq(S)
         /\ \A x \in Range(s) : x = Head(s) \/ x \in Range(Tail(s))
  <1>1. Head(s) \in S /\ Tail(s) \in Seq(S) /\ Len(s) \in Nat \ {0}
    OBVIOUS
  <1>2. ASSUME NEW x \in Range(s)
        PROVE  x = Head(s) \/ x \in Range(Tail(s))
    <2>1. PICK i \in 1..Len(s) : s[i] = x
      BY <1>2 DEF Range
    <2>2. CASE i = 1
      BY <2>1, <2>2
    <2>3. CASE i # 1
      <3>1. PICK t \in Seq(S) : t = Tail(s)
        BY <1>1
      <3>2. Len(t) = Len(s) - 1 /\ \A j \in 1..Len(t) : t[j] = s[j + 1]
        BY <3>1
      <3>3. PICK j \in 1..Len(t) : j = i - 1
        BY <1>1, <2>1, <2>3, <3>2
      <3>4. t[j] = x
        BY <2>1, <3>2, <3>3
      <3>5. x \in Range(t)
        BY <3>4 DEF Range
      <3> QED
        BY <3>1, <3>5
    <2> QED
      BY <2>2, <2>3
  <1> QED
    BY <1>1, <1>2

LEMMA LoadSpecKeeps ==
  ASSUME TInv, NEW g \in Goroutines, LoadSpec(g)
  PROVE  TInv' /\ Kept
  <1>1. PICK l \in Loads : l = loading[g] /\ l # NIL /\ Going(l) /\ l.specs # <<>>
    BY DEF LoadSpec, TInv, Loading
  <1>2. PICK s \in Policies : s = Head(l.specs)
    BY <1>1, HeadTail DEF Loads
  <1>3. writes' \in 0..MaxWrites /\ loaded' = loaded /\ UNCHANGED <<byPat, binds>>
    BY DEF LoadSpec, TInv, Loading
  <1>4. CASE Registrable(s) /\ AddSpec(s) /\ Goes(g, [l EXCEPT !.specs = Tail(@)])
    <2>1. Tabled' /\ Listed' /\ Kept /\ specs'[s.name] = s
      BY <1>3, <1>4, SpecAdded DEF TInv
    <2>2. PICK m : m = [l EXCEPT !.specs = Tail(@)]
      OBVIOUS
    <2>3. /\ m \in Loads /\ m.text = l.text /\ m.binds = l.binds /\ m.specs = Tail(l.specs)
      BY <1>1, <2>2, HeadTail DEF Loads
    <2>4. Going(l)'
      BY <1>1, <2>1, GoingStays
    <2>5. \A y \in Range(l.specs) : y = s \/ y \in Range(m.specs)
      BY <1>1, <1>2, <2>3, HeadTail DEF Loads
    <2>6. Going(m)'
      BY <2>1, <2>3, <2>4, <2>5 DEF Going
    <2>7. Loading'
      BY <1>3, <1>4, <2>1, <2>2, <2>3, <2>6, LoadingGoes DEF TInv
    <2> QED
      BY <2>1, <2>7 DEF TInv
  <1>5. CASE Goes(g, NIL) /\ UNCHANGED specs
    <2>1. Tabled' /\ Listed' /\ Kept
      BY <1>3, <1>5, StandStill, Nothing DEF TInv
    <2>2. Loading'
      BY <1>3, <1>5, <2>1, LoadingGoes DEF TInv
    <2> QED
      BY <2>1, <2>2 DEF TInv
  <1> QED
    BY <1>1, <1>2, <1>4, <1>5 DEF LoadSpec

LEMMA LoadBindKeeps ==
  ASSUME TInv, NEW g \in Goroutines, LoadBind(g)
  PROVE  TInv' /\ Kept
  <1>1. PICK l \in Loads : l = loading[g] /\ l # NIL /\ Going(l) /\ l.binds # <<>>
    BY DEF LoadBind, TInv, Loading
  <1>2. PICK b \in Bindings : b = Head(l.binds)
    BY <1>1, HeadTail DEF Loads
  <1>3. writes' \in 0..MaxWrites /\ loaded' = loaded /\ specs' = specs
    BY DEF LoadBind, TInv, Loading
  <1>4. CASE Bindable(b) /\ AddBinding(b) /\ Goes(g, [l EXCEPT !.binds = Tail(@)])
    <2>1. Tabled' /\ Listed' /\ Kept /\ byPat'[b.pattern] # NIL
      BY <1>3, <1>4, BindingAdded DEF TInv
    <2>2. PICK m : m = [l EXCEPT !.binds = Tail(@)]
      OBVIOUS
    <2>3. /\ m \in Loads /\ m.text = l.text /\ m.specs = l.specs /\ m.binds = Tail(l.binds)
      BY <1>1, <2>2, HeadTail DEF Loads
    <2>4. Going(l)'
      BY <1>1, <2>1, GoingStays
    <2>5. \A y \in Range(l.binds) : y = b \/ y \in Range(m.binds)
      BY <1>1, <1>2, <2>3, HeadTail DEF Loads
    <2>6. Going(m)'
      BY <2>1, <2>3, <2>4, <2>5 DEF Going
    <2>7. Loading'
      BY <1>3, <1>4, <2>1, <2>2, <2>3, <2>6, LoadingGoes DEF TInv
    <2> QED
      BY <2>1, <2>7 DEF TInv
  <1>5. CASE BindRefused(g, l) /\ UNCHANGED <<byPat, binds>>
    <2>1. Tabled' /\ Listed' /\ Kept
      BY <1>3, <1>5, StandStill, Nothing DEF TInv
    <2>2. Loading'
      BY <1>3, <1>5, <2>1, LoadingGoes DEF TInv, BindRefused
    <2> QED
      BY <2>1, <2>2 DEF TInv
  <1> QED
    BY <1>1, <1>2, <1>4, <1>5 DEF LoadBind

LEMMA LoadReturnsKeeps ==
  ASSUME TInv, NEW g \in Goroutines, LoadReturns(g)
  PROVE  TInv' /\ Kept
  <1>1. PICK l \in Loads : /\ l = loading[g] /\ Going(l)
                           /\ l.specs = <<>> /\ l.binds = <<>>
    BY DEF LoadReturns, TInv, Loading
  <1>2. /\ l.text \in Texts /\ Parsed[l.text] # NIL
        /\ loaded' = loaded \cup {Says(l.text)} /\ writes' \in 0..MaxWrites
        /\ UNCHANGED <<specs, byPat, binds>> /\ Goes(g, NIL)
    BY <1>1 DEF LoadReturns, TInv, Loading, Loads
  <1>3. Tabled' /\ Listed' /\ Kept
    BY <1>2, StandStill, Nothing DEF TInv
  <1>4. ASSUME NEW h \in Goroutines
        PROVE  loading'[h] \in Loads \cup {NIL} /\ (loading'[h] # NIL => Going(loading[h])')
    <2>1. CASE h = g
      BY <1>2, <2>1 DEF Goes, TInv, Loading
    <2>2. CASE h # g
      <3>1. loading'[h] = loading[h] /\ loading[h] \in Loads \cup {NIL}
        BY <1>2, <2>2 DEF Goes, TInv, Loading
      <3>2. ASSUME loading[h] # NIL PROVE Going(loading[h])'
        <4>1. Going(loading[h])
          BY <3>2 DEF TInv, Loading
        <4> QED
          BY <1>2, <3>1, <4>1 DEF Going
      <3> QED
        BY <3>1, <3>2
    <2> QED
      BY <2>1, <2>2
  <1>5. loading' \in [Goroutines -> Loads \cup {NIL}]
    <2>1. /\ loading' = [loading EXCEPT ![g] = NIL]
          /\ loading \in [Goroutines -> Loads \cup {NIL}]
      BY <1>2 DEF Goes, TInv, Loading
    <2> QED
      BY <2>1
  <1>6. \A said \in loaded' : \E x \in Texts : Parsed[x] # NIL /\ said = Says(x)
    BY <1>2 DEF TInv, Loading
  <1>7. ASSUME ReadAsWritten, NEW said \in loaded'
        PROVE  InForce(said)'
    <2>1. CASE said = Says(l.text)
      <3>1. Range(l.specs) = {} /\ Range(l.binds) = {}
        BY <1>1 DEF Range
      <3>2. said = Parsed[l.text]
        BY <1>2, <1>7, <2>1 DEF ReadAsWritten
      <3>3. InForce(said)
        BY <1>1, <3>1, <3>2 DEF Going, InForce
      <3> QED
        BY <1>2, <3>3 DEF InForce
    <2>2. CASE said \in loaded
      <3>1. InForce(said)
        BY <1>7, <2>2 DEF TInv, Loading
      <3> QED
        BY <1>2, <3>1 DEF InForce
    <2> QED
      BY <1>2, <2>1, <2>2
  <1>8. Loading'
    BY <1>2, <1>4, <1>5, <1>6, <1>7 DEF Loading
  <1> QED
    BY <1>3, <1>8 DEF TInv

-----------------------------------------------------------------------------
(* The table as the engine's quota calls use it.                           *)

LEMMA TableKeeps ==
  ASSUME TInv, TableNext
  PROVE  TInv' /\ Kept
  BY RegisterKeeps, BindKeeps, LoadTextKeeps, LoadSpecKeeps, LoadBindKeeps, LoadReturnsKeeps
     DEF TableNext

LEMMA TableStands ==
  ASSUME TInv, UNCHANGED tableVars
  PROVE  TInv' /\ Kept
  <1>1. UNCHANGED <<specs, byPat, binds, loading, loaded, writes>>
    BY DEF tableVars
  <1>2. Tabled' /\ Listed' /\ Kept
    BY <1>1, StandStill, Nothing DEF TInv
  <1>3. Loading'
    BY <1>1, <1>2, LoadingStays DEF TInv, Loading
  <1> QED
    BY <1>2, <1>3 DEF TInv

LEMMA TableStep ==
  ASSUME TInv, [Next]_vars
  PROVE  TInv' /\ Kept
  <1>1. CASE UNCHANGED vars \/ QuotaNext
    <2>1. UNCHANGED tableVars
      BY <1>1 DEF vars, QuotaNext, CallCharge, CallRefund, CallOther, Call, Charge, Refund,
                  PeekQuota, ResetQuota, Returns
    <2> QED
      BY <2>1, TableStands
  <1>2. CASE TableNext
    BY <1>2, TableKeeps
  <1> QED
    BY <1>1, <1>2 DEF Next

LEMMA InitTable ==
  ASSUME TableInit
  PROVE  TInv
  <1>1. Tabled
    BY DEF TableInit, Tabled
  <1>2. Listed
    BY DEF TableInit, Listed
  <1>3. Loading
    BY TableAssumption DEF TableInit, Loading
  <1> QED
    BY <1>1, <1>2, <1>3 DEF TInv

LEMMA TableHolds == Spec => []TInv
  <1>1. Init => TInv
    BY InitTable DEF Init
  <1>2. TInv /\ [Next]_vars => TInv'
    BY TableStep
  <1> QED
    BY <1>1, <1>2, PTL DEF Spec

-----------------------------------------------------------------------------
(* What a key resolves to.                                                 *)

LEMMA HitsIs ==
  ASSUME Tabled, NEW p
  PROVE  Hits(p) <=> p \in Patterns /\ byPat[p] # NIL
  BY DEF Tabled, Hits

LEMMA ResolveIs ==
  ASSUME Tabled, NEW k \in Keys
  PROVE  \/ /\ \A i \in 1..Len(Chain[k]) : ~Hits(Chain[k][i])
            /\ Resolve(k).ok <=> specs[DefaultName] # NIL
            /\ Resolve(k).ok => Resolve(k).spec = specs[DefaultName]
         \/ \E i \in 1..Len(Chain[k]) :
              /\ Hits(Chain[k][i])
              /\ \A j \in 1..(i - 1) : ~Hits(Chain[k][j])
              /\ Resolve(k) = [ok |-> TRUE, spec |-> specs[byPat[Chain[k][i]]],
                               pattern |-> Chain[k][i]]
  <1>1. PICK c, n : c = Chain[k] /\ n = Len(c) /\ n \in Nat
    BY ChainIs
  <1> DEFINE I == {i \in 1..n : Hits(c[i])}
  <1>2. PICK hit : hit = IF I # {} THEN Min(I) ELSE 0
    OBVIOUS
  <1>3. SelectInSeq(c, Hits) = hit
    BY <1>1, <1>2 DEF SelectInSeq
  <1>4. Resolve(k) = LET name == IF hit > 0 THEN byPat[c[hit]] ELSE DefaultName
                     IN IF specs[name] = NIL THEN [ok |-> FALSE]
                        ELSE [ok |-> TRUE, spec |-> specs[name],
                              pattern |-> IF hit > 0 THEN c[hit] ELSE Level(k, 0)]
    BY <1>1, <1>3 DEF Resolve
  <1>5. CASE I = {}
    <2>1. hit = 0 /\ \A i \in 1..n : ~Hits(c[i])
      BY <1>2, <1>5
    <2> QED
      BY <1>1, <1>4, <2>1
  <1>6. CASE I # {}
    <2>1. I \in SUBSET Nat
      OBVIOUS
    <2>2. \E x \in I : \A y \in I : x <= y
      BY <1>6, <2>1, LeastNumber
    <2>3. Min(I) \in I /\ \A y \in I : Min(I) <= y
      <3> HIDE DEF I
      <3> QED
        BY <2>2 DEF Min
    <2>4. hit \in I /\ \A y \in I : hit <= y
      BY <1>2, <1>6, <2>3
    <2>5. hit \in 1..n /\ Hits(c[hit]) /\ \A j \in 1..(hit - 1) : ~Hits(c[j])
      <3>1. hit \in 1..n /\ Hits(c[hit])
        BY <2>4
      <3>2. ASSUME NEW j \in 1..(hit - 1), Hits(c[j])
            PROVE  FALSE
        <4>1. j \in 1..n
          BY <1>1, <3>1, <3>2
        <4>2. j \in I
          BY <3>2, <4>1
        <4>3. hit <= j
          BY <2>4, <4>2
        <4> QED
          BY <1>1, <3>1, <3>2, <4>3
      <3> QED
        BY <3>1, <3>2
    <2>6. c[hit] \in Patterns /\ byPat[c[hit]] # NIL /\ specs[byPat[c[hit]]] # NIL
      BY <2>5 DEF Hits
    <2>7. Resolve(k) = [ok |-> TRUE, spec |-> specs[byPat[c[hit]]], pattern |-> c[hit]]
      <3>1. hit > 0
        BY <1>1, <2>5
      <3>2. PICK name : name = byPat[c[hit]] /\ specs[name] # NIL
        BY <2>6
      <3> QED
        BY <1>4, <3>1, <3>2
    <2> QED
      BY <1>1, <2>5, <2>7
  <1> QED
    BY <1>5, <1>6

BoundTo(k) == {p \in Fitting[k] : byPat[p] # NIL}

LEMMA MostSpecificIs ==
  ASSUME Tabled, NEW k \in Keys
  PROVE  IF BoundTo(k) = {} THEN IF Resolve(k).ok THEN Resolve(k).spec = specs[DefaultName]
                                             ELSE specs[DefaultName] = NIL
         ELSE \E p \in BoundTo(k) :
                /\ Resolve(k) = [ok |-> TRUE, pattern |-> p, spec |-> specs[byPat[p]]]
                /\ \A q \in BoundTo(k) \ {p} : MoreSpecific(p, q)
  <1>0. PICK bound : bound = BoundTo(k)
    OBVIOUS
  <1>1. PICK c, n, s : c = Chain[k] /\ n = Len(c) /\ s = Levels(k) /\ n \in Nat
    BY ChainIs
  <1>2. /\ Len(s) = n /\ \A i \in 1..n : c[i] = Level(k, s[i]) /\ s[i] \in LevelsOf(k)
        /\ \A m \in LevelsOf(k) : \E i \in 1..n : s[i] = m
        /\ \A i, j \in 1..n : i < j => s[i] > s[j]
    BY <1>1, ChainIs, LevelsAre DEF Descends
  <1>3. /\ bound \subseteq Patterns
        /\ \A p \in Patterns : p \in bound <=> p \in Fitting[k] /\ byPat[p] # NIL
    BY <1>0 DEF Fitting, BoundTo
  <1>4. ASSUME NEW i \in 1..n
        PROVE  Hits(c[i]) <=> c[i] \in bound
    <2>1. ASSUME c[i] \in Patterns
          PROVE  c[i] \in Fitting[k]
      BY <1>2, <2>1, FittingIs
    <2> QED
      BY <1>3, <2>1, HitsIs
  <1>5. ASSUME NEW q \in bound
        PROVE  \E i \in 1..n : c[i] = q /\ Hits(c[i])
    <2>1. PICK m \in LevelsOf(k) : q = Level(k, m)
      BY <1>3, <1>5, FittingIs
    <2>2. PICK i \in 1..n : s[i] = m
      BY <1>2
    <2> QED
      BY <1>2, <1>4, <1>5, <2>1, <2>2
  <1>6. ASSUME \A i \in 1..n : ~Hits(c[i]),
               Resolve(k).ok <=> specs[DefaultName] # NIL,
               Resolve(k).ok => Resolve(k).spec = specs[DefaultName]
        PROVE  bound = {} /\ (IF Resolve(k).ok THEN Resolve(k).spec = specs[DefaultName]
                                               ELSE specs[DefaultName] = NIL)
    BY <1>5, <1>6
  <1>7. ASSUME NEW i \in 1..n, Hits(c[i]), \A j \in 1..(i - 1) : ~Hits(c[j]),
               Resolve(k) = [ok |-> TRUE, spec |-> specs[byPat[c[i]]], pattern |-> c[i]]
        PROVE  \E p \in bound :
                 /\ Resolve(k) = [ok |-> TRUE, pattern |-> p, spec |-> specs[byPat[p]]]
                 /\ \A q \in bound \ {p} : MoreSpecific(p, q)
    <2>1. c[i] \in bound
      BY <1>4, <1>7
    <2>2. ASSUME NEW q \in bound \ {c[i]}
          PROVE  MoreSpecific(c[i], q)
      <3>1. PICK j \in 1..n : c[j] = q /\ Hits(c[j])
        BY <1>5, <2>2
      <3>2. i < j
        BY <1>7, <2>2, <3>1
      <3>3. s[i] > s[j]
        BY <1>2, <3>2
      <3>4. s[j] < s[i] /\ s[i] \in LevelsOf(k) /\ s[j] \in LevelsOf(k)
        <4>1. s[i] \in 0..3 /\ s[j] \in 0..3
          BY <1>2, LevelIs
        <4> QED
          BY <1>2, <3>3, <4>1
      <3> QED
        BY <1>2, <3>1, <3>4, LevelsRank
    <2> QED
      BY <1>7, <2>1, <2>2
  <1> QED
    BY <1>0, <1>1, <1>6, <1>7, ResolveIs

\* Whatever was registered, bound and loaded, a key has the policy of the most
\* specific pattern that matches it and has one (fallback.go:3), by the order of
\* MoreSpecific (fallback.go:74), and otherwise the default one: the chain is
\* just the patterns that fit the key, the more specific first.
THEOREM MostSpecificHolds == Spec => []MostSpecific
  <1>1. ASSUME TInv, NEW k \in Keys
        PROVE  LET r == Resolve(k)
                   bound == {p \in Fitting[k] : byPat[p] # NIL}
               IN IF bound = {} THEN IF r.ok THEN r.spec = specs[DefaultName]
                                             ELSE specs[DefaultName] = NIL
                  ELSE \E p \in bound :
                         /\ r = [ok |-> TRUE, pattern |-> p, spec |-> specs[byPat[p]]]
                         /\ \A q \in bound \ {p} : MoreSpecific(p, q)
    BY <1>1, MostSpecificIs DEF TInv, BoundTo
  <1>2. TInv => MostSpecific
    BY <1>1 DEF MostSpecific
  <1> QED
    BY <1>2, TableHolds, PTL

\* A text that was loaded without an error is in force, whoever else registered
\* or loaded at the same time (table.go:156).
THEOREM LoadedInForceHolds ==
  ASSUME ReadAsWritten
  PROVE  Spec => []LoadedInForce
  <1>1. TInv => LoadedInForce
    BY DEF TInv, Loading, InForce, LoadedInForce
  <1> QED
    BY <1>1, TableHolds, PTL

\* No step of any call takes a key further down its chain, or off its end.
THEOREM NeverFallsBackHolds == Spec => NeverFallsBack
  <1>1. ASSUME TInv, [Next]_vars
        PROVE  /\ specs[DefaultName] # NIL => specs'[DefaultName] # NIL
               /\ \A k \in Keys :
                    \A i \in 1..Len(Chain[k]) :
                      Hits(Chain[k][i]) => \E j \in 1..i : Hits(Chain[k][j])'
    <2>1. Kept /\ Tabled /\ Tabled'
      BY <1>1, TableStep DEF TInv
    <2>2. ASSUME NEW p, Hits(p)
          PROVE  Hits(p)'
      BY <2>1, <2>2 DEF Kept, Hits, Tabled
    <2>3. DefaultName \in Names
      BY TableAssumption
    <2>4. ASSUME NEW k \in Keys, NEW i \in 1..Len(Chain[k]), Hits(Chain[k][i])
          PROVE  \E j \in 1..i : Hits(Chain[k][j])'
      <3>1. i \in 1..i
        OBVIOUS
      <3>2. Hits(Chain[k][i])'
        BY <2>2, <2>4
      <3> QED
        BY <3>1, <3>2
    <2> QED
      BY <2>1, <2>3, <2>4 DEF Kept
  <1>2. TInv /\ [Next]_vars =>
          [<<specs, byPat>>' # <<specs, byPat>> =>
             /\ specs[DefaultName] # NIL => specs'[DefaultName] # NIL
             /\ \A k \in Keys :
                  \A i \in 1..Len(Chain[k]) :
                    Hits(Chain[k][i]) => \E j \in 1..i : Hits(Chain[k][j])']_tableVars
    BY <1>1
  <1> QED
    BY <1>2, TableHolds, PTL DEF Spec, NeverFallsBack

-----------------------------------------------------------------------------
(* Ledgers.                                                                *)

\* What is on a tenant's line,
UsedOf(l, t) == IF l.accounts[t] = NIL THEN 0 ELSE l.accounts[t].used

\* the receipts of a tenant that are not given back,
Owed(l, t) ==
  [i \in 1..Len(l.receipts) |->
     IF l.receipts[i].tenant = t /\ ~l.receipts[i].refunded THEN l.receipts[i].units ELSE 0]

\* and that they come to m.
Owes(l, t, m) == AddsUp(Owed(l, t), Len(l.receipts), m)

\* Every line is on the plan's current period.
Straight(l) ==
  \A t \in Tenants : l.accounts[t] # NIL => l.accounts[t].start = Align(Now, l.plan.period)

Receipts == [tenant: Tenants, units: Units, refunded: BOOLEAN]

LEMMA LedgerIs ==
  ASSUME NEW l \in Ledgers
  PROVE  /\ l # NIL /\ l.plan \in Plans64
         /\ l.plan.debt \in BOOLEAN /\ l.plan.hard \in 0..MaxI64 /\ l.plan.period \in Nat \ {0}
         /\ l.accounts \in [Tenants -> States \cup {NIL}] /\ l.receipts \in Seq(Receipts)
         /\ Len(l.receipts) \in Nat
         /\ \A t \in Tenants : l.accounts[t] # NIL => l.accounts[t] \in States
         /\ \A i \in 1..Len(l.receipts) :
              /\ l.receipts[i] \in Receipts /\ l.receipts[i].tenant \in Tenants
              /\ l.receipts[i].units \in Units /\ l.receipts[i].refunded \in BOOLEAN
  <1>1. /\ l.plan \in Plans64 /\ l.accounts \in [Tenants -> States \cup {NIL}]
        /\ l.receipts \in Seq(Receipts) /\ l # NIL
    BY LedgerAssumption DEF Ledgers, Receipts
  <1>2. \A i \in 1..Len(l.receipts) : l.receipts[i] \in Receipts
    BY <1>1
  <1> QED
    BY <1>1, <1>2 DEF Receipts, Plans64

LEMMA UnitIs ==
  ASSUME NEW u \in Units
  PROVE  u \in 1..MaxI64 /\ u \in Nat /\ u > 0
  BY QuotaAssumption, MaxI64Fits

LEMMA ZeroAmount == 0 \in Amounts
  BY MaxI64Fits DEF Amounts, MinI64

LEMMA OpenIs ==
  ASSUME NEW p \in Plans64
  PROVE  /\ Open(p, Now) \in States
         /\ Open(p, Now).used = 0 /\ Open(p, Now).debt = p.debt /\ Open(p, Now).hard = p.hard
         /\ Open(p, Now).start = Align(Now, p.period)
  <1>1. Align(Now, p.period) \in Int
    <2>1. p.period \in Nat \ {0} /\ Now \in Int
      BY DEF Plans64, Now
    <2>2. GoRem(Now, p.period) \in Int
      BY <2>1, GoRemType
    <2> QED
      BY <2>1, <2>2 DEF Align
  <1> QED
    BY <1>1, ZeroAmount DEF Open, States, Plans64

\* The line every call finds: nothing is wiped, and the plan is the ledger's.
LEMMA LineIs ==
  ASSUME NEW l \in Ledgers, Straight(l), NEW t \in Tenants
  PROVE  LET a == AccountLocked(l, t) IN
         /\ a \in States /\ a.debt = l.plan.debt /\ a.hard = l.plan.hard
         /\ a.start = Align(Now, l.plan.period) /\ a.used = UsedOf(l, t)
  <1>1. l.plan \in Plans64
    BY LedgerIs
  <1>2. CASE l.accounts[t] = NIL
    BY <1>1, <1>2, OpenIs DEF AccountLocked, UsedOf
  <1>3. CASE l.accounts[t] # NIL
    <2>1. l.accounts[t] \in States /\ l.accounts[t].start = Align(Now, l.plan.period)
      BY <1>3, LedgerIs DEF Straight
    <2>2. PICK f \in States : f = Open(l.plan, Now)
      BY <1>1, OpenIs
    <2>3. AccountLocked(l, t) = [f EXCEPT !.used = l.accounts[t].used]
      BY <1>1, <1>3, <2>1, <2>2, OpenIs DEF AccountLocked, Refresh
    <2>4. /\ f.debt = l.plan.debt /\ f.hard = l.plan.hard
          /\ f.start = Align(Now, l.plan.period)
      BY <1>1, <2>2, OpenIs
    <2> QED
      BY <1>3, <2>1, <2>2, <2>3, <2>4 DEF States, UsedOf
  <1> QED
    BY <1>2, <1>3

\* A line of the ledger is written, or removed.
LEMMA LineWritten ==
  ASSUME NEW l \in Ledgers, Straight(l), NEW t \in Tenants,
         NEW a, a = NIL \/ (a \in States /\ a.start = Align(Now, l.plan.period)),
         NEW m, m = [l EXCEPT !.accounts[t] = a]
  PROVE  /\ m \in Ledgers /\ Straight(m) /\ m.plan = l.plan /\ m.receipts = l.receipts
         /\ UsedOf(m, t) = (IF a = NIL THEN 0 ELSE a.used)
         /\ \A x \in Tenants : x # t => UsedOf(m, x) = UsedOf(l, x)
  <1>1. PICK as : as = [l.accounts EXCEPT ![t] = a]
    OBVIOUS
  <1>2. m = [l EXCEPT !.accounts = as]
    BY <1>1
  <1>3. l.accounts \in [Tenants -> States \cup {NIL}]
    BY LedgerIs
  <1>4. as \in [Tenants -> States \cup {NIL}]
    BY <1>1, <1>3
  <1>5. m \in Ledgers /\ m.accounts = as /\ m.plan = l.plan /\ m.receipts = l.receipts
    BY <1>2, <1>4 DEF Ledgers
  <1>6. as[t] = a /\ \A x \in Tenants : x # t => as[x] = l.accounts[x]
    BY <1>1, <1>3
  <1>7. Straight(m)
    BY <1>5, <1>6 DEF Straight
  <1>8. UsedOf(m, t) = (IF a = NIL THEN 0 ELSE a.used)
    <2>1. m.accounts[t] = a
      BY <1>5, <1>6
    <2>2. CASE a = NIL
      BY <2>1, <2>2 DEF UsedOf
    <2>3. CASE a # NIL
      BY <2>1, <2>3 DEF UsedOf
    <2> QED
      BY <2>2, <2>3
  <1>9. ASSUME NEW x \in Tenants, x # t
        PROVE  UsedOf(m, x) = UsedOf(l, x)
    BY <1>5, <1>6, <1>9 DEF UsedOf
  <1> QED
    BY <1>5, <1>7, <1>8, <1>9

\* A receipt is put on record.
WithReceipt(l, t, u) ==
  [l EXCEPT !.receipts = Append(@, [tenant |-> t, units |-> u, refunded |-> FALSE])]

LEMMA ReceiptKept ==
  ASSUME NEW l \in Ledgers, Straight(l), NEW t \in Tenants, NEW u \in Units,
         NEW m, m = WithReceipt(l, t, u)
  PROVE  /\ m \in Ledgers /\ Straight(m) /\ m.plan = l.plan /\ m.accounts = l.accounts
         /\ Len(m.receipts) = Len(l.receipts) + 1
         /\ m.receipts[Len(l.receipts) + 1].tenant = t
         /\ \A i \in 1..Len(l.receipts) : m.receipts[i] = l.receipts[i]
         /\ \A x \in Tenants, y \in Nat : Owes(l, x, y) => Owes(m, x, IF x = t THEN y + u ELSE y)
  <1>1. PICK r : r = [tenant |-> t, units |-> u, refunded |-> FALSE]
    OBVIOUS
  <1>2. r \in Receipts /\ r.tenant = t /\ r.units = u /\ r.refunded = FALSE
    BY <1>1 DEF Receipts
  <1>3. PICK rs, n : rs = l.receipts /\ n = Len(rs)
    OBVIOUS
  <1>4. rs \in Seq(Receipts) /\ n \in Nat
    BY <1>3, LedgerIs
  <1>5. PICK qs : qs = Append(rs, r)
    OBVIOUS
  <1>6. /\ qs \in Seq(Receipts) /\ Len(qs) = n + 1 /\ qs[n + 1] = r
        /\ \A i \in 1..n : qs[i] = rs[i]
    BY <1>2, <1>3, <1>4, <1>5
  <1>7. m = [l EXCEPT !.receipts = qs]
    BY <1>1, <1>3, <1>5 DEF WithReceipt
  <1>8. m \in Ledgers /\ m.receipts = qs /\ m.plan = l.plan /\ m.accounts = l.accounts
    BY <1>6, <1>7 DEF Ledgers, Receipts
  <1>9. Straight(m)
    BY <1>8 DEF Straight
  <1>10. ASSUME NEW x \in Tenants, NEW y \in Nat, Owes(l, x, y)
         PROVE  Owes(m, x, IF x = t THEN y + u ELSE y)
    <2>1. PICK w, v : w = Owed(l, x) /\ v = Owed(m, x)
      OBVIOUS
    <2>2. AddsUp(w, n, y)
      BY <1>3, <1>10, <2>1 DEF Owes
    <2>3. PICK c : c = IF x = t THEN u ELSE 0
      OBVIOUS
    <2>4. c \in Nat
      BY <2>3, UnitIs
    <2>5. n + 1 \in 1..(n + 1) /\ \A i \in 1..n : i \in 1..(n + 1)
      BY <1>4
    <2>6. v[n + 1] = c /\ \A i \in 1..n : v[i] = w[i]
      BY <1>2, <1>3, <1>6, <1>8, <2>1, <2>3, <2>5 DEF Owed
    <2>7. AddsUp(v, n + 1, y + c)
      BY <1>4, <2>2, <2>4, <2>6, AddsUpMore
    <2>8. Owes(m, x, y + c)
      BY <1>6, <1>8, <2>1, <2>7 DEF Owes
    <2>9. (IF x = t THEN y + u ELSE y) = y + c
      BY <2>3
    <2> QED
      BY <2>8, <2>9
  <1> QED
    BY <1>2, <1>3, <1>6, <1>8, <1>9, <1>10

\* A receipt is given back.
WithRefund(l, id) == [l EXCEPT !.receipts[id].refunded = TRUE]

LEMMA ReceiptGivenBack ==
  ASSUME NEW l \in Ledgers, Straight(l), NEW id \in 1..Len(l.receipts),
         NEW r, r = l.receipts[id], ~r.refunded,
         NEW m, m = WithRefund(l, id)
  PROVE  /\ m \in Ledgers /\ Straight(m) /\ m.plan = l.plan /\ m.accounts = l.accounts
         /\ Len(m.receipts) = Len(l.receipts)
         /\ \A i \in 1..Len(l.receipts) : m.receipts[i].tenant = l.receipts[i].tenant
         /\ \A x \in Tenants, y \in Nat : Owes(l, x, y) =>
              IF x = r.tenant THEN r.units <= y /\ Owes(m, x, y - r.units) ELSE Owes(m, x, y)
  <1>1. PICK rs, n : rs = l.receipts /\ n = Len(rs)
    OBVIOUS
  <1>2. rs \in Seq(Receipts) /\ n \in Nat /\ id \in 1..n /\ r = rs[id]
    BY <1>1, LedgerIs
  <1>3. r \in Receipts /\ r.units \in Nat
    <2>1. r \in Receipts
      BY <1>1, <1>2
    <2>2. r.units \in Units
      BY <2>1 DEF Receipts
    <2> QED
      BY <2>1, <2>2, UnitIs
  <1>4. PICK s : s = [r EXCEPT !.refunded = TRUE]
    OBVIOUS
  <1>5. s \in Receipts /\ s.tenant = r.tenant /\ s.units = r.units /\ s.refunded = TRUE
    BY <1>3, <1>4 DEF Receipts
  <1>6. PICK qs : qs = [rs EXCEPT ![id] = s]
    OBVIOUS
  <1>7. /\ qs \in Seq(Receipts) /\ Len(qs) = n /\ qs[id] = s
        /\ \A i \in 1..n : i # id => qs[i] = rs[i]
    BY <1>1, <1>2, <1>5, <1>6
  <1>8. m = [l EXCEPT !.receipts = qs]
    BY <1>1, <1>2, <1>4, <1>6 DEF WithRefund
  <1>9. m \in Ledgers /\ m.receipts = qs /\ m.plan = l.plan /\ m.accounts = l.accounts
    BY <1>7, <1>8 DEF Ledgers, Receipts
  <1>10. Straight(m)
    BY <1>9 DEF Straight
  <1>11. ASSUME NEW x \in Tenants, NEW y \in Nat, Owes(l, x, y)
         PROVE  IF x = r.tenant THEN r.units <= y /\ Owes(m, x, y - r.units) ELSE Owes(m, x, y)
    <2>1. PICK w, v : w = Owed(l, x) /\ v = Owed(m, x)
      OBVIOUS
    <2>2. AddsUp(w, n, y)
      BY <1>1, <1>11, <2>1 DEF Owes
    <2>3. \A i \in 1..n :
            /\ w[i] = IF rs[i].tenant = x /\ ~rs[i].refunded THEN rs[i].units ELSE 0
            /\ v[i] = IF qs[i].tenant = x /\ ~qs[i].refunded THEN qs[i].units ELSE 0
      BY <1>1, <1>7, <1>9, <2>1 DEF Owed
    <2>4. \A i \in 1..n : i # id => v[i] = w[i]
      BY <1>7, <2>3
    <2>5. v[id] = 0
      BY <1>2, <1>5, <1>7, <2>3
    <2>6. CASE x = r.tenant
      <3>1. w[id] = r.units
        BY <1>2, <2>3, <2>6
      <3>2. \A i \in 1..n : w[i] \in Nat
        BY <2>2 DEF AddsUp
      <3>3. r.units <= y /\ AddsUp(v, n, y - r.units)
        BY <1>2, <1>3, <2>2, <2>4, <2>5, <3>1, <3>2, AddsUpLess
      <3> QED
        BY <1>7, <1>9, <2>1, <2>6, <3>3 DEF Owes
    <2>7. CASE x # r.tenant
      <3>1. w[id] = 0
        BY <1>2, <2>3, <2>7
      <3>2. \A i \in 1..n : v[i] = w[i]
        BY <2>4, <2>5, <3>1
      <3>3. AddsUp(v, n, y)
        BY <1>2, <2>2, <3>2, AddsUpSame
      <3> QED
        BY <1>7, <1>9, <2>1, <2>7, <3>3 DEF Owes
    <2> QED
      BY <2>6, <2>7
  <1> QED
    BY <1>1, <1>5, <1>7, <1>2, <1>9, <1>10, <1>11

-----------------------------------------------------------------------------
(* Types of the calls and the ledgers.                                     *)

Nets == [Names -> [Tenants -> Nat]]

Counts == [Names -> [Tenants -> 0..MaxResets]]

Handout == [tenant: Tenants, id: Nat \ {0}, back: Nat]

Handouts == Seq(Handout)

\* A call under way has the policy that has its name, and shows a receipt of
\* its tenant.
Called(c) ==
  /\ specs[c.spec.name] = c.spec /\ c.spec.quota # NIL
  /\ c.op = "refund" => c.shown \in 1..Len(paid) /\ paid[c.shown].tenant = c.tenant

\* The receipt p is one of the ledger l.
Shows(l, p) == p.id <= Len(l.receipts) /\ l.receipts[p.id].tenant = p.tenant

\* A ledger is on its policy's plan, and its receipts come to what is charged.
Kosher(n) ==
  IF ledgers[n] = NIL THEN \A t \in Tenants : net[n][t] = 0
  ELSE /\ Straight(ledgers[n])
       /\ specs[n] # NIL /\ ledgers[n].plan = specs[n].quota
       /\ \A t \in Tenants : Owes(ledgers[n], t, net[n][t])

QTyped ==
  /\ ledgers \in [Names -> Ledgers \cup {NIL}]
  /\ calling \in [Goroutines -> Calls \cup {NIL}]
  /\ paid \in Handouts /\ Len(paid) <= MaxPaid
  /\ net \in Nets /\ resets \in Counts
  /\ \A n \in Names : Kosher(n)
  /\ \A g \in Goroutines : calling[g] # NIL => Called(calling[g])
  /\ \A i \in 1..Len(paid) : \E n \in Names : ledgers[n] # NIL /\ Shows(ledgers[n], paid[i])

\* The ledger a call on the policy n uses, found or made.
Found(n, l) ==
  /\ l \in Ledgers /\ Straight(l)
  /\ specs[n] # NIL /\ l.plan = specs[n].quota
  /\ \A t \in Tenants : Owes(l, t, net[n][t])
  /\ ledgers[n] # NIL => l = ledgers[n]
  /\ ledgers[n] = NIL => \A t \in Tenants : UsedOf(l, t) = 0

\* A call leaves the ledger m of the policy n where it found l: what it may
\* do besides to the tenant t is in Verdict.
Settled(g, n, t, l, m) ==
  /\ Found(n, l)
  /\ m \in Ledgers /\ Straight(m) /\ m.plan = l.plan
  /\ ledgers' = [ledgers EXCEPT ![n] = m]
  /\ calling' = [calling EXCEPT ![g] = NIL]
  /\ UNCHANGED tableVars
  /\ \A x \in Tenants : x # t => UsedOf(m, x) = UsedOf(l, x)
  /\ Len(l.receipts) <= Len(m.receipts)
  /\ \A i \in 1..Len(l.receipts) : m.receipts[i].tenant = l.receipts[i].tenant
  /\ net' \in Nets /\ resets' \in Counts
  /\ \A x \in Names, y \in Tenants :
       x # n \/ y # t => net'[x][y] = net[x][y] /\ resets'[x][y] = resets[x][y]
  /\ \A x \in Tenants : Owes(m, x, net'[n][x])
  /\ paid' \in Handouts /\ Len(paid) <= Len(paid') /\ Len(paid') <= MaxPaid
  /\ \A i \in 1..Len(paid) : paid'[i].id = paid[i].id /\ paid'[i].tenant = paid[i].tenant
  /\ \A i \in 1..Len(paid') : i <= Len(paid) \/ Shows(m, paid'[i])

\* Nothing, a charge, a refund, or a reset.
Verdict(n, t, l, m) ==
  LET a == UsedOf(l, t)
      b == UsedOf(m, t)
  IN \/ b = a /\ net'[n][t] = net[n][t] /\ resets'[n][t] = resets[n][t]
     \/ \E u \in Units :
          /\ Len(paid') = Len(paid) + 1
          /\ net'[n][t] = net[n][t] + u /\ resets'[n][t] = resets[n][t]
          /\ b = Wrap(a + u)
          /\ ~l.plan.debt => Wrap(a + u) <= l.plan.hard
     \/ \E u \in Units :
          /\ u <= net[n][t]
          /\ net'[n][t] = net[n][t] - u /\ resets'[n][t] = resets[n][t]
          /\ b = IF ~l.plan.debt /\ Wrap(a - u) < 0 THEN 0 ELSE Wrap(a - u)
     \/ b = 0 /\ net'[n][t] = net[n][t] /\ resets'[n][t] = resets[n][t] + 1

Outcome(g) ==
  \E n \in Names, t \in Tenants, l \in Ledgers, m \in Ledgers :
    Settled(g, n, t, l, m) /\ Verdict(n, t, l, m)

LEMMA CallIs ==
  ASSUME NEW c \in Calls
  PROVE  /\ c.tenant \in Tenants /\ c.spec \in Policies /\ c.spec.name \in Names
         /\ c.op = "charge" => c.units \in Units
         /\ c.op = "refund" => c.shown \in Nat
  <1>1. CASE c \in [op: {"charge"}, tenant: Tenants, units: Units, spec: Policies]
    BY <1>1, TableAssumption
  <1>2. CASE c \in [op: {"refund"}, tenant: Tenants, shown: Nat, spec: Policies]
    BY <1>2, TableAssumption
  <1>3. CASE c \in [op: {"peek", "reset"}, tenant: Tenants, spec: Policies]
    BY <1>3, TableAssumption
  <1> QED
    BY <1>1, <1>2, <1>3 DEF Calls

LEMMA NewLedgerIs ==
  ASSUME NEW s \in Policies, s.quota # NIL
  PROVE  /\ NewLedger(s) \in Ledgers /\ Straight(NewLedger(s))
         /\ NewLedger(s).plan = s.quota
         /\ \A t \in Tenants : UsedOf(NewLedger(s), t) = 0 /\ Owes(NewLedger(s), t, 0)
  <1>1. PICK l : l = NewLedger(s)
    OBVIOUS
  <1>2. s.quota \in Plans64
    BY QuotaAssumption
  <1>3. /\ l.plan = s.quota /\ l.accounts = [t \in Tenants |-> NIL] /\ l.receipts = <<>>
        /\ l = [plan |-> s.quota, accounts |-> [t \in Tenants |-> NIL], receipts |-> <<>>]
    BY <1>1 DEF NewLedger
  <1>4. l \in Ledgers
    BY <1>2, <1>3 DEF Ledgers
  <1>5. \A t \in Tenants : UsedOf(l, t) = 0
    BY <1>3 DEF UsedOf
  <1>6. \A t \in Tenants : Owes(l, t, 0)
    BY <1>3, AddsUpNone DEF Owes
  <1> QED
    BY <1>1, <1>3, <1>4, <1>5, <1>6 DEF Straight

LEMMA LedgerFound ==
  ASSUME QTyped, NEW c \in Calls, Called(c), NEW n, n = c.spec.name, NEW l, l = LedgerFor(c.spec)
  PROVE  n \in Names /\ Found(n, l)
  <1>1. n \in Names /\ c.spec \in Policies
    BY CallIs
  <1>2. specs[n] = c.spec /\ c.spec.quota # NIL /\ c.spec # NIL
    BY <1>1, TableAssumption DEF Called
  <1>3. Kosher(n) /\ (ledgers[n] # NIL => ledgers[n] \in Ledgers)
    BY <1>1 DEF QTyped
  <1>4. CASE ledgers[n] = NIL
    <2>1. l = NewLedger(c.spec)
      BY <1>4 DEF LedgerFor
    <2>2. \A t \in Tenants : net[n][t] = 0
      BY <1>3, <1>4 DEF Kosher
    <2> QED
      BY <1>1, <1>2, <1>4, <2>1, <2>2, NewLedgerIs DEF Found
  <1>5. CASE ledgers[n] # NIL
    <2>1. l = ledgers[n]
      BY <1>5 DEF LedgerFor
    <2> QED
      BY <1>1, <1>3, <1>5, <2>1 DEF Kosher, Found
  <1> QED
    BY <1>4, <1>5

\* A line with another amount.
LEMMA AmountSet ==
  ASSUME NEW a \in States, NEW x \in Amounts
  PROVE  LET b == [a EXCEPT !.used = x] IN b \in States /\ b.used = x /\ b.start = a.start
  BY DEF States

LEMMA WrapIs ==
  ASSUME NEW x \in Int
  PROVE  Wrap(x) \in Amounts
  BY WrappedType DEF Wrap, Amounts, MinI64

LEMMA AmountIs ==
  ASSUME NEW l \in Ledgers, NEW t \in Tenants
  PROVE  UsedOf(l, t) \in Amounts /\ UsedOf(l, t) \in Int
  <1>1. UsedOf(l, t) \in Amounts
    BY LedgerIs, ZeroAmount DEF UsedOf, States
  <1> QED
    BY <1>1, MaxI64Fits DEF Amounts, MinI64

-----------------------------------------------------------------------------
(* What the second step of a call does.                                    *)

\* The receipts shown are still there.
LEMMA ShownStays ==
  ASSUME NEW l \in Ledgers, NEW m \in Ledgers, Len(l.receipts) <= Len(m.receipts),
         \A i \in 1..Len(l.receipts) : m.receipts[i].tenant = l.receipts[i].tenant,
         NEW p, p.id \in Nat \ {0}, Shows(l, p),
         NEW q, q.id = p.id, q.tenant = p.tenant
  PROVE  Shows(m, q)
  <1>1. PICK i \in Nat \ {0} : i = p.id
    OBVIOUS
  <1>2. Len(l.receipts) \in Nat /\ Len(m.receipts) \in Nat
    BY LedgerIs
  <1>3. i <= Len(l.receipts)
    BY <1>1 DEF Shows
  <1>4. i \in 1..Len(l.receipts) /\ i <= Len(m.receipts)
    BY <1>1, <1>2, <1>3
  <1> QED
    BY <1>1, <1>4 DEF Shows

LEMMA SameReceipts ==
  ASSUME NEW l, NEW m, l.receipts = m.receipts, NEW x, NEW y, Owes(l, x, y)
  PROVE  Owes(m, x, y)
  BY DEF Owes, Owed

\* A call that charges nothing and gives nothing back.
LEMMA Unpaid ==
  ASSUME QTyped, NEW g \in Goroutines, NEW n \in Names, NEW t \in Tenants,
         n = calling[g].spec.name, t = calling[g].tenant,
         NEW l \in Ledgers, Found(n, l),
         NEW a \in States \cup {NIL}, a # NIL => a.start = Align(Now, l.plan.period),
         Returns(g, l, a), UNCHANGED <<paid, net>>, resets' \in Counts,
         \A x \in Names, y \in Tenants :
           x # n \/ y # t => resets'[x][y] = resets[x][y]
  PROVE  \E m \in Ledgers :
           Settled(g, n, t, l, m) /\ UsedOf(m, t) = (IF a = NIL THEN 0 ELSE a.used)
  <1>1. PICK m : m = [l EXCEPT !.accounts[t] = a]
    OBVIOUS
  <1>2. l \in Ledgers /\ Straight(l)
    BY DEF Found
  <1>3. /\ m \in Ledgers /\ Straight(m) /\ m.plan = l.plan /\ m.receipts = l.receipts
        /\ UsedOf(m, t) = (IF a = NIL THEN 0 ELSE a.used)
        /\ \A x \in Tenants : x # t => UsedOf(m, x) = UsedOf(l, x)
    BY <1>1, <1>2, LineWritten
  <1>4. /\ ledgers' = [ledgers EXCEPT ![n] = m] /\ calling' = [calling EXCEPT ![g] = NIL]
        /\ UNCHANGED tableVars
    BY <1>1 DEF Returns
  <1>5. \A x \in Tenants : Owes(m, x, net[n][x])
    BY <1>3, SameReceipts DEF Found
  <1>6. net' = net /\ paid' = paid /\ paid \in Handouts /\ Len(paid) \in Nat
        /\ Len(paid) <= MaxPaid /\ net \in Nets
    BY DEF QTyped, Handouts
  <1>7. Len(l.receipts) \in Nat
    BY <1>2, LedgerIs
  <1>8. \A i \in 1..Len(paid) : i <= Len(paid)
    BY <1>6
  <1>9. /\ Len(l.receipts) <= Len(m.receipts)
        /\ \A i \in 1..Len(l.receipts) : m.receipts[i].tenant = l.receipts[i].tenant
    BY <1>3, <1>7
  <1>10. /\ net' \in Nets /\ resets' \in Counts
         /\ \A x \in Names, y \in Tenants :
              x # n \/ y # t => net'[x][y] = net[x][y] /\ resets'[x][y] = resets[x][y]
         /\ \A x \in Tenants : Owes(m, x, net'[n][x])
    BY <1>5, <1>6
  <1>11. /\ paid' \in Handouts /\ Len(paid) <= Len(paid') /\ Len(paid') <= MaxPaid
         /\ \A i \in 1..Len(paid) : paid'[i].id = paid[i].id /\ paid'[i].tenant = paid[i].tenant
         /\ \A i \in 1..Len(paid') : i <= Len(paid) \/ Shows(m, paid'[i])
    BY <1>6, <1>8
  <1>12. Settled(g, n, t, l, m)
    BY <1>3, <1>4, <1>9, <1>10, <1>11 DEF Settled
  <1> QED
    BY <1>3, <1>12

LEMMA UnpaidStays ==
  ASSUME QTyped, NEW g \in Goroutines, NEW n \in Names, NEW t \in Tenants,
         n = calling[g].spec.name, t = calling[g].tenant,
         NEW l, Found(n, l), Returns(g, l, AccountLocked(l, t)),
         UNCHANGED <<paid, net, resets>>
  PROVE  Outcome(g)
  <1>1. PICK a : a = AccountLocked(l, t)
    OBVIOUS
  <1>2. l \in Ledgers /\ Straight(l)
    BY DEF Found
  <1>3. a \in States /\ a.start = Align(Now, l.plan.period) /\ a.used = UsedOf(l, t)
    BY <1>1, <1>2, LineIs
  <1>4. a # NIL
    BY <1>3, LedgerAssumption
  <1>5. resets' \in Counts /\ resets' = resets
    BY DEF QTyped
  <1>6. PICK m \in Ledgers : Settled(g, n, t, l, m) /\ UsedOf(m, t) = a.used
    <2>1. PICK m \in Ledgers :
            Settled(g, n, t, l, m) /\ UsedOf(m, t) = (IF a = NIL THEN 0 ELSE a.used)
      <3>1. a \in States \cup {NIL} /\ (a # NIL => a.start = Align(Now, l.plan.period))
        BY <1>3
      <3>2. \A x \in Names, y \in Tenants :
              x # n \/ y # t => resets'[x][y] = resets[x][y]
        BY <1>5
      <3>3. Returns(g, l, a) /\ UNCHANGED <<paid, net>>
        BY <1>1
      <3> QED
        BY <1>2, <1>5, <3>1, <3>2, <3>3, Unpaid
    <2> QED
      BY <1>4, <2>1
  <1>7. Verdict(n, t, l, m)
    BY <1>3, <1>5, <1>6 DEF Verdict
  <1> QED
    BY <1>2, <1>6, <1>7 DEF Outcome

Entered(f, n, t, x) == [f EXCEPT ![n][t] = x]

LEMMA NetChanges ==
  ASSUME net \in Nets, NEW n \in Names, NEW t \in Tenants, NEW x \in Nat,
         net' = Entered(net, n, t, x)
  PROVE  /\ net' \in Nets /\ net'[n][t] = x
         /\ \A i \in Names, j \in Tenants : i # n \/ j # t => net'[i][j] = net[i][j]
  <1>1. PICK row : row = [net[n] EXCEPT ![t] = x]
    OBVIOUS
  <1>2. net[n] \in [Tenants -> Nat]
    BY DEF Nets
  <1>3. row \in [Tenants -> Nat] /\ row[t] = x /\ \A j \in Tenants : j # t => row[j] = net[n][j]
    BY <1>1, <1>2
  <1>4. net' = [net EXCEPT ![n] = row]
    BY <1>1 DEF Entered
  <1>5. net' \in Nets /\ net'[n] = row /\ \A i \in Names : i # n => net'[i] = net[i]
    BY <1>3, <1>4 DEF Nets
  <1> QED
    BY <1>3, <1>5

LEMMA ResetsChange ==
  ASSUME resets \in Counts, NEW n \in Names, NEW t \in Tenants, NEW x \in 0..MaxResets,
         resets' = Entered(resets, n, t, x)
  PROVE  /\ resets' \in Counts /\ resets'[n][t] = x
         /\ \A i \in Names, j \in Tenants : i # n \/ j # t => resets'[i][j] = resets[i][j]
  <1>1. PICK row : row = [resets[n] EXCEPT ![t] = x]
    OBVIOUS
  <1>2. resets[n] \in [Tenants -> 0..MaxResets]
    BY DEF Counts
  <1>3. /\ row \in [Tenants -> 0..MaxResets] /\ row[t] = x
        /\ \A j \in Tenants : j # t => row[j] = resets[n][j]
    BY <1>1, <1>2
  <1>4. resets' = [resets EXCEPT ![n] = row]
    BY <1>1 DEF Entered
  <1>5. resets' \in Counts /\ resets'[n] = row /\ \A i \in Names : i # n => resets'[i] = resets[i]
    BY <1>3, <1>4 DEF Counts
  <1> QED
    BY <1>3, <1>5

\* A call under way, and the ledger it uses.
LEMMA CallFinds ==
  ASSUME QTyped, NEW g \in Goroutines, calling[g] # NIL
  PROVE  \E n \in Names, t \in Tenants, l \in Ledgers :
           /\ n = calling[g].spec.name /\ t = calling[g].tenant
           /\ l = LedgerFor(calling[g].spec) /\ Found(n, l)
  <1>1. PICK c \in Calls : c = calling[g] /\ Called(c)
    BY DEF QTyped
  <1>2. PICK n, l : n = c.spec.name /\ l = LedgerFor(c.spec)
    OBVIOUS
  <1>3. n \in Names /\ Found(n, l)
    BY <1>1, <1>2, LedgerFound
  <1>4. l \in Ledgers /\ c.tenant \in Tenants
    BY <1>3, CallIs DEF Found
  <1> QED
    BY <1>1, <1>2, <1>3, <1>4

LEMMA PeekOutcome ==
  ASSUME QTyped, NEW g \in Goroutines, PeekQuota(g)
  PROVE  Outcome(g)
  <1>1. PICK n \in Names, t \in Tenants, l \in Ledgers :
          /\ n = calling[g].spec.name /\ t = calling[g].tenant
          /\ l = LedgerFor(calling[g].spec) /\ Found(n, l)
    BY CallFinds DEF PeekQuota
  <1>2. Returns(g, l, AccountLocked(l, t)) /\ UNCHANGED <<paid, net, resets>>
    BY <1>1 DEF PeekQuota
  <1> QED
    BY <1>1, <1>2, UnpaidStays

LEMMA ResetOutcome ==
  ASSUME QTyped, NEW g \in Goroutines, ResetQuota(g)
  PROVE  Outcome(g)
  <1>1. PICK n \in Names, t \in Tenants, l \in Ledgers :
          /\ n = calling[g].spec.name /\ t = calling[g].tenant
          /\ l = LedgerFor(calling[g].spec) /\ Found(n, l)
    BY CallFinds DEF ResetQuota
  <1>2. PICK r : r = resets[n][t] + 1
    OBVIOUS
  <1>3. /\ resets[n][t] < MaxResets /\ Returns(g, l, NIL)
        /\ resets' = Entered(resets, n, t, r) /\ UNCHANGED <<paid, net>>
    BY <1>1, <1>2 DEF ResetQuota, Entered
  <1>4. resets \in Counts /\ r \in 0..MaxResets
    BY <1>2, <1>3, QuotaAssumption DEF QTyped, Counts
  <1>5. /\ resets' \in Counts /\ resets'[n][t] = r
        /\ \A i \in Names, j \in Tenants : i # n \/ j # t => resets'[i][j] = resets[i][j]
    BY <1>3, <1>4, ResetsChange
  <1>6. PICK m \in Ledgers : Settled(g, n, t, l, m) /\ UsedOf(m, t) = 0
    <2>1. PICK a : a = NIL
      OBVIOUS
    <2>2. PICK m \in Ledgers :
            Settled(g, n, t, l, m) /\ UsedOf(m, t) = (IF a = NIL THEN 0 ELSE a.used)
      <3>1. Returns(g, l, a) /\ UNCHANGED <<paid, net>>
        BY <1>3, <2>1
      <3>2. a \in States \cup {NIL} /\ (a # NIL => a.start = Align(Now, l.plan.period))
        BY <2>1
      <3>3. \A x \in Names, y \in Tenants :
              x # n \/ y # t => resets'[x][y] = resets[x][y]
        BY <1>5
      <3> QED
        BY <1>1, <1>5, <3>1, <3>2, <3>3, Unpaid
    <2> QED
      BY <2>1, <2>2
  <1>7. net'[n][t] = net[n][t]
    BY <1>3
  <1>8. Verdict(n, t, l, m)
    BY <1>2, <1>5, <1>6, <1>7 DEF Verdict
  <1> QED
    BY <1>6, <1>8 DEF Outcome

\* A receipt handed out.
LEMMA HandedOut ==
  ASSUME paid \in Handouts, Len(paid) < MaxPaid, MaxPaid \in Nat,
         NEW t \in Tenants, NEW id \in Nat \ {0},
         paid' = Append(paid, [tenant |-> t, id |-> id, back |-> 0])
  PROVE  /\ paid' \in Handouts /\ Len(paid') = Len(paid) + 1
         /\ Len(paid) <= Len(paid') /\ Len(paid') <= MaxPaid
         /\ \A i \in 1..Len(paid) : paid'[i] = paid[i]
         /\ \A i \in 1..Len(paid') : i <= Len(paid) \/ (paid'[i].id = id /\ paid'[i].tenant = t)
  <1>1. PICK p : p = [tenant |-> t, id |-> id, back |-> 0]
    OBVIOUS
  <1>2. p \in Handout /\ p.id = id /\ p.tenant = t
    BY <1>1 DEF Handout
  <1>3. Len(paid) \in Nat /\ paid' = Append(paid, p)
    BY <1>1 DEF Handouts
  <1>4. /\ paid' \in Handouts /\ Len(paid') = Len(paid) + 1 /\ paid'[Len(paid) + 1] = p
        /\ \A i \in 1..Len(paid) : paid'[i] = paid[i]
    BY <1>2, <1>3 DEF Handouts
  <1>5. ASSUME NEW i \in 1..Len(paid'), ~(i <= Len(paid))
        PROVE  i = Len(paid) + 1
    BY <1>3, <1>4, <1>5
  <1> QED
    BY <1>2, <1>3, <1>4, <1>5

\* A receipt good for one more refund.
LEMMA GivenBack ==
  ASSUME paid \in Handouts, NEW k \in 1..Len(paid),
         paid' = [paid EXCEPT ![k].back = @ + 1]
  PROVE  /\ paid' \in Handouts /\ Len(paid') = Len(paid) /\ Len(paid) \in Nat
         /\ \A i \in 1..Len(paid) : paid'[i].id = paid[i].id /\ paid'[i].tenant = paid[i].tenant
  <1>1. paid[k] \in Handout
    BY DEF Handouts
  <1>2. PICK p : p = [paid[k] EXCEPT !.back = @ + 1]
    OBVIOUS
  <1>3. /\ p \in Handout
        /\ p.id = paid[k].id /\ p.tenant = paid[k].tenant
    BY <1>1, <1>2 DEF Handout
  <1>4. paid' = [paid EXCEPT ![k] = p]
    BY <1>2
  <1>5. /\ paid' \in Handouts /\ Len(paid') = Len(paid) /\ Len(paid) \in Nat /\ paid'[k] = p
        /\ \A i \in 1..Len(paid) : i # k => paid'[i] = paid[i]
    BY <1>3, <1>4 DEF Handouts
  <1> QED
    BY <1>3, <1>5

LEMMA ChargeOutcome ==
  ASSUME QTyped, NEW g \in Goroutines, Charge(g)
  PROVE  Outcome(g)
  <1>1. PICK n \in Names, t \in Tenants, l \in Ledgers :
          /\ n = calling[g].spec.name /\ t = calling[g].tenant
          /\ l = LedgerFor(calling[g].spec) /\ Found(n, l)
    BY CallFinds DEF Charge
  <1>2. PICK u \in Units : u = calling[g].units
    <2>1. calling[g] \in Calls /\ calling[g].op = "charge"
      BY DEF QTyped, Charge
    <2> QED
      BY <2>1, CallIs
  <1>3. PICK a : a = AccountLocked(l, t)
    OBVIOUS
  <1>4. /\ a \in States /\ a.start = Align(Now, l.plan.period) /\ a.used = UsedOf(l, t)
        /\ a.debt = l.plan.debt /\ a.hard = l.plan.hard
    BY <1>1, <1>3, LineIs DEF Found
  <1>5. CASE WouldExceed(a, u)
    <2>1. Returns(g, l, AccountLocked(l, t)) /\ UNCHANGED <<paid, net, resets>>
      BY <1>1, <1>2, <1>3, <1>5 DEF Charge
    <2> QED
      BY <1>1, <2>1, UnpaidStays
  <1>6. CASE ~WouldExceed(a, u)
    <2>1. PICK k : k = WithReceipt(l, t, u)
      OBVIOUS
    <2>2. PICK b : b = ApplyCharge(a, u)
      OBVIOUS
    <2>3. PICK m : m = [k EXCEPT !.accounts[t] = b]
      OBVIOUS
    <2>4. PICK id, x : id = Len(l.receipts) + 1 /\ x = net[n][t] + u
      OBVIOUS
    <2>5. /\ Len(paid) < MaxPaid
          /\ Returns(g, k, b) /\ UNCHANGED resets
          /\ paid' = Append(paid, [tenant |-> t, id |-> id, back |-> 0])
          /\ net' = Entered(net, n, t, x)
      BY <1>1, <1>2, <1>3, <1>6, <2>1, <2>2, <2>4 DEF Charge, Entered, WithReceipt
    <2>6. Straight(l)
      BY <1>1 DEF Found
    <2>7. /\ k \in Ledgers /\ Straight(k) /\ k.plan = l.plan /\ k.accounts = l.accounts
          /\ Len(k.receipts) = Len(l.receipts) + 1 /\ k.receipts[Len(l.receipts) + 1].tenant = t
          /\ \A i \in 1..Len(l.receipts) : k.receipts[i] = l.receipts[i]
          /\ \A y \in Tenants, z \in Nat : Owes(l, y, z) => Owes(k, y, IF y = t THEN z + u ELSE z)
      BY <1>1, <2>1, <2>6, ReceiptKept
    <2>8. PICK w \in Amounts : w = Wrap(UsedOf(l, t) + u)
      BY AmountIs, UnitIs, WrapIs
    <2>9. b \in States /\ b.used = w /\ b.start = a.start
      BY <1>4, <2>2, <2>8, AmountSet DEF ApplyCharge
    <2>10. /\ m \in Ledgers /\ Straight(m) /\ m.plan = l.plan /\ m.receipts = k.receipts
           /\ UsedOf(m, t) = w
           /\ \A y \in Tenants : y # t => UsedOf(m, y) = UsedOf(l, y)
      <3>1. b # NIL
        BY <2>9, LedgerAssumption
      <3>2. /\ m \in Ledgers /\ Straight(m) /\ m.plan = k.plan /\ m.receipts = k.receipts
            /\ UsedOf(m, t) = (IF b = NIL THEN 0 ELSE b.used)
            /\ \A y \in Tenants : y # t => UsedOf(m, y) = UsedOf(k, y)
        BY <1>4, <2>3, <2>7, <2>9, LineWritten
      <3>3. \A y \in Tenants : UsedOf(k, y) = UsedOf(l, y)
        BY <2>7 DEF UsedOf
      <3> QED
        BY <2>7, <2>9, <3>1, <3>2, <3>3
    <2>11. /\ ledgers' = [ledgers EXCEPT ![n] = m] /\ calling' = [calling EXCEPT ![g] = NIL]
           /\ UNCHANGED tableVars
      BY <1>1, <2>3, <2>5 DEF Returns
    <2>12. /\ net \in Nets /\ resets \in Counts /\ paid \in Handouts /\ Len(l.receipts) \in Nat
           /\ x \in Nat /\ u \in Nat /\ id \in Nat \ {0} /\ MaxPaid \in Nat
      BY <1>1, <2>4, UnitIs, LedgerIs, QuotaAssumption, SMTT(30) DEF QTyped, Nets
    <2>13. /\ net' \in Nets /\ net'[n][t] = x
           /\ \A i \in Names, j \in Tenants : i # n \/ j # t => net'[i][j] = net[i][j]
      BY <2>5, <2>12, NetChanges
    <2>14. ASSUME NEW y \in Tenants
           PROVE  Owes(m, y, net'[n][y])
      <3>1. Owes(l, y, net[n][y]) /\ net[n][y] \in Nat
        BY <1>1, <2>12 DEF Found, Nets
      <3>2. Owes(k, y, IF y = t THEN net[n][y] + u ELSE net[n][y])
        BY <2>7, <3>1
      <3>3. net'[n][y] = IF y = t THEN net[n][y] + u ELSE net[n][y]
        BY <2>4, <2>13
      <3> QED
        BY <2>10, <3>2, <3>3, SameReceipts
    <2>15. /\ paid' \in Handouts /\ Len(paid') = Len(paid) + 1
           /\ Len(paid) <= Len(paid') /\ Len(paid') <= MaxPaid
           /\ \A i \in 1..Len(paid) : paid'[i] = paid[i]
           /\ \A i \in 1..Len(paid') :
                i <= Len(paid) \/ (paid'[i].id = id /\ paid'[i].tenant = t)
      BY <2>5, <2>12, HandedOut
    <2>16. \A p : p.id = id /\ p.tenant = t => Shows(m, p)
      BY <2>4, <2>7, <2>10, <2>12 DEF Shows
    <2>17. /\ Len(l.receipts) <= Len(m.receipts)
           /\ \A i \in 1..Len(l.receipts) : m.receipts[i].tenant = l.receipts[i].tenant
      BY <2>7, <2>10, <2>12
    <2>18. /\ resets' \in Counts
           /\ \A i \in Names, j \in Tenants :
                i # n \/ j # t => net'[i][j] = net[i][j] /\ resets'[i][j] = resets[i][j]
      BY <2>5, <2>12, <2>13
    <2>19. /\ \A i \in 1..Len(paid) : paid'[i].id = paid[i].id /\ paid'[i].tenant = paid[i].tenant
           /\ \A i \in 1..Len(paid') : i <= Len(paid) \/ Shows(m, paid'[i])
      BY <2>15, <2>16
    <2>20. Settled(g, n, t, l, m)
      BY <1>1, <2>10, <2>11, <2>13, <2>14, <2>15, <2>17, <2>18, <2>19 DEF Settled
    <2>21. ~l.plan.debt => w <= l.plan.hard
      <3>1. a.debt \in BOOLEAN /\ a.debt = l.plan.debt /\ a.hard \in Int /\ w \in Int
        BY <1>4, <2>8, MaxI64Fits DEF States, Amounts, MinI64
      <3>2. ~a.debt => ~(w > a.hard)
        BY <1>4, <1>6, <2>8 DEF WouldExceed
      <3> QED
        BY <1>4, <3>1, <3>2
    <2>22. Verdict(n, t, l, m)
      <3>1. /\ Len(paid') = Len(paid) + 1
            /\ net'[n][t] = net[n][t] + u /\ resets'[n][t] = resets[n][t]
            /\ UsedOf(m, t) = Wrap(UsedOf(l, t) + u)
            /\ ~l.plan.debt => Wrap(UsedOf(l, t) + u) <= l.plan.hard
        BY <2>4, <2>5, <2>8, <2>10, <2>13, <2>15, <2>21
      <3> QED
        BY <1>2, <3>1 DEF Verdict
    <2> QED
      BY <1>1, <2>10, <2>20, <2>22 DEF Outcome
  <1> QED
    BY <1>5, <1>6

\* The ledger is left as it is found.
LEMMA LeftAlone ==
  ASSUME QTyped, NEW g \in Goroutines, NEW n \in Names, NEW t \in Tenants,
         NEW l \in Ledgers, Found(n, l),
         ledgers' = [ledgers EXCEPT ![n] = l], calling' = [calling EXCEPT ![g] = NIL],
         UNCHANGED tableVars, UNCHANGED <<paid, net, resets>>
  PROVE  Outcome(g)
  <1>1. net \in Nets /\ resets \in Counts /\ paid \in Handouts /\ Len(paid) <= MaxPaid
    BY DEF QTyped
  <1>2. net' = net /\ resets' = resets /\ paid' = paid
    OBVIOUS
  <1>3. Len(l.receipts) \in Nat /\ Len(paid) \in Nat
    BY <1>1, LedgerIs DEF Handouts
  <1>4. \A i \in 1..Len(paid) : i <= Len(paid)
    BY <1>3
  <1>5. Settled(g, n, t, l, l)
    <2>1. Straight(l) /\ \A x \in Tenants : Owes(l, x, net[n][x])
      BY DEF Found
    <2>2. /\ net' \in Nets /\ resets' \in Counts
          /\ \A x \in Tenants : Owes(l, x, net'[n][x])
          /\ \A x \in Names, y \in Tenants :
               x # n \/ y # t => net'[x][y] = net[x][y] /\ resets'[x][y] = resets[x][y]
      BY <1>1, <1>2, <2>1
    <2>3. /\ paid' \in Handouts /\ Len(paid) <= Len(paid') /\ Len(paid') <= MaxPaid
          /\ \A i \in 1..Len(paid) : paid'[i].id = paid[i].id /\ paid'[i].tenant = paid[i].tenant
          /\ \A i \in 1..Len(paid') : i <= Len(paid) \/ Shows(l, paid'[i])
      BY <1>1, <1>2, <1>3, <1>4
    <2>4. Len(l.receipts) <= Len(l.receipts)
      BY <1>3
    <2> QED
      BY <2>1, <2>2, <2>3, <2>4 DEF Settled
  <1>6. Verdict(n, t, l, l)
    BY <1>2 DEF Verdict
  <1> QED
    BY <1>5, <1>6 DEF Outcome

LEMMA RefundOutcome ==
  ASSUME QTyped, NEW g \in Goroutines, Refund(g)
  PROVE  Outcome(g)
  <1>1. PICK n \in Names, t \in Tenants, l \in Ledgers :
          /\ n = calling[g].spec.name /\ t = calling[g].tenant
          /\ l = LedgerFor(calling[g].spec) /\ Found(n, l)
    BY CallFinds DEF Refund
  <1>2. PICK s \in 1..Len(paid) : s = calling[g].shown
    BY DEF QTyped, Called, Refund
  <1>3. PICK id \in Nat \ {0} : id = paid[s].id
    <2>1. paid[s] \in Handout
      BY DEF QTyped, Handouts
    <2> QED
      BY <2>1 DEF Handout
  <1>4. PICK a : a = AccountLocked(l, t)
    OBVIOUS
  <1>5. /\ a \in States /\ a.start = Align(Now, l.plan.period) /\ a.used = UsedOf(l, t)
    BY <1>1, <1>4, LineIs DEF Found
  <1>6. CASE ~Knows(l, id, t)
    <2>1. /\ ledgers' = [ledgers EXCEPT ![n] = l] /\ calling' = [calling EXCEPT ![g] = NIL]
          /\ UNCHANGED tableVars /\ UNCHANGED <<paid, net, resets>>
      BY <1>1, <1>2, <1>3, <1>6 DEF Refund
    <2> QED
      BY <1>1, <2>1, LeftAlone
  <1>7. CASE Knows(l, id, t) /\ l.receipts[id].refunded
    <2>1. Returns(g, l, AccountLocked(l, t)) /\ UNCHANGED <<paid, net, resets>>
      BY <1>1, <1>2, <1>3, <1>7 DEF Refund
    <2> QED
      BY <1>1, <2>1, UnpaidStays
  <1>8. CASE Knows(l, id, t) /\ ~l.receipts[id].refunded
    <2>1. id \in 1..Len(l.receipts) /\ Len(l.receipts) \in Nat
      BY <1>8, LedgerIs DEF Knows
    <2>2. PICK r : r = l.receipts[id]
      OBVIOUS
    <2>3. PICK u \in Units : u = r.units
      BY <2>1, <2>2, LedgerIs
    <2>4. r.tenant = t /\ ~r.refunded
      BY <1>8, <2>2 DEF Knows
    <2>5. PICK k : k = WithRefund(l, id)
      OBVIOUS
    <2>6. PICK b : b = ApplyRefund(a, u, l.plan.debt)
      OBVIOUS
    <2>7. PICK m : m = [k EXCEPT !.accounts[t] = b]
      OBVIOUS
    <2>8. PICK x : x = net[n][t] - u
      OBVIOUS
    <2>9. /\ Returns(g, k, b) /\ UNCHANGED resets
          /\ paid' = [paid EXCEPT ![s].back = @ + 1]
          /\ net' = Entered(net, n, t, x)
      BY <1>1, <1>2, <1>3, <1>4, <1>8, <2>2, <2>3, <2>5, <2>6, <2>8
         DEF Refund, Entered, WithRefund
    <2>10. Straight(l)
      BY <1>1 DEF Found
    <2>11. /\ k \in Ledgers /\ Straight(k) /\ k.plan = l.plan /\ k.accounts = l.accounts
           /\ Len(k.receipts) = Len(l.receipts)
           /\ \A i \in 1..Len(l.receipts) : k.receipts[i].tenant = l.receipts[i].tenant
           /\ \A y \in Tenants, z \in Nat : Owes(l, y, z) =>
                IF y = r.tenant THEN r.units <= z /\ Owes(k, y, z - r.units) ELSE Owes(k, y, z)
      BY <1>1, <2>1, <2>2, <2>4, <2>5, <2>10, ReceiptGivenBack, SMTT(30)
    <2>12. PICK w \in Amounts : w = Wrap(UsedOf(l, t) - u)
      BY AmountIs, UnitIs, WrapIs
    <2>13. PICK v \in Amounts : v = IF ~l.plan.debt /\ w < 0 THEN 0 ELSE w
      BY ZeroAmount
    <2>14. b \in States /\ b.used = v /\ b.start = a.start
      BY <1>5, <2>6, <2>12, <2>13, AmountSet DEF ApplyRefund
    <2>15. /\ m \in Ledgers /\ Straight(m) /\ m.plan = l.plan /\ m.receipts = k.receipts
           /\ UsedOf(m, t) = v
           /\ \A y \in Tenants : y # t => UsedOf(m, y) = UsedOf(l, y)
      <3>1. b # NIL
        BY <2>14, LedgerAssumption
      <3>2. /\ m \in Ledgers /\ Straight(m) /\ m.plan = k.plan /\ m.receipts = k.receipts
            /\ UsedOf(m, t) = (IF b = NIL THEN 0 ELSE b.used)
            /\ \A y \in Tenants : y # t => UsedOf(m, y) = UsedOf(k, y)
        BY <1>5, <2>7, <2>11, <2>14, LineWritten
      <3>3. \A y \in Tenants : UsedOf(k, y) = UsedOf(l, y)
        BY <2>11 DEF UsedOf
      <3> QED
        BY <2>11, <2>14, <3>1, <3>2, <3>3
    <2>16. /\ ledgers' = [ledgers EXCEPT ![n] = m] /\ calling' = [calling EXCEPT ![g] = NIL]
           /\ UNCHANGED tableVars
      BY <1>1, <2>7, <2>9 DEF Returns
    <2>17. /\ net \in Nets /\ resets \in Counts /\ paid \in Handouts /\ Len(paid) <= MaxPaid
           /\ u \in Nat
      BY UnitIs DEF QTyped
    <2>18. \A y \in Tenants : Owes(l, y, net[n][y]) /\ net[n][y] \in Nat
      BY <1>1, <2>17 DEF Found, Nets
    <2>19. u <= net[n][t] /\ Owes(k, t, net[n][t] - u) /\ x \in Nat
      BY <2>3, <2>4, <2>8, <2>11, <2>17, <2>18
    <2>20. /\ net' \in Nets /\ net'[n][t] = x
           /\ \A i \in Names, j \in Tenants : i # n \/ j # t => net'[i][j] = net[i][j]
      BY <2>9, <2>17, <2>19, NetChanges
    <2>21. ASSUME NEW y \in Tenants
           PROVE  Owes(m, y, net'[n][y])
      <3>1. CASE y = t
        BY <2>8, <2>15, <2>19, <2>20, <3>1, SameReceipts
      <3>2. CASE y # t
        <4>1. Owes(k, y, net[n][y])
          BY <2>4, <2>11, <2>18, <3>2
        <4> QED
          BY <2>15, <2>20, <3>2, <4>1, SameReceipts
      <3> QED
        BY <3>1, <3>2
    <2>22. /\ paid' \in Handouts /\ Len(paid') = Len(paid) /\ Len(paid) \in Nat
           /\ \A i \in 1..Len(paid) : paid'[i].id = paid[i].id /\ paid'[i].tenant = paid[i].tenant
      BY <2>9, <2>17, GivenBack
    <2>23. /\ Len(paid) <= Len(paid') /\ Len(paid') <= MaxPaid
           /\ \A i \in 1..Len(paid') : i <= Len(paid) \/ Shows(m, paid'[i])
      BY <2>17, <2>22
    <2>24. /\ Len(l.receipts) <= Len(m.receipts)
           /\ \A i \in 1..Len(l.receipts) : m.receipts[i].tenant = l.receipts[i].tenant
      BY <2>1, <2>11, <2>15
    <2>25. /\ resets' \in Counts
           /\ \A i \in Names, j \in Tenants :
                i # n \/ j # t => net'[i][j] = net[i][j] /\ resets'[i][j] = resets[i][j]
      BY <2>9, <2>17, <2>20
    <2>26. Settled(g, n, t, l, m)
      BY <1>1, <2>15, <2>16, <2>20, <2>21, <2>22, <2>23, <2>24, <2>25 DEF Settled
    <2>27. Verdict(n, t, l, m)
      <3>1. /\ u <= net[n][t]
            /\ net'[n][t] = net[n][t] - u /\ resets'[n][t] = resets[n][t]
            /\ UsedOf(m, t) = IF ~l.plan.debt /\ Wrap(UsedOf(l, t) - u) < 0 THEN 0
                              ELSE Wrap(UsedOf(l, t) - u)
        BY <2>8, <2>9, <2>12, <2>13, <2>15, <2>19, <2>20
      <3> QED
        BY <3>1 DEF Verdict
    <2> QED
      BY <1>1, <2>15, <2>26, <2>27 DEF Outcome
  <1> QED
    BY <1>6, <1>7, <1>8

-----------------------------------------------------------------------------
(* Every step keeps the types.                                             *)

LEMMA ResolvedIs ==
  ASSUME Tabled, NEW t \in Tenants, Resolve(TenantKey(t)).ok
  PROVE  LET s == Resolve(TenantKey(t)).spec
         IN s \in Policies /\ specs[s.name] = s
  <1>1. TenantKey(t) \in Keys
    BY QuotaAssumption
  <1>2. PICK k \in Keys : k = TenantKey(t)
    BY <1>1
  <1>3. \E n \in Names : specs[n] # NIL /\ Resolve(k).spec = specs[n]
    <2>1. CASE /\ \A i \in 1..Len(Chain[k]) : ~Hits(Chain[k][i])
               /\ Resolve(k).ok <=> specs[DefaultName] # NIL
               /\ Resolve(k).ok => Resolve(k).spec = specs[DefaultName]
      BY <1>2, <2>1, TableAssumption
    <2>2. CASE \E i \in 1..Len(Chain[k]) :
                 /\ Hits(Chain[k][i])
                 /\ \A j \in 1..(i - 1) : ~Hits(Chain[k][j])
                 /\ Resolve(k) = [ok |-> TRUE, spec |-> specs[byPat[Chain[k][i]]],
                                  pattern |-> Chain[k][i]]
      <3>1. PICK i \in 1..Len(Chain[k]) :
              /\ Hits(Chain[k][i])
              /\ Resolve(k) = [ok |-> TRUE, spec |-> specs[byPat[Chain[k][i]]],
                               pattern |-> Chain[k][i]]
        BY <2>2
      <3>2. PICK p : p = Chain[k][i]
        OBVIOUS
      <3>3. p \in Patterns /\ byPat[p] # NIL /\ specs[byPat[p]] # NIL
        BY <3>1, <3>2 DEF Hits
      <3>4. byPat[p] \in Names
        BY <3>3 DEF Tabled
      <3>5. Resolve(k).spec = specs[byPat[p]]
        BY <3>1, <3>2
      <3> QED
        BY <3>3, <3>4, <3>5
    <2> QED
      BY <2>1, <2>2, ResolveIs
  <1>4. \A n \in Names : specs[n] # NIL => specs[n] \in Policies /\ specs[n].name = n
    BY DEF Tabled
  <1> QED
    BY <1>2, <1>3, <1>4

\* What a step of the table, or none, leaves of the calls.
LEMMA QuotaStands ==
  ASSUME QTyped, Tabled, Kept, UNCHANGED quotaVars
  PROVE  QTyped'
  <1>1. UNCHANGED <<ledgers, calling, paid, net, resets>>
    BY DEF quotaVars
  <1>2. \A n \in Names : specs[n] # NIL => specs'[n] = specs[n]
    BY DEF Kept
  <1>3. ASSUME NEW n \in Names
        PROVE  Kosher(n)'
    BY <1>1, <1>2 DEF QTyped, Kosher
  <1>4. ASSUME NEW g \in Goroutines, calling'[g] # NIL
        PROVE  Called(calling[g])'
    <2>1. PICK c \in Calls : c = calling[g] /\ Called(c)
      BY <1>1, <1>4 DEF QTyped
    <2>2. c.spec.name \in Names /\ c.spec # NIL
      BY CallIs, TableAssumption
    <2>3. specs'[c.spec.name] = c.spec
      BY <1>2, <2>1, <2>2 DEF Called
    <2> QED
      BY <1>1, <2>1, <2>3 DEF Called
  <1> QED
    BY <1>1, <1>3, <1>4 DEF QTyped

LEMMA CallTyped ==
  ASSUME QTyped, NEW g \in Goroutines, NEW c \in Calls, Called(c), Call(g, c)
  PROVE  QTyped'
  <1>1. /\ calling' = [calling EXCEPT ![g] = c]
        /\ UNCHANGED <<specs, ledgers, paid, net, resets>>
    BY DEF Call, tableVars
  <1>2. calling \in [Goroutines -> Calls \cup {NIL}]
    BY DEF QTyped
  <1>3. calling' \in [Goroutines -> Calls \cup {NIL}]
    BY <1>1, <1>2
  <1>4. ASSUME NEW h \in Goroutines, calling'[h] # NIL
        PROVE  Called(calling[h])'
    <2>1. PICK d : d = calling'[h] /\ Called(d)
      BY <1>1, <1>2, <1>4 DEF QTyped
    <2> QED
      BY <1>1, <2>1 DEF Called
  <1>5. \A n \in Names : Kosher(n)'
    BY <1>1 DEF QTyped, Kosher
  <1> QED
    BY <1>1, <1>3, <1>4, <1>5 DEF QTyped

LEMMA CallChargeTyped ==
  ASSUME QTyped, Tabled, NEW g \in Goroutines, NEW t \in Tenants, NEW u \in Units,
         CallCharge(g, t, u)
  PROVE  QTyped'
  <1>1. PICK s : s = Resolve(TenantKey(t)).spec
    OBVIOUS
  <1>2. s \in Policies /\ specs[s.name] = s /\ s.quota # NIL
    BY <1>1, ResolvedIs DEF CallCharge, Resolved
  <1>3. PICK c : c = [op |-> "charge", tenant |-> t, units |-> u, spec |-> s]
    OBVIOUS
  <1>4. Call(g, c)
    BY <1>1, <1>3 DEF CallCharge
  <1>5. c \in Calls /\ Called(c)
    BY <1>2, <1>3 DEF Calls, Called
  <1> QED
    BY <1>4, <1>5, CallTyped

LEMMA CallRefundTyped ==
  ASSUME QTyped, Tabled, NEW g \in Goroutines, NEW i \in 1..Len(paid), CallRefund(g, i)
  PROVE  QTyped'
  <1>1. PICK t \in Tenants : t = paid[i].tenant
    <2>1. paid[i] \in Handout
      BY DEF QTyped, Handouts
    <2> QED
      BY <2>1 DEF Handout
  <1>2. PICK s : s = Resolve(TenantKey(t)).spec
    OBVIOUS
  <1>3. s \in Policies /\ specs[s.name] = s /\ s.quota # NIL
    BY <1>1, <1>2, ResolvedIs DEF CallRefund, Resolved
  <1>4. PICK c : c = [op |-> "refund", tenant |-> t, shown |-> i, spec |-> s]
    OBVIOUS
  <1>5. Call(g, c)
    BY <1>1, <1>2, <1>4 DEF CallRefund
  <1>6. c \in Calls /\ Called(c)
    BY <1>1, <1>3, <1>4 DEF Calls, Called
  <1> QED
    BY <1>5, <1>6, CallTyped

LEMMA CallOtherTyped ==
  ASSUME QTyped, Tabled, NEW g \in Goroutines, NEW t \in Tenants, NEW op \in {"peek", "reset"},
         CallOther(g, op, t)
  PROVE  QTyped'
  <1>1. PICK s : s = Resolve(TenantKey(t)).spec
    OBVIOUS
  <1>2. s \in Policies /\ specs[s.name] = s /\ s.quota # NIL
    BY <1>1, ResolvedIs DEF CallOther, Resolved
  <1>3. PICK c : c = [op |-> op, tenant |-> t, spec |-> s]
    OBVIOUS
  <1>4. Call(g, c)
    BY <1>1, <1>3 DEF CallOther
  <1>5. c \in Calls /\ Called(c)
    BY <1>2, <1>3 DEF Calls, Called
  <1> QED
    BY <1>4, <1>5, CallTyped

LEMMA OutcomeTyped ==
  ASSUME QTyped, NEW g \in Goroutines, Outcome(g)
  PROVE  QTyped'
  <1>1. PICK n \in Names, t \in Tenants, l \in Ledgers, m \in Ledgers : Settled(g, n, t, l, m)
    BY DEF Outcome
  <1>2. /\ ledgers \in [Names -> Ledgers \cup {NIL}]
        /\ calling \in [Goroutines -> Calls \cup {NIL}]
        /\ paid \in Handouts
    BY DEF QTyped
  <1>3. /\ ledgers' = [ledgers EXCEPT ![n] = m] /\ calling' = [calling EXCEPT ![g] = NIL]
        /\ specs' = specs /\ m # NIL
    BY <1>1, LedgerAssumption DEF Settled, tableVars
  <1>4. /\ ledgers' \in [Names -> Ledgers \cup {NIL}]
        /\ calling' \in [Goroutines -> Calls \cup {NIL}]
        /\ ledgers'[n] = m /\ \A x \in Names : x # n => ledgers'[x] = ledgers[x]
        /\ calling'[g] = NIL /\ \A h \in Goroutines : h # g => calling'[h] = calling[h]
    BY <1>2, <1>3
  <1>5. ASSUME NEW x \in Names
        PROVE  Kosher(x)'
    <2>1. CASE x = n
      BY <1>1, <1>3, <1>4, <2>1 DEF Settled, Found, Kosher
    <2>2. CASE x # n
      <3>1. \A y \in Tenants : net'[x][y] = net[x][y]
        BY <1>1, <2>2 DEF Settled
      <3> QED
        BY <1>3, <1>4, <2>2, <3>1 DEF QTyped, Kosher
    <2> QED
      BY <2>1, <2>2
  <1>6. /\ Len(paid) \in Nat /\ Len(paid') \in Nat /\ Len(paid) <= Len(paid')
        /\ \A i \in 1..Len(paid) : i \in 1..Len(paid')
    BY <1>1, <1>2 DEF Settled, Handouts
  <1>7. ASSUME NEW h \in Goroutines, calling'[h] # NIL
        PROVE  Called(calling[h])'
    <2>1. PICK d \in Calls : d = calling[h] /\ Called(d) /\ calling'[h] = d
      BY <1>4, <1>7 DEF QTyped
    <2>2. \A i \in 1..Len(paid) : paid'[i].tenant = paid[i].tenant
      BY <1>1 DEF Settled
    <2> QED
      BY <1>3, <1>6, <2>1, <2>2 DEF Called
  <1>8. ASSUME NEW i \in 1..Len(paid')
        PROVE  \E x \in Names : ledgers'[x] # NIL /\ Shows(ledgers'[x], paid'[i])
    <2>1. PICK q : q = paid'[i]
      OBVIOUS
    <2>2. CASE i <= Len(paid)
      <3>1. i \in 1..Len(paid)
        BY <1>6, <2>2
      <3>2. PICK p \in Handout : p = paid[i]
        BY <1>2, <3>1 DEF Handouts
      <3>3. q.id = p.id /\ q.tenant = p.tenant
        BY <1>1, <2>1, <3>1, <3>2 DEF Settled
      <3>4. PICK x \in Names : ledgers[x] # NIL /\ Shows(ledgers[x], p)
        BY <3>1, <3>2 DEF QTyped
      <3>5. CASE x # n
        BY <1>4, <2>1, <3>3, <3>4, <3>5 DEF Shows
      <3>6. CASE x = n
        <4>1. /\ l = ledgers[n] /\ Len(l.receipts) <= Len(m.receipts)
              /\ \A j \in 1..Len(l.receipts) : m.receipts[j].tenant = l.receipts[j].tenant
          BY <1>1, <3>4, <3>6 DEF Settled, Found
        <4>2. p.id \in Nat \ {0}
          BY DEF Handout
        <4>3. Shows(m, q)
          BY <3>3, <3>4, <3>6, <4>1, <4>2, ShownStays
        <4> QED
          BY <1>3, <1>4, <2>1, <4>3
      <3> QED
        BY <3>5, <3>6
    <2>3. CASE ~(i <= Len(paid))
      <3>1. Shows(m, q)
        BY <1>1, <2>1, <2>3 DEF Settled
      <3> QED
        BY <1>3, <1>4, <2>1, <3>1
    <2> QED
      BY <2>2, <2>3
  <1>9. paid' \in Handouts /\ Len(paid') <= MaxPaid /\ net' \in Nets /\ resets' \in Counts
    BY <1>1 DEF Settled
  <1>10. /\ \A i \in 1..Len(paid') : \E x \in Names : (ledgers[x] # NIL /\ Shows(ledgers[x], paid[i]))'
    BY <1>8 DEF Shows
  <1> QED
    BY <1>4, <1>5, <1>7, <1>9, <1>10 DEF QTyped

LEMMA QuotaKeeps ==
  ASSUME QTyped, Tabled, QuotaNext
  PROVE  \/ QTyped' /\ UNCHANGED <<ledgers, paid, net, resets>>
         \/ \E g \in Goroutines : Outcome(g)
  <1>1. PICK g \in Goroutines :
          \/ \E t \in Tenants, u \in Units : CallCharge(g, t, u)
          \/ \E i \in 1..Len(paid) : CallRefund(g, i)
          \/ \E t \in Tenants, op \in {"peek", "reset"} : CallOther(g, op, t)
          \/ Charge(g)
          \/ Refund(g)
          \/ PeekQuota(g)
          \/ ResetQuota(g)
    BY DEF QuotaNext
  <1>2. CASE \E t \in Tenants, u \in Units : CallCharge(g, t, u)
    <2>1. PICK t \in Tenants, u \in Units : CallCharge(g, t, u)
      BY <1>2
    <2>2. UNCHANGED <<ledgers, paid, net, resets>>
      BY <2>1 DEF CallCharge, Call
    <2> QED
      BY <2>1, <2>2, CallChargeTyped
  <1>3. CASE \E i \in 1..Len(paid) : CallRefund(g, i)
    <2>1. PICK i \in 1..Len(paid) : CallRefund(g, i)
      BY <1>3
    <2>2. UNCHANGED <<ledgers, paid, net, resets>>
      BY <2>1 DEF CallRefund, Call
    <2> QED
      BY <2>1, <2>2, CallRefundTyped
  <1>4. CASE \E t \in Tenants, op \in {"peek", "reset"} : CallOther(g, op, t)
    <2>1. PICK t \in Tenants, op \in {"peek", "reset"} : CallOther(g, op, t)
      BY <1>4
    <2>2. UNCHANGED <<ledgers, paid, net, resets>>
      BY <2>1 DEF CallOther, Call
    <2> QED
      BY <2>1, <2>2, CallOtherTyped
  <1>5. CASE Charge(g)
    BY <1>5, ChargeOutcome
  <1>6. CASE Refund(g)
    BY <1>6, RefundOutcome
  <1>7. CASE PeekQuota(g)
    BY <1>7, PeekOutcome
  <1>8. CASE ResetQuota(g)
    BY <1>8, ResetOutcome
  <1> QED
    BY <1>1, <1>2, <1>3, <1>4, <1>5, <1>6, <1>7, <1>8

LEMMA QuotaStep ==
  ASSUME QTyped, TInv, [Next]_vars
  PROVE  /\ QTyped'
         /\ \/ UNCHANGED <<ledgers, paid, net, resets>>
            \/ \E g \in Goroutines : Outcome(g)
  <1>1. Tabled /\ Kept
    BY TableStep DEF TInv
  <1>2. CASE UNCHANGED quotaVars
    BY <1>1, <1>2, QuotaStands DEF quotaVars
  <1>3. CASE QuotaNext
    BY <1>1, <1>3, QuotaKeeps, OutcomeTyped
  <1> QED
    BY <1>2, <1>3 DEF Next, vars

LEMMA InitTyped ==
  ASSUME Init
  PROVE  QTyped
  <1>1. /\ ledgers = [n \in Names |-> NIL] /\ calling = [g \in Goroutines |-> NIL]
        /\ paid = <<>>
        /\ net = [n \in Names |-> [t \in Tenants |-> 0]]
        /\ resets = [n \in Names |-> [t \in Tenants |-> 0]]
    BY DEF Init
  <1>2. net \in Nets /\ \A n \in Names, t \in Tenants : net[n][t] = 0
    BY <1>1 DEF Nets
  <1>3. resets \in Counts
    BY <1>1, QuotaAssumption DEF Counts
  <1>4. paid \in Handouts /\ Len(paid) = 0 /\ Len(paid) <= MaxPaid
    BY <1>1, QuotaAssumption DEF Handouts
  <1>5. \A n \in Names : Kosher(n)
    BY <1>1, <1>2 DEF Kosher
  <1>6. \A i \in 1..Len(paid) : FALSE
    BY <1>4
  <1> QED
    BY <1>1, <1>2, <1>3, <1>4, <1>5, <1>6 DEF QTyped

LEMMA QTypedHolds == Spec => []QTyped
  <1>1. Init => QTyped
    BY InitTyped
  <1>2. QTyped /\ TInv /\ [Next]_vars => QTyped'
    BY QuotaStep
  <1> QED
    BY <1>1, <1>2, TableHolds, PTL DEF Spec

\* A policy's ledger keeps the plan the policy has in the table, although it
\* is made long after the call that resolved it (engine.go:120): a call under
\* way has the policy that is registered, and no policy is ever changed.
THEOREM LedgerFollowsPolicyHolds == Spec => []LedgerFollowsPolicy
  <1>1. QTyped => LedgerFollowsPolicy
    BY DEF QTyped, Kosher, LedgerFollowsPolicy
  <1> QED
    BY <1>1, QTypedHolds, PTL

-----------------------------------------------------------------------------
(* Types.                                                                  *)

\* Each bound pattern is on the list once.
LEMMA ListedOnce ==
  ASSUME Listed
  PROVE  Len(binds) = Cardinality({p \in Patterns : byPat[p] # NIL})
  <1>1. PICK n, S : n = Len(binds) /\ S = {p \in Patterns : byPat[p] # NIL}
    OBVIOUS
  <1>2. PICK f : f = [i \in 1..n |-> binds[i].pattern]
    OBVIOUS
  <1>3. n \in Nat /\ \A i \in 1..n : binds[i] \in Bindings
    BY <1>1 DEF Listed
  <1>4. ASSUME NEW i \in 1..n
        PROVE  f[i] \in S
    <2>1. binds[i].pattern \in Patterns
      BY <1>3 DEF Patterns
    <2>2. byPat[binds[i].pattern] # NIL
      <3>1. byPat[binds[i].pattern] = binds[i].policy
        BY <1>1 DEF Listed
      <3> QED
        BY <1>3, <3>1, TableAssumption
    <2> QED
      BY <1>1, <1>2, <2>1, <2>2
  <1>5. \A p \in S : \E i \in 1..n : f[i] = p
    BY <1>1, <1>2 DEF Listed
  <1>6. \A i, j \in 1..n : f[i] = f[j] => i = j
    BY <1>1, <1>2 DEF Listed
  <1>7. f \in [1..n -> S]
    BY <1>2, <1>4
  <1>8. f \in Bijection(1..n, S)
    BY <1>5, <1>6, <1>7 DEF Bijection, Injection, Surjection, IsInjective
  <1>9. ExistsBijection(1..n, S)
    BY <1>8 DEF ExistsBijection
  <1> QED
    BY <1>1, <1>3, <1>9, FS_CountingElements

\* Type correctness of the table and of the ledgers, the list of bindings the
\* map, and every receipt handed out one of some ledger's.
THEOREM TypeCorrect ==
  ASSUME ReadAsWritten
  PROVE  Spec => []TypeOK
  <1>1. ASSUME TInv
        PROVE  TableTypeOK
    <2>1. \A said \in loaded : said # NIL
      BY <1>1 DEF TInv, Loading, ReadAsWritten
    <2>2. \A g \in Goroutines :
            loading[g] # NIL =>
              /\ loading[g].text \in Texts
              /\ loading[g].specs \in Seq(Policies)
              /\ loading[g].binds \in Seq(Bindings)
      <3>1. ASSUME NEW l \in Loads
            PROVE  l.text \in Texts /\ l.specs \in Seq(Policies) /\ l.binds \in Seq(Bindings)
        BY DEF Loads
      <3>2. \A g \in Goroutines : loading[g] # NIL => loading[g] \in Loads
        BY <1>1 DEF TInv, Loading
      <3> QED
        BY <3>1, <3>2
    <2>3. Len(binds) = Cardinality({p \in Patterns : byPat[p] # NIL})
      BY <1>1, ListedOnce DEF TInv
    <2> QED
      BY <1>1, <2>1, <2>2, <2>3 DEF TInv, Tabled, Listed, Loading, TableTypeOK
  <1>2. ASSUME QTyped
        PROVE  /\ ledgers \in [Names -> Ledgers \cup {NIL}]
               /\ calling \in [Goroutines -> Calls \cup {NIL}]
               /\ \A i \in 1..Len(paid) :
                    /\ paid[i].back \in Nat
                    /\ \E n \in Names :
                         /\ ledgers[n] # NIL
                         /\ paid[i].id <= Len(ledgers[n].receipts)
                         /\ ledgers[n].receipts[paid[i].id].tenant = paid[i].tenant
               /\ net \in [Names -> [Tenants -> Nat]]
               /\ resets \in [Names -> [Tenants -> 0..MaxResets]]
    <2>1. \A i \in 1..Len(paid) : paid[i] \in Handout
      BY <1>2 DEF QTyped, Handouts
    <2>2. \A i \in 1..Len(paid) : paid[i].back \in Nat
      BY <2>1 DEF Handout
    <2> QED
      BY <1>2, <2>2 DEF QTyped, Shows, Nets, Counts
  <1>3. TInv /\ QTyped => TypeOK
    BY <1>1, <1>2 DEF TypeOK
  <1> QED
    BY <1>3, TableHolds, QTypedHolds, PTL

-----------------------------------------------------------------------------
(* What is charged is on the book.                                         *)

\* All that the charges of a run can come to fits an int64.
ChargesFit == \E k \in Nat : (\A u \in Units : u <= k) /\ k * MaxPaid <= MaxI64

\* A tenant was charged x and not given back, in p charges, with r resets, and
\* a is on the line of the ledger l.
FairAt(k, l, a, x, r, p) ==
  /\ a \in Int /\ x \in Nat /\ r \in Nat /\ p \in Nat
  /\ x <= k * p
  /\ r = 0 => a = x
  /\ ~l.plan.debt =>
       /\ 0 <= a /\ a <= l.plan.hard /\ a <= x
       /\ x <= a + l.plan.hard * r

Fair(k) ==
  \A n \in Names, t \in Tenants :
    ledgers[n] # NIL =>
      FairAt(k, ledgers[n], UsedOf(ledgers[n], t), net[n][t], resets[n][t], Len(paid))

LEMMA FairStays ==
  ASSUME NEW k \in Nat, NEW l \in Ledgers, NEW m, m.plan = l.plan,
         NEW a, NEW x, NEW r, NEW p, FairAt(k, l, a, x, r, p),
         NEW q \in Nat, p <= q
  PROVE  FairAt(k, m, a, x, r, q)
  <1>1. p \in Nat /\ x \in Nat /\ x <= k * p
    BY DEF FairAt
  <1>2. k * p <= k * q /\ k * p \in Nat /\ k * q \in Nat
    BY <1>1, ProductGrows, NatProduct
  <1>3. x <= k * q
    BY <1>1, <1>2
  <1> QED
    BY <1>3 DEF FairAt

LEMMA WrapFits ==
  ASSUME NEW x \in 0..MaxI64
  PROVE  Wrap(x) = x
  BY WrappedFits DEF Wrap

LEMMA FairCharge ==
  ASSUME NEW k \in Nat, k * MaxPaid <= MaxI64, NEW l \in Ledgers, NEW m, m.plan = l.plan,
         NEW u \in Units, u <= k,
         NEW a, NEW x, NEW r, NEW p, FairAt(k, l, a, x, r, p), p + 1 <= MaxPaid,
         ~l.plan.debt => Wrap(a + u) <= l.plan.hard
  PROVE  FairAt(k, m, Wrap(a + u), x + u, r, p + 1)
  <1>1. /\ a \in Int /\ x \in Nat /\ r \in Nat /\ p \in Nat /\ x <= k * p
        /\ u \in Nat /\ MaxPaid \in Nat /\ MaxI64 \in Nat
    BY UnitIs, QuotaAssumption, MaxI64Fits DEF FairAt
  <1>2. k * (p + 1) <= k * MaxPaid /\ k * (p + 1) \in Nat /\ k * MaxPaid \in Nat /\ k * p \in Nat
    BY <1>1, ProductGrows, NatProduct
  <1>3. k * (p + 1) = k * p + k
    BY <1>1
  <1>4. x + u <= k * (p + 1) /\ x + u <= MaxI64
    BY <1>1, <1>2, <1>3
  <1>5. Wrap(a + u) \in Int
    BY <1>1, WrapIs, MaxI64Fits DEF Amounts, MinI64
  <1>6. r = 0 => Wrap(a + u) = x + u
    <2>1. r = 0 => a + u = x + u
      BY DEF FairAt
    <2>2. Wrap(x + u) = x + u
      BY <1>1, <1>4, WrapFits
    <2> QED
      BY <2>1, <2>2
  <1>7. ASSUME ~l.plan.debt
        PROVE  /\ 0 <= Wrap(a + u) /\ Wrap(a + u) <= l.plan.hard /\ Wrap(a + u) <= x + u
               /\ x + u <= Wrap(a + u) + l.plan.hard * r
    <2>1. 0 <= a /\ a <= l.plan.hard /\ a <= x /\ x <= a + l.plan.hard * r
      BY <1>7 DEF FairAt
    <2>2. a + u \in 0..MaxI64
      BY <1>1, <1>4, <2>1
    <2>3. Wrap(a + u) = a + u
      BY <2>2, WrapFits
    <2>4. l.plan.hard * r \in Nat
      BY <1>1, LedgerIs, MaxI64Fits, NatProduct
    <2>5. a + u <= l.plan.hard
      BY <1>7, <2>3
    <2>6. PICK z \in Nat : z = l.plan.hard * r
      BY <2>4
    <2>7. x + u <= (a + u) + z /\ 0 <= a + u /\ a + u <= x + u
      BY <1>1, <2>1, <2>6
    <2> QED
      BY <2>3, <2>5, <2>6, <2>7
  <1> QED
    BY <1>1, <1>4, <1>5, <1>6, <1>7 DEF FairAt

LEMMA FairRefund ==
  ASSUME NEW k \in Nat, k * MaxPaid <= MaxI64, NEW l \in Ledgers, NEW m, m.plan = l.plan,
         NEW u \in Units,
         NEW a, NEW x, NEW r, NEW p, FairAt(k, l, a, x, r, p), p <= MaxPaid, u <= x,
         NEW b, b = IF ~l.plan.debt /\ Wrap(a - u) < 0 THEN 0 ELSE Wrap(a - u)
  PROVE  FairAt(k, m, b, x - u, r, p)
  <1>1. /\ a \in Int /\ x \in Nat /\ r \in Nat /\ p \in Nat /\ x <= k * p
        /\ u \in 0..MaxI64 /\ u \in Nat /\ MaxPaid \in Nat /\ MaxI64 \in Nat
    BY UnitIs, QuotaAssumption, MaxI64Fits DEF FairAt
  <1>2. k * p <= k * MaxPaid /\ k * p \in Nat /\ k * MaxPaid \in Nat
    BY <1>1, ProductGrows, NatProduct
  <1>3. x <= MaxI64 /\ x - u \in Nat /\ x - u <= k * p /\ x - u \in 0..MaxI64
    BY <1>1, <1>2
  <1>4. b \in Int
    BY <1>1, WrapIs, MaxI64Fits DEF Amounts, MinI64
  <1>5. r = 0 => b = x - u
    <2>1. r = 0 => a - u = x - u
      BY DEF FairAt
    <2>2. Wrap(x - u) = x - u
      BY <1>3, WrapFits
    <2> QED
      BY <1>3, <2>1, <2>2
  <1>6. ASSUME ~l.plan.debt
        PROVE  /\ 0 <= b /\ b <= l.plan.hard /\ b <= x - u
               /\ x - u <= b + l.plan.hard * r
    <2>1. 0 <= a /\ a <= l.plan.hard /\ a <= x /\ x <= a + l.plan.hard * r
      BY <1>6 DEF FairAt
    <2>2. a \in 0..MaxI64
      BY <1>1, <1>3, <2>1
    <2>3. Wrap(a - u) = a - u
      BY <1>1, <2>2, WrappedDifference DEF Wrap
    <2>4. l.plan.hard * r \in Nat /\ l.plan.hard \in Nat
      BY <1>1, LedgerIs, MaxI64Fits, NatProduct
    <2>5. PICK z \in Nat : z = l.plan.hard * r
      BY <2>4
    <2>6. PICK h \in Nat : h = l.plan.hard
      BY <2>4
    <2>7. b = IF a - u < 0 THEN 0 ELSE a - u
      BY <1>6, <2>3
    <2>8. /\ 0 <= b /\ b <= h /\ b <= x - u /\ x - u <= b + z
      BY <1>1, <1>3, <2>1, <2>5, <2>6, <2>7
    <2> QED
      BY <2>5, <2>6, <2>8
  <1> QED
    BY <1>1, <1>3, <1>4, <1>5, <1>6 DEF FairAt

LEMMA FairReset ==
  ASSUME NEW k \in Nat, NEW l \in Ledgers, NEW m, m.plan = l.plan,
         NEW a, NEW x, NEW r, NEW p, FairAt(k, l, a, x, r, p)
  PROVE  FairAt(k, m, 0, x, r + 1, p)
  <1>1. /\ a \in Int /\ x \in Nat /\ r \in Nat /\ p \in Nat /\ x <= k * p
        /\ l.plan.hard \in Nat
    BY LedgerIs, MaxI64Fits DEF FairAt
  <1>2. ASSUME ~l.plan.debt
        PROVE  x <= l.plan.hard * (r + 1)
    <2>1. a <= l.plan.hard /\ x <= a + l.plan.hard * r
      BY <1>2 DEF FairAt
    <2>2. l.plan.hard * (r + 1) = l.plan.hard * r + l.plan.hard /\ l.plan.hard * r \in Nat
      BY <1>1, NatProduct
    <2> QED
      BY <1>1, <2>1, <2>2
  <1>3. ~l.plan.debt => l.plan.hard * (r + 1) \in Nat
    BY <1>1, NatProduct
  <1>4. r + 1 # 0 /\ r + 1 \in Nat
    BY <1>1
  <1> QED
    BY <1>1, <1>2, <1>3, <1>4 DEF FairAt

\* What a call finds is fair, and so is what it leaves to each tenant.
LEMMA OutcomeFair ==
  ASSUME QTyped, NEW k \in Nat, \A u \in Units : u <= k, k * MaxPaid <= MaxI64, Fair(k),
         NEW g \in Goroutines, Outcome(g)
  PROVE  Fair(k)'
  <1>1. PICK n \in Names, t \in Tenants, l \in Ledgers, m \in Ledgers :
          Settled(g, n, t, l, m) /\ Verdict(n, t, l, m)
    BY DEF Outcome
  <1>2. PICK p, q : p = Len(paid) /\ q = Len(paid')
    OBVIOUS
  <1>3. p \in Nat /\ q \in Nat /\ p <= q /\ q <= MaxPaid /\ p <= MaxPaid /\ MaxPaid \in Nat
    <2>1. paid \in Handouts /\ paid' \in Handouts /\ p <= q /\ q <= MaxPaid
      BY <1>1, <1>2 DEF QTyped, Settled
    <2>2. p \in Nat /\ q \in Nat /\ MaxPaid \in Nat
      BY <1>2, <2>1, QuotaAssumption DEF Handouts
    <2> QED
      BY <2>1, <2>2
  <1>4. ASSUME NEW y \in Tenants
        PROVE  FairAt(k, l, UsedOf(l, y), net[n][y], resets[n][y], p)
    <2>1. CASE ledgers[n] = NIL
      <3>1. UsedOf(l, y) = 0 /\ net[n][y] = 0
        BY <1>1, <2>1 DEF Settled, Found, QTyped, Kosher
      <3>2. resets[n][y] \in Nat
        BY QuotaAssumption DEF QTyped, Counts
      <3>3. l.plan.hard * resets[n][y] \in Nat /\ l.plan.hard \in Nat /\ k * p \in Nat
        BY <1>3, <3>2, LedgerIs, MaxI64Fits, NatProduct
      <3>4. FairAt(k, l, 0, 0, resets[n][y], p)
        BY <1>3, <3>2, <3>3 DEF FairAt
      <3> QED
        BY <3>1, <3>4
    <2>2. CASE ledgers[n] # NIL
      BY <1>1, <1>2, <2>2 DEF Settled, Found, Fair
    <2> QED
      BY <2>1, <2>2
  <1>5. m.plan = l.plan
    BY <1>1 DEF Settled
  <1>6. FairAt(k, m, UsedOf(m, t), net'[n][t], resets'[n][t], q)
    <2>1. PICK a, b, x, r :
            a = UsedOf(l, t) /\ b = UsedOf(m, t) /\ x = net[n][t] /\ r = resets[n][t]
      OBVIOUS
    <2>2. FairAt(k, l, a, x, r, p)
      BY <1>4, <2>1
    <2>3. CASE b = a /\ net'[n][t] = x /\ resets'[n][t] = r
      <3>1. FairAt(k, m, a, x, r, q)
        BY <1>3, <1>5, <2>2, FairStays
      <3> QED
        BY <2>1, <2>3, <3>1
    <2>4. ASSUME NEW u \in Units, q = p + 1, net'[n][t] = x + u, resets'[n][t] = r,
                 b = Wrap(a + u), ~l.plan.debt => Wrap(a + u) <= l.plan.hard
          PROVE  FairAt(k, m, UsedOf(m, t), net'[n][t], resets'[n][t], q)
      <3>1. p + 1 <= MaxPaid /\ u <= k
        BY <1>3, <2>4
      <3>2. FairAt(k, m, Wrap(a + u), x + u, r, p + 1)
        BY <1>5, <2>2, <2>4, <3>1, FairCharge
      <3> QED
        BY <2>1, <2>4, <3>2
    <2>5. ASSUME NEW u \in Units, u <= x, net'[n][t] = x - u, resets'[n][t] = r,
                 b = IF ~l.plan.debt /\ Wrap(a - u) < 0 THEN 0 ELSE Wrap(a - u)
          PROVE  FairAt(k, m, UsedOf(m, t), net'[n][t], resets'[n][t], q)
      <3>1. FairAt(k, l, b, x - u, r, p)
        BY <1>3, <2>2, <2>5, FairRefund
      <3>2. FairAt(k, m, b, x - u, r, q)
        BY <1>3, <1>5, <3>1, FairStays
      <3> QED
        BY <2>1, <2>5, <3>2
    <2>6. CASE b = 0 /\ net'[n][t] = x /\ resets'[n][t] = r + 1
      <3>1. FairAt(k, l, 0, x, r + 1, p)
        BY <2>2, FairReset
      <3>2. FairAt(k, m, 0, x, r + 1, q)
        BY <1>3, <1>5, <3>1, FairStays
      <3> QED
        BY <2>1, <2>6, <3>2
    <2> QED
      BY <1>1, <1>2, <2>1, <2>3, <2>4, <2>5, <2>6 DEF Verdict
  <1>7. ASSUME NEW i \in Names, NEW y \in Tenants, ledgers'[i] # NIL
        PROVE  FairAt(k, ledgers'[i], UsedOf(ledgers'[i], y), net'[i][y], resets'[i][y], q)
    <2>1. ledgers \in [Names -> Ledgers \cup {NIL}] /\ ledgers' = [ledgers EXCEPT ![n] = m]
      BY <1>1 DEF QTyped, Settled
    <2>2. ledgers'[n] = m /\ \A j \in Names : j # n => ledgers'[j] = ledgers[j]
      BY <2>1
    <2>3. i # n \/ y # t => net'[i][y] = net[i][y] /\ resets'[i][y] = resets[i][y]
      BY <1>1 DEF Settled
    <2>4. CASE i = n /\ y = t
      BY <1>6, <2>2, <2>4
    <2>5. CASE i = n /\ y # t
      <3>1. UsedOf(m, y) = UsedOf(l, y)
        BY <1>1, <2>5 DEF Settled
      <3>2. FairAt(k, m, UsedOf(l, y), net[n][y], resets[n][y], q)
        BY <1>3, <1>4, <1>5, FairStays
      <3> QED
        BY <2>2, <2>3, <2>5, <3>1, <3>2
    <2>6. CASE i # n
      <3>1. PICK o \in Ledgers : o = ledgers[i] /\ o # NIL
        BY <1>7, <2>1, <2>2, <2>6
      <3>2. FairAt(k, o, UsedOf(o, y), net[i][y], resets[i][y], p)
        BY <1>2, <3>1 DEF Fair
      <3>3. FairAt(k, o, UsedOf(o, y), net[i][y], resets[i][y], q)
        BY <1>3, <3>2, FairStays
      <3> QED
        BY <2>2, <2>3, <2>6, <3>1, <3>3
    <2> QED
      BY <2>4, <2>5, <2>6
  <1> QED
    BY <1>2, <1>7 DEF Fair, FairAt, UsedOf

\* Calls of any number of goroutines on one policy are on one ledger, whoever
\* comes first and makes it (engine.go:120): what the policy has charged a
\* tenant and not given back is on its line until it is reset, and within the
\* hard limit of a plan without debt, once more for every reset.
THEOREM ChargesOnOneBookHolds ==
  ASSUME ChargesFit
  PROVE  Spec => []ChargesOnOneBook
  <1>1. PICK k \in Nat : (\A u \in Units : u <= k) /\ k * MaxPaid <= MaxI64
    BY DEF ChargesFit
  <1>2. Init => Fair(k)
    BY DEF Init, Fair
  <1>3. ASSUME Fair(k), UNCHANGED <<ledgers, paid, net, resets>>
        PROVE  Fair(k)'
    BY <1>3 DEF Fair
  <1>4. QTyped /\ TInv /\ Fair(k) /\ [Next]_vars => Fair(k)'
    BY <1>1, <1>3, QuotaStep, OutcomeFair
  <1>5. ASSUME QTyped, Fair(k)
        PROVE  ChargesOnOneBook
    <2>1. ASSUME NEW n \in Names, NEW t \in Tenants, ledgers[n] # NIL
          PROVE  LET l == ledgers[n] IN
                 /\ ~l.plan.debt => net[n][t] <= l.plan.hard * (1 + resets[n][t])
                 /\ resets[n][t] = 0 =>
                      net[n][t] = IF l.accounts[t] = NIL THEN 0 ELSE l.accounts[t].used
      <3>1. PICK l \in Ledgers : l = ledgers[n]
        BY <1>5, <2>1 DEF QTyped
      <3>2. PICK a, x, r, p : /\ a = UsedOf(l, t) /\ x = net[n][t] /\ r = resets[n][t]
                              /\ p = Len(paid)
        OBVIOUS
      <3>3. FairAt(k, l, a, x, r, p)
        BY <1>5, <2>1, <3>1, <3>2 DEF Fair
      <3>4. ~l.plan.debt => x <= l.plan.hard * (1 + r)
        <4>1. FairAt(k, l, 0, x, r + 1, p)
          BY <3>3, FairReset
        <4>2. r \in Nat /\ 1 + r = r + 1 /\ l.plan.hard * (r + 1) \in Nat
          BY <3>3, LedgerIs, MaxI64Fits, NatProduct DEF FairAt
        <4> QED
          BY <4>1, <4>2 DEF FairAt
      <3>5. r = 0 => x = a
        BY <3>3 DEF FairAt
      <3> QED
        BY <3>1, <3>2, <3>4, <3>5 DEF UsedOf
    <2>2. ASSUME NEW n \in Names, NEW t \in Tenants, ledgers[n] = NIL
          PROVE  net[n][t] = 0
      BY <1>5, <2>2 DEF QTyped, Kosher
    <2> QED
      BY <2>1, <2>2 DEF ChargesOnOneBook
  <1> QED
    BY <1>2, <1>4, <1>5, TableHolds, QTypedHolds, PTL DEF Spec
=============================================================================
