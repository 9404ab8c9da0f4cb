--------------------------- MODULE RecursionFacts ---------------------------
(***************************************************************************)
(* What the recursive operators of the community modules compute, for      *)
(* every argument: FlattenSeq, with which the models list the blobs of a   *)
(* block, and MapThenSumSet, with which they add up ether and the days of  *)
(* months.  Both are recursive functions; the induction over them is the   *)
(* one over the least counterexample (theorem WFMin of                     *)
(* WellFoundedInduction), whose set of counterexamples every lemma names.  *)
(***************************************************************************)
EXTENDS Integers, Sequences, SequencesExt, FiniteSetTheorems, SequenceTheorems, TLAPS

-----------------------------------------------------------------------------
(* Induction over the naturals.                                            *)

\* A set of naturals has a least element.
LEMMA Least ==
  ASSUME NEW T, T \subseteq Nat, T # {}
  PROVE  \E n \in T : \A m \in T : n <= m
<1> DEFINE R == {ss \in Nat \X Nat : ss[1] < ss[2]}
<1>1. IsWellFoundedOn(R, Nat)
  BY NatLessThanWellFounded DEF OpToRel
<1>2. PICK n \in T : \A m \in T : ~(<<m, n>> \in R)
  <2> HIDE DEF R
  <2>1. QED
    BY <1>1, WFMin
<1>3. ASSUME NEW m \in T
      PROVE  n <= m
  <2>1. <<m, n>> \in Nat \X Nat /\ <<m, n>>[1] = m /\ <<m, n>>[2] = n
    OBVIOUS
  <2>2. ~(m < n)
    BY <1>2, <2>1
  <2>3. QED
    BY <2>2
<1>4. QED
  BY <1>3

\* A set with 0 and the successors of its members holds every natural.
LEMMA Induct ==
  ASSUME NEW S, 0 \in S, \A n \in Nat : n \in S => n + 1 \in S
  PROVE  \A n \in Nat : n \in S
<1> DEFINE T == {n \in Nat : n \notin S}
<1>1. ASSUME T # {}
      PROVE  FALSE
  <2>1. PICK n \in T : \A m \in T : n <= m
    <3>1. T \subseteq Nat
      OBVIOUS
    <3> HIDE DEF T
    <3>2. QED
      BY <1>1, <3>1, Least
  <2>2. n # 0 /\ n \in Nat /\ n - 1 \in Nat
    OBVIOUS
  <2>3. n - 1 \in S
    BY <2>1, <2>2
  <2>4. (n - 1) + 1 \in S
    BY <2>2, <2>3
  <2>5. QED
    BY <2>2, <2>4
<1>2. QED
  BY <1>1

-----------------------------------------------------------------------------
(* Concatenation.                                                          *)

\* f maps each position to the concatenation of the sequences up to there.
IsFlat(f, seqs) ==
  f = [i \in 1..Len(seqs) |-> IF i = 1 THEN seqs[i] ELSE f[i - 1] \o seqs[i]]

\* There is such a function.
LEMMA FlatExists ==
  ASSUME NEW T, NEW seqs \in Seq(Seq(T))
  PROVE  \E f \in [1..Len(seqs) -> Seq(T)] : IsFlat(f, seqs)
<1> DEFINE n == Len(seqs)
           Good(g, m) == \A i \in 1..m : g[i] = IF i = 1 THEN seqs[i] ELSE g[i - 1] \o seqs[i]
           S == {m \in Nat : m <= n => \E g \in [1..m -> Seq(T)] : Good(g, m)}
<1>1. n \in Nat /\ \A i \in 1..n : seqs[i] \in Seq(T)
  OBVIOUS
<1> HIDE DEF n
<1>2. 0 \in S
  <2>1. [i \in 1..0 |-> <<>>] \in [1..0 -> Seq(T)] /\ Good([i \in 1..0 |-> <<>>], 0)
    OBVIOUS
  <2>2. QED
    BY <2>1
<1>3. ASSUME NEW m \in Nat, m \in S
      PROVE  m + 1 \in S
  <2> SUFFICES ASSUME m + 1 <= n
               PROVE  \E g \in [1..(m + 1) -> Seq(T)] : Good(g, m + 1)
    <3> HIDE DEF Good
    <3>1. m + 1 \in Nat
      OBVIOUS
    <3>2. QED
      BY <3>1
  <2>1. PICK g \in [1..m -> Seq(T)] : Good(g, m)
    BY <1>1, <1>3
  <2> DEFINE x == IF m = 0 THEN seqs[1] ELSE g[m] \o seqs[m + 1]
             h == [i \in 1..(m + 1) |-> IF i = m + 1 THEN x ELSE g[i]]
  <2>2. m + 1 \in 1..n /\ 1 \in 1..n
    BY <1>1
  <2>3. x \in Seq(T)
    <3>1. CASE m = 0
      BY <1>1, <2>2, <3>1
    <3>2. CASE m # 0
      <4>1. m \in 1..m
        BY <3>2
      <4>2. g[m] \in Seq(T) /\ seqs[m + 1] \in Seq(T)
        BY <1>1, <2>2, <4>1
      <4>3. g[m] \o seqs[m + 1] \in Seq(T)
        BY <4>2
      <4>4. QED
        BY <3>2, <4>3
    <3>3. QED
      BY <3>1, <3>2
  <2>4. h \in [1..(m + 1) -> Seq(T)]
    BY <2>3
  <2>5. ASSUME NEW i \in 1..(m + 1)
        PROVE  h[i] = IF i = 1 THEN seqs[i] ELSE h[i - 1] \o seqs[i]
    <3>1. CASE i = m + 1
      BY <3>1
    <3>2. CASE i # m + 1
      <4>1. i \in 1..m /\ (i # 1 => i - 1 \in 1..m)
        BY <3>2
      <4>2. h[i] = g[i] /\ (i # 1 => h[i - 1] = g[i - 1])
        BY <3>2, <4>1
      <4>3. g[i] = IF i = 1 THEN seqs[i] ELSE g[i - 1] \o seqs[i]
        BY <2>1, <4>1
      <4> HIDE DEF h
      <4>4. QED
        BY <4>2, <4>3
    <3>3. QED
      BY <3>1, <3>2
  <2>6. QED
    BY <2>4, <2>5
<1>4. n \in S
  <2> HIDE DEF S
  <2>1. QED
    BY <1>1, <1>2, <1>3, Induct
<1>5. PICK g \in [1..n -> Seq(T)] : Good(g, n)
  BY <1>4
<1>6. g = [i \in 1..n |-> IF i = 1 THEN seqs[i] ELSE g[i - 1] \o seqs[i]]
  BY <1>5
<1>7. QED
  BY <1>5, <1>6 DEF IsFlat, n

\* f and g are the same on S.
Agree(f, g, S) == \A x \in S : f[x] = g[x]

\* s is where t starts.
IsStart(s, t) ==
  /\ Len(s) \in Nat /\ Len(t) \in Nat /\ Len(s) <= Len(t)
  /\ Agree(s, t, 1..Len(s))

\* Over a common prefix there is one.
LEMMA FlatUnique ==
  ASSUME NEW s, NEW t, IsStart(s, t), NEW f, IsFlat(f, s), NEW g, IsFlat(g, t)
  PROVE  Agree(f, g, 1..Len(s))
<1> DEFINE S == {m \in Nat : m \in 1..Len(s) => f[m] = g[m]}
<1>1. /\ \A i \in 1..Len(s) : f[i] = IF i = 1 THEN s[i] ELSE f[i - 1] \o s[i]
      /\ \A i \in 1..Len(t) : g[i] = IF i = 1 THEN t[i] ELSE g[i - 1] \o t[i]
  BY DEF IsFlat, IsStart
<1>2. 0 \in S
  OBVIOUS
<1>3. ASSUME NEW m \in Nat, m \in S
      PROVE  m + 1 \in S
  <2> SUFFICES ASSUME m + 1 \in 1..Len(s) PROVE f[m + 1] = g[m + 1]
    OBVIOUS
  <2>1. m + 1 \in 1..Len(t) /\ (m + 1) - 1 = m
    BY DEF IsStart
  <2>2. s[m + 1] = t[m + 1]
    BY DEF IsStart, Agree
  <2>3. m = 0 \/ f[m] = g[m]
    BY <1>3
  <2>4. QED
    BY <1>1, <2>1, <2>2, <2>3
<1>4. \A m \in Nat : m \in S
  <2> HIDE DEF S
  <2>1. QED
    BY <1>2, <1>3, Induct
<1>5. QED
  BY <1>4 DEF IsStart, Agree

\* FlattenSeq is its last value.
LEMMA FlattenIsFlat ==
  ASSUME NEW T, NEW seqs \in Seq(Seq(T)), Len(seqs) # 0
  PROVE  \E f \in [1..Len(seqs) -> Seq(T)] : IsFlat(f, seqs) /\ FlattenSeq(seqs) = f[Len(seqs)]
<1> DEFINE f == CHOOSE flatten : flatten = [i \in 1..Len(seqs) |->
                   IF i = 1 THEN seqs[i] ELSE flatten[i - 1] \o seqs[i]]
<1>1. FlattenSeq(seqs) = f[Len(seqs)]
  BY DEF FlattenSeq
<1>2. PICK g \in [1..Len(seqs) -> Seq(T)] : IsFlat(g, seqs)
  BY FlatExists
<1>3. IsFlat(f, seqs)
  BY <1>2 DEF IsFlat
<1>4. QED
  <2> HIDE DEF f
  <2>1. \A i \in 1..Len(seqs) : f[i] = g[i]
    <3>1. IsStart(seqs, seqs)
      BY DEF IsStart, Agree
    <3>2. Agree(f, g, 1..Len(seqs))
      BY <1>2, <1>3, <3>1, FlatUnique
    <3>3. QED
      BY <3>2 DEF Agree
  <2>2. f \in [1..Len(seqs) -> Seq(T)]
    BY <1>2, <1>3, <2>1 DEF IsFlat
  <2>3. QED
    BY <1>1, <1>3, <2>2

\* The concatenation is a sequence of the elements of the parts.
LEMMA FlattenTyped ==
  ASSUME NEW T, NEW seqs \in Seq(Seq(T))
  PROVE  FlattenSeq(seqs) \in Seq(T)
<1>1. CASE Len(seqs) = 0
  <2>1. seqs = <<>>
    BY <1>1
  <2>2. QED
    BY <2>1 DEF FlattenSeq
<1>2. CASE Len(seqs) # 0
  <2>1. PICK f \in [1..Len(seqs) -> Seq(T)] : FlattenSeq(seqs) = f[Len(seqs)]
    BY <1>2, FlattenIsFlat
  <2>2. Len(seqs) \in 1..Len(seqs)
    BY <1>2
  <2>3. QED
    BY <2>1, <2>2
<1>3. QED
  BY <1>1, <1>2

\* One part more at the end.
LEMMA FlattenAppend ==
  ASSUME NEW T, NEW seqs \in Seq(Seq(T)), NEW last \in Seq(T)
  PROVE  FlattenSeq(Append(seqs, last)) = FlattenSeq(seqs) \o last
<1> DEFINE n == Len(seqs)
<1>0. PICK all : all = Append(seqs, last)
  OBVIOUS
<1>1. /\ n \in Nat /\ all \in Seq(Seq(T)) /\ Len(all) = n + 1 /\ all[n + 1] = last
      /\ \A i \in 1..n : all[i] = seqs[i]
  BY <1>0
<1> HIDE DEF n
<1>2. PICK g \in [1..Len(all) -> Seq(T)] : IsFlat(g, all) /\ FlattenSeq(all) = g[Len(all)]
  <2>1. all \in Seq(Seq(T)) /\ Len(all) # 0
    BY <1>1
  <2>2. QED
    BY <2>1, FlattenIsFlat
<1>3. g[n + 1] = IF n + 1 = 1 THEN all[n + 1] ELSE g[(n + 1) - 1] \o all[n + 1]
  <2>1. n + 1 \in 1..Len(all)
    BY <1>1
  <2>2. QED
    BY <1>2, <2>1 DEF IsFlat
<1>4. CASE n = 0
  <2>1. FlattenSeq(all) = last
    BY <1>1, <1>2, <1>3, <1>4
  <2>2. seqs = <<>>
    BY <1>4 DEF n
  <2>3. FlattenSeq(seqs) = <<>>
    BY <2>2 DEF FlattenSeq
  <2>4. QED
    BY <1>0, <2>1, <2>3
<1>5. CASE n # 0
  <2>1. PICK f \in [1..n -> Seq(T)] : IsFlat(f, seqs) /\ FlattenSeq(seqs) = f[n]
    BY <1>5, FlattenIsFlat DEF n
  <2>2. f[n] = g[n]
    <3>1. Len(seqs) = n /\ Len(seqs) <= Len(all) /\ n \in 1..n
      BY <1>1, <1>5 DEF n
    <3>2. \A i \in 1..Len(seqs) : f[i] = g[i]
      <4>1. /\ Len(seqs) \in Nat /\ Len(all) \in Nat
            /\ \A i \in 1..Len(seqs) : seqs[i] = all[i]
        BY <1>1, <3>1
      <4>2. IsFlat(f, seqs) /\ IsFlat(g, all) /\ Len(seqs) <= Len(all)
        BY <1>2, <2>1, <3>1
      <4>3. IsStart(seqs, all)
        BY <4>1, <4>2 DEF IsStart, Agree
      <4>4. Agree(f, g, 1..Len(seqs))
        BY <4>2, <4>3, FlatUnique
      <4>5. QED
        BY <4>4 DEF Agree
    <3>3. QED
      BY <3>1, <3>2
  <2>3. FlattenSeq(all) = g[n] \o last
    BY <1>1, <1>2, <1>3, <1>5, SMTT(30)
  <2>4. QED
    BY <1>0, <2>1, <2>2, <2>3
<1>6. QED
  BY <1>4, <1>5

-----------------------------------------------------------------------------
(* Sums.                                                                   *)

\* The sum of f[x] for the x in S.
SumOver(f, S) == MapThenSumSet(LAMBDA x : f[x], S)

\* g maps each subset to its sum.
IsSum(g, f, S) ==
  g = [s \in SUBSET S |->
         IF s = {} THEN 0
         ELSE f[CHOOSE x \in s : TRUE] + g[s \ {CHOOSE x \in s : TRUE}]]

\* Without one of its elements a finite set is smaller by one.
LEMMA Smaller ==
  ASSUME NEW S, IsFiniteSet(S), NEW x \in S
  PROVE  /\ IsFiniteSet(S \ {x}) /\ Cardinality(S \ {x}) = Cardinality(S) - 1
         /\ Cardinality(S) \in Nat /\ Cardinality(S) # 0
BY FS_RemoveElement, FS_CardinalityType, FS_EmptySet

\* Induction over the size of the subsets of a finite set.
LEMMA SizeInduct ==
  ASSUME NEW S, IsFiniteSet(S), NEW Good \in SUBSET SUBSET S,
         \A s \in SUBSET S : (\A t \in SUBSET S : Cardinality(t) < Cardinality(s) => t \in Good) => s \in Good
  PROVE  \A s \in SUBSET S : s \in Good
<1> DEFINE N == {n \in Nat : \A s \in SUBSET S : Cardinality(s) < n => s \in Good}
<1>1. \A s \in SUBSET S : Cardinality(s) \in Nat
  BY FS_Subset, FS_CardinalityType
<1>2. 0 \in N
  BY <1>1
<1>3. ASSUME NEW n \in Nat, n \in N
      PROVE  n + 1 \in N
  <2>1. ASSUME NEW s \in SUBSET S, Cardinality(s) < n + 1
        PROVE  s \in Good
    <3>1. \A t \in SUBSET S : Cardinality(t) < Cardinality(s) => Cardinality(t) < n
      BY <1>1, <2>1
    <3>2. QED
      BY <1>3, <3>1
  <2>2. QED
    BY <2>1
<1>4. \A n \in Nat : n \in N
  <2> HIDE DEF N
  <2>1. QED
    BY <1>2, <1>3, Induct
<1>5. ASSUME NEW s \in SUBSET S
      PROVE  s \in Good
  <2>1. Cardinality(s) + 1 \in Nat /\ Cardinality(s) < Cardinality(s) + 1
    BY <1>1
  <2>2. Cardinality(s) + 1 \in N
    BY <1>4, <2>1
  <2>3. QED
    BY <2>1, <2>2
<1>6. QED
  BY <1>5

\* Over a common subset there is one such function.
LEMMA SumUnique ==
  ASSUME NEW S, IsFiniteSet(S), NEW T, S \subseteq T, NEW f, NEW e, \A x \in S : f[x] = e[x],
         NEW g, IsSum(g, f, S), NEW h, IsSum(h, e, T)
  PROVE  \A s \in SUBSET S : g[s] = h[s]
<1> DEFINE Good == {s \in SUBSET S : g[s] = h[s]}
<1>1. ASSUME NEW s \in SUBSET S,
             \A t \in SUBSET S : Cardinality(t) < Cardinality(s) => t \in Good
      PROVE  s \in Good
  <2>1. s \in SUBSET T
    OBVIOUS
  <2>2. CASE s = {}
    <3>1. g[s] = 0 /\ h[s] = 0
      BY <2>1, <2>2 DEF IsSum
    <3>2. QED
      BY <3>1
  <2>3. CASE s # {}
    <3> DEFINE x == CHOOSE x \in s : TRUE
    <3>1. x \in s
      BY <2>3
    <3>2. g[s] = f[x] + g[s \ {x}] /\ h[s] = e[x] + h[s \ {x}]
      BY <2>1, <2>3 DEF IsSum
    <3> HIDE DEF x
    <3>3. IsFiniteSet(s)
      BY FS_Subset
    <3>4. Cardinality(s \ {x}) < Cardinality(s)
      BY <3>1, <3>3, Smaller
    <3>5. s \ {x} \in Good
      BY <1>1, <3>4
    <3>6. QED
      BY <3>1, <3>2, <3>5
  <2>4. QED
    BY <2>2, <2>3
<1>2. QED
  <2>1. Good \in SUBSET SUBSET S
    OBVIOUS
  <2>2. \A s \in SUBSET S : s \in Good
    <3> HIDE DEF Good
    <3>1. QED
      BY <1>1, <2>1, SizeInduct
  <2>3. QED
    BY <2>2

\* There is one.
LEMMA SumExists ==
  ASSUME NEW S, IsFiniteSet(S), NEW f, \A x \in S : f[x] \in Nat
  PROVE  \E g \in [SUBSET S -> Nat] : IsSum(g, f, S)
<1> DEFINE Upto(n) == {s \in SUBSET S : Cardinality(s) <= n}
           Eq(g, s) == g[s] = IF s = {} THEN 0
                              ELSE f[CHOOSE x \in s : TRUE] + g[s \ {CHOOSE x \in s : TRUE}]
           Has(n) == \E g \in [Upto(n) -> Nat] : \A s \in Upto(n) : Eq(g, s)
           N == {n \in Nat : Has(n)}
<1>1. \A s \in SUBSET S : IsFiniteSet(s) /\ Cardinality(s) \in Nat
  BY FS_Subset, FS_CardinalityType
<1>2. 0 \in N
  <2> DEFINE g == [s \in Upto(0) |-> 0]
  <2>1. \A s \in Upto(0) : s = {}
    BY <1>1, FS_EmptySet
  <2>2. \A s \in Upto(0) : Eq(g, s)
    BY <2>1
  <2>3. g \in [Upto(0) -> Nat]
    OBVIOUS
  <2> HIDE DEF Eq, Upto, g
  <2>4. QED
    BY <2>2, <2>3
<1>3. ASSUME NEW n \in Nat, n \in N
      PROVE  n + 1 \in N
  <2>1. PICK g \in [Upto(n) -> Nat] : \A s \in Upto(n) : Eq(g, s)
    BY <1>3
  <2> DEFINE One(s) == CHOOSE x \in s : TRUE
             h == [s \in Upto(n + 1) |-> IF s = {} THEN 0 ELSE f[One(s)] + g[s \ {One(s)}]]
  <2>2. ASSUME NEW s \in Upto(n + 1), s # {}
        PROVE  One(s) \in s /\ s \ {One(s)} \in Upto(n)
    <3>1. One(s) \in s
      BY <2>2
    <3> HIDE DEF One
    <3>2. Cardinality(s \ {One(s)}) = Cardinality(s) - 1
      BY <1>1, <3>1, Smaller
    <3>3. QED
      BY <1>1, <3>1, <3>2
  <2>3. h \in [Upto(n + 1) -> Nat]
    <3>1. ASSUME NEW s \in Upto(n + 1), s # {}
          PROVE  f[One(s)] + g[s \ {One(s)}] \in Nat
      <4>1. f[One(s)] \in Nat /\ g[s \ {One(s)}] \in Nat
        BY <2>2, <3>1
      <4>2. QED
        BY <4>1
    <3> HIDE DEF Upto, One
    <3>2. QED
      BY <3>1
  <2>4. ASSUME NEW s \in Upto(n)
        PROVE  s \in Upto(n + 1) /\ h[s] = g[s]
    <3>1. s \in Upto(n + 1)
      BY <1>1
    <3>2. Eq(g, s)
      BY <2>1
    <3> HIDE DEF Upto
    <3>3. QED
      BY <3>1, <3>2
  <2>5. ASSUME NEW s \in Upto(n + 1)
        PROVE  Eq(h, s)
    <3>1. h[s] = IF s = {} THEN 0 ELSE f[One(s)] + g[s \ {One(s)}]
      OBVIOUS
    <3>2. s # {} => h[s \ {One(s)}] = g[s \ {One(s)}]
      <4> HIDE DEF h, Upto, One
      <4>1. QED
        BY <2>2, <2>4
    <3> HIDE DEF h, Upto
    <3>3. QED
      BY <3>1, <3>2
  <2> HIDE DEF Eq, Upto, h
  <2>6. QED
    BY <2>3, <2>5
<1>4. Cardinality(S) \in N
  <2>1. Cardinality(S) \in Nat
    BY <1>1
  <2> HIDE DEF N
  <2>2. QED
    BY <1>2, <1>3, <2>1, Induct
<1>5. Upto(Cardinality(S)) = SUBSET S
  BY <1>1, FS_Subset
<1>6. PICK g \in [SUBSET S -> Nat] : \A s \in SUBSET S : Eq(g, s)
  <2> HIDE DEF Upto
  <2>1. QED
    BY <1>4, <1>5
<1>7. QED
  BY <1>6 DEF IsSum

\* SumOver is its value for the whole set.
LEMMA SumIsSum ==
  ASSUME NEW S, IsFiniteSet(S), NEW f, \A x \in S : f[x] \in Nat
  PROVE  \E g \in [SUBSET S -> Nat] : IsSum(g, f, S) /\ SumOver(f, S) = g[S]
<1> DEFINE g == CHOOSE iter : iter = [s \in SUBSET S |->
                  IF s = {} THEN 0
                  ELSE f[CHOOSE x \in s : TRUE] + iter[s \ {CHOOSE x \in s : TRUE}]]
<1>1. SumOver(f, S) = g[S]
  BY DEF SumOver, MapThenSumSet, MapThenFoldSet
<1>2. PICK h \in [SUBSET S -> Nat] : IsSum(h, f, S)
  BY SumExists
<1>3. IsSum(g, f, S)
  BY <1>2 DEF IsSum
<1> HIDE DEF g
<1>4. \A s \in SUBSET S : g[s] = h[s]
  BY <1>2, <1>3, SumUnique
<1>5. g \in [SUBSET S -> Nat]
  BY <1>2, <1>3, <1>4 DEF IsSum
<1>6. QED
  BY <1>1, <1>3, <1>5

\* The sum of nothing, and the value of any other sum.
LEMMA SumStep ==
  ASSUME NEW S, IsFiniteSet(S), NEW f, \A x \in S : f[x] \in Nat
  PROVE  /\ SumOver(f, S) \in Nat
         /\ S = {} => SumOver(f, S) = 0
         /\ S # {} => \E x \in S : x = (CHOOSE y \in S : TRUE)
                                   /\ SumOver(f, S) = f[x] + SumOver(f, S \ {x})
<1>1. PICK g \in [SUBSET S -> Nat] : IsSum(g, f, S) /\ SumOver(f, S) = g[S]
  BY SumIsSum
<1>2. S \in SUBSET S
  OBVIOUS
<1>3. S = {} => g[S] = 0
  BY <1>1, <1>2 DEF IsSum
<1>4. ASSUME S # {}
      PROVE  \E x \in S : x = (CHOOSE y \in S : TRUE)
                          /\ SumOver(f, S) = f[x] + SumOver(f, S \ {x})
  <2> DEFINE x == CHOOSE y \in S : TRUE
  <2>1. x \in S
    BY <1>4
  <2>2. g[S] = f[x] + g[S \ {x}]
    BY <1>1, <1>2, <1>4 DEF IsSum
  <2> HIDE DEF x
  <2>3. IsFiniteSet(S \ {x})
    BY FS_Subset
  <2>4. PICK h \in [SUBSET (S \ {x}) -> Nat] :
          IsSum(h, f, S \ {x}) /\ SumOver(f, S \ {x}) = h[S \ {x}]
    BY <2>3, SumIsSum
  <2>5. \A s \in SUBSET (S \ {x}) : h[s] = g[s]
    BY <1>1, <2>3, <2>4, SumUnique
  <2>6. SumOver(f, S) = f[x] + SumOver(f, S \ {x})
    BY <1>1, <2>2, <2>4, <2>5
  <2>7. QED
    BY <2>1, <2>6 DEF x
<1>5. QED
  BY <1>1, <1>2, <1>3, <1>4

\* Sums of functions that agree.
LEMMA SumAgree ==
  ASSUME NEW S, IsFiniteSet(S), NEW f, \A x \in S : f[x] \in Nat,
         NEW e, \A x \in S : f[x] = e[x]
  PROVE  SumOver(f, S) = SumOver(e, S)
<1>1. \A x \in S : e[x] \in Nat
  OBVIOUS
<1>2. PICK g \in [SUBSET S -> Nat] : IsSum(g, f, S) /\ SumOver(f, S) = g[S]
  BY SumIsSum
<1>3. PICK h \in [SUBSET S -> Nat] : IsSum(h, e, S) /\ SumOver(e, S) = h[S]
  BY <1>1, SumIsSum
<1>4. \A s \in SUBSET S : g[s] = h[s]
  BY <1>2, <1>3, SumUnique
<1>5. QED
  BY <1>2, <1>3, <1>4

\* Any element may be taken out of a sum.
LEMMA SumRemove ==
  ASSUME NEW S, IsFiniteSet(S), NEW f, \A x \in S : f[x] \in Nat
  PROVE  \A x \in S : SumOver(f, S) = f[x] + SumOver(f, S \ {x})
<1> DEFINE Good == {s \in SUBSET S : \A x \in s : SumOver(f, s) = f[x] + SumOver(f, s \ {x})}
<1>1. \A s \in SUBSET S : IsFiniteSet(s) /\ SumOver(f, s) \in Nat
  <2>1. ASSUME NEW s \in SUBSET S
        PROVE  IsFiniteSet(s) /\ SumOver(f, s) \in Nat
    <3>1. IsFiniteSet(s) /\ \A x \in s : f[x] \in Nat
      BY FS_Subset
    <3>2. QED
      BY <3>1, SumStep
  <2>2. QED
    BY <2>1
<1>2. ASSUME NEW s \in SUBSET S,
             \A t \in SUBSET S : Cardinality(t) < Cardinality(s) => t \in Good
      PROVE  s \in Good
  <2>1. ASSUME NEW x \in s
        PROVE  SumOver(f, s) = f[x] + SumOver(f, s \ {x})
    <3>1. IsFiniteSet(s) /\ \A y \in s : f[y] \in Nat
      BY <1>1
    <3>2. PICK c \in s : c = (CHOOSE y \in s : TRUE) /\ SumOver(f, s) = f[c] + SumOver(f, s \ {c})
      BY <2>1, <3>1, SumStep
    <3>3. CASE c = x
      BY <3>2, <3>3
    <3>4. CASE c # x
      <4>1. PICK t \in SUBSET S : t = s \ {c}
        OBVIOUS
      <4>2. PICK u \in SUBSET S : u = s \ {x}
        OBVIOUS
      <4>3. Cardinality(t) < Cardinality(s) /\ Cardinality(u) < Cardinality(s)
        BY <3>1, <4>1, <4>2, Smaller
      <4>4. x \in t /\ c \in u /\ t \ {x} = u \ {c} /\ t \ {x} \in SUBSET S
        BY <3>4, <4>1, <4>2
      <4>5. SumOver(f, t) = f[x] + SumOver(f, t \ {x})
        BY <1>2, <4>3, <4>4
      <4>6. SumOver(f, u) = f[c] + SumOver(f, u \ {c})
        BY <1>2, <4>3, <4>4
      <4>7. SumOver(f, t \ {x}) \in Nat /\ f[x] \in Nat /\ f[c] \in Nat
        BY <1>1, <3>1, <4>4
      <4> HIDE DEF Good
      <4>8. QED
        BY <3>2, <4>1, <4>2, <4>4, <4>5, <4>6, <4>7
    <3>5. QED
      BY <3>3, <3>4
  <2>2. QED
    BY <2>1
<1>3. \A s \in SUBSET S : s \in Good
  <2>1. Good \in SUBSET SUBSET S
    OBVIOUS
  <2> HIDE DEF Good
  <2>2. QED
    BY <1>2, <2>1, SizeInduct
<1>4. QED
  BY <1>3

\* f is a natural on S.
NatOn(f, S) == \A x \in S : f[x] \in Nat

\* The two facts about sums, for functions known by that.
LEMMA SumTake ==
  ASSUME NEW S, IsFiniteSet(S), NEW f, NatOn(f, S), NEW x \in S
  PROVE  SumOver(f, S) = f[x] + SumOver(f, S \ {x})
BY SumRemove DEF NatOn

\* And for functions that are the same.
LEMMA SumSame ==
  ASSUME NEW S, IsFiniteSet(S), NEW f, NatOn(f, S), NEW e, Agree(f, e, S)
  PROVE  SumOver(f, S) = SumOver(e, S) /\ SumOver(f, S) \in Nat
BY SumAgree, SumStep DEF NatOn, Agree

-----------------------------------------------------------------------------
(* Searching.                                                              *)

\* Min of FiniteSetsExt is the least element.
LEMMA MinIsLeast ==
  ASSUME NEW T, T \subseteq Nat, T # {}
  PROVE  Min(T) \in T /\ \A m \in T : Min(T) <= m
BY Least DEF Min

-----------------------------------------------------------------------------
(* Concatenation, one part after the other.                                *)

\* The first n parts, concatenated.
UpTo(f, n) == FlattenSeq([k \in 1..n |-> f[k]])

\* They are sequences over T.
PartsOf(f, n, T) == \A k \in 1..n : f[k] \in Seq(T)

\* No part, and one part more.
LEMMA UpToStep ==
  ASSUME NEW T, NEW f, NEW n \in Nat, PartsOf(f, n + 1, T)
  PROVE  /\ UpTo(f, n) \in Seq(T)
         /\ UpTo(f, n + 1) = UpTo(f, n) \o f[n + 1]
<1> DEFINE parts == [k \in 1..n |-> f[k]]
<1>1. \A k \in 1..(n + 1) : f[k] \in Seq(T)
  BY DEF PartsOf
<1>2. n + 1 \in 1..(n + 1) /\ \A k \in 1..n : k \in 1..(n + 1)
  OBVIOUS
<1>3. parts \in Seq(Seq(T)) /\ f[n + 1] \in Seq(T) /\ Len(parts) = n
  BY <1>1, <1>2
<1>4. [k \in 1..(n + 1) |-> f[k]] = Append(parts, f[n + 1])
  OBVIOUS
<1> HIDE DEF parts
<1>5. FlattenSeq(Append(parts, f[n + 1])) = FlattenSeq(parts) \o f[n + 1]
  BY <1>3, FlattenAppend
<1>6. FlattenSeq(parts) \in Seq(T)
  BY <1>3, FlattenTyped
<1>7. QED
  BY <1>4, <1>5, <1>6 DEF UpTo, parts

\* Nothing concatenated.
LEMMA UpToNone ==
  ASSUME NEW f
  PROVE  UpTo(f, 0) = <<>>
BY DEF UpTo, FlattenSeq

\* What is in a concatenation of two.
LEMMA Joined ==
  ASSUME NEW T, NEW s \in Seq(T), NEW t \in Seq(T), NEW all, all = s \o t
  PROVE  /\ all \in Seq(T) /\ Len(all) = Len(s) + Len(t)
         /\ Len(s) \in Nat /\ Len(t) \in Nat
         /\ \A k \in 1..Len(s) : all[k] = s[k]
         /\ \A j \in 1..Len(t) : all[Len(s) + j] = t[j]
<1>1. s \o t \in Seq(T) /\ Len(s \o t) = Len(s) + Len(t)
  OBVIOUS
<1>2. \A k \in 1..Len(s) : (s \o t)[k] = s[k]
  OBVIOUS
<1>3. \A j \in 1..Len(t) : (s \o t)[Len(s) + j] = t[j]
  OBVIOUS
<1>4. QED
  BY <1>1, <1>2, <1>3

\* The first parts are where all of them start.
LEMMA UpToStart ==
  ASSUME NEW T, NEW f, NEW n \in Nat, PartsOf(f, n, T), NEW i \in 0..n
  PROVE  UpTo(f, n) \in Seq(T) /\ UpTo(f, i) \in Seq(T) /\ IsStart(UpTo(f, i), UpTo(f, n))
<1> DEFINE S == {m \in Nat : m <= n => UpTo(f, m) \in Seq(T)
                                       /\ (i <= m => IsStart(UpTo(f, i), UpTo(f, m)))}
<1>1. 0 \in S
  <2>1. PICK none : none = <<>>
    OBVIOUS
  <2>2. UpTo(f, 0) = none /\ (i <= 0 => i = 0)
    BY <2>1, UpToNone
  <2>3. none \in Seq(T) /\ Len(none) = 0
    BY <2>1
  <2>4. IsStart(none, none)
    BY <2>3 DEF IsStart, Agree
  <2>5. i <= 0 => UpTo(f, i) = none
    BY <2>2
  <2>6. QED
    BY <2>2, <2>3, <2>4, <2>5
<1>2. ASSUME NEW m \in Nat, m \in S
      PROVE  m + 1 \in S
  <2> SUFFICES ASSUME m + 1 <= n
               PROVE  UpTo(f, m + 1) \in Seq(T)
                      /\ (i <= m + 1 => IsStart(UpTo(f, i), UpTo(f, m + 1)))
    OBVIOUS
  <2>1. m + 1 \in 1..n /\ m <= n
    OBVIOUS
  <2>2. PartsOf(f, m + 1, T) /\ f[m + 1] \in Seq(T)
    BY <2>1 DEF PartsOf
  <2>3. PICK part \in Seq(T) : part = f[m + 1]
    BY <2>2
  <2>4. PICK now \in Seq(T) : now = UpTo(f, m) /\ UpTo(f, m + 1) = now \o part
    BY <2>2, <2>3, UpToStep
  <2>5. PICK all : all = now \o part
    OBVIOUS
  <2>6. /\ UpTo(f, m + 1) = all /\ all \in Seq(T) /\ Len(all) \in Nat
        /\ Len(all) = Len(now) + Len(part) /\ Len(now) \in Nat /\ Len(part) \in Nat
        /\ \A k \in 1..Len(now) : all[k] = now[k]
    BY <2>4, <2>5, Joined
  <2>7. CASE i = m + 1
    <3>1. IsStart(all, all)
      BY <2>6 DEF IsStart, Agree
    <3>2. QED
      BY <2>6, <2>7, <3>1
  <2>8. CASE i # m + 1
    <3>1. i <= m + 1 => IsStart(UpTo(f, i), now)
      BY <1>2, <2>1, <2>4, <2>8
    <3>2. Len(now) <= Len(all)
      BY <2>6
    <3>3. i <= m + 1 => IsStart(UpTo(f, i), all)
      BY <2>6, <3>1, <3>2 DEF IsStart, Agree
    <3>4. QED
      BY <2>6, <3>3
  <2>9. QED
    BY <2>7, <2>8
<1>3. \A m \in Nat : m \in S
  <2> HIDE DEF S
  <2>1. QED
    BY <1>1, <1>2, Induct
<1>4. n \in S /\ i \in S /\ i <= n /\ i <= i
  BY <1>3
<1>5. QED
  BY <1>4

\* Part i lies behind those before it.
IsPlaced(f, n, i) ==
  /\ Len(UpTo(f, i - 1)) \in Nat /\ Len(f[i]) \in Nat
  /\ Len(UpTo(f, i)) = Len(UpTo(f, i - 1)) + Len(f[i])
  /\ Len(UpTo(f, i)) <= Len(UpTo(f, n))
  /\ \A j \in 1..Len(f[i]) : UpTo(f, n)[Len(UpTo(f, i - 1)) + j] = f[i][j]

\* Where each part is.
LEMMA UpToAt ==
  ASSUME NEW T, NEW f, NEW n \in Nat, PartsOf(f, n, T), NEW i \in 1..n
  PROVE  IsPlaced(f, n, i)
<1>1. i - 1 \in Nat /\ (i - 1) + 1 = i /\ PartsOf(f, (i - 1) + 1, T) /\ i \in 0..n
  BY DEF PartsOf
<1>2. PICK part \in Seq(T) : part = f[i]
  BY DEF PartsOf
<1>3. PICK left \in Seq(T) : left = UpTo(f, i - 1) /\ UpTo(f, i) = left \o part
  BY <1>1, <1>2, UpToStep
<1>4. PICK here : here = left \o part
  OBVIOUS
<1>5. /\ here \in Seq(T) /\ Len(here) = Len(left) + Len(part)
      /\ Len(left) \in Nat /\ Len(part) \in Nat /\ UpTo(f, i) = here
      /\ \A j \in 1..Len(part) : here[Len(left) + j] = part[j]
  BY <1>3, <1>4, Joined
<1>6. PICK all \in Seq(T) : all = UpTo(f, n) /\ IsStart(here, all)
  BY <1>1, <1>5, UpToStart
<1>7. Len(here) <= Len(all) /\ \A k \in 1..Len(here) : all[k] = here[k]
  BY <1>6 DEF IsStart, Agree
<1>8. ASSUME NEW j \in 1..Len(part)
      PROVE  all[Len(left) + j] = part[j]
  <2>1. Len(left) + j \in 1..Len(here)
    BY <1>5
  <2>2. QED
    BY <1>5, <1>7, <2>1
<1>9. QED
  BY <1>2, <1>3, <1>5, <1>6, <1>7, <1>8 DEF IsPlaced

\* The parts have this length.
Even(f, n, len) == \A k \in 1..n : Len(f[k]) = len

\* Part i lies at a multiple of it.
IsPlacedEvenly(f, n, len, i) ==
  \A j \in 1..len : UpTo(f, n)[(i - 1) * len + j] = f[i][j]

\* Parts of one length lie at its multiples.
LEMMA EvenParts ==
  ASSUME NEW T, NEW f, NEW n \in Nat, PartsOf(f, n, T), NEW len \in Nat, Even(f, n, len)
  PROVE  /\ UpTo(f, n) \in Seq(T) /\ Len(UpTo(f, n)) = n * len
         /\ \A i \in 1..n : IsPlacedEvenly(f, n, len, i)
<1> DEFINE S == {m \in Nat : m <= n => Len(UpTo(f, m)) = m * len}
<1>1. 0 \in S
  <2>1. Len(UpTo(f, 0)) = 0 /\ 0 * len = 0
    BY UpToNone
  <2>2. QED
    BY <2>1
<1>2. ASSUME NEW m \in Nat, m \in S
      PROVE  m + 1 \in S
  <2> SUFFICES ASSUME m + 1 <= n
               PROVE  Len(UpTo(f, m + 1)) = (m + 1) * len
    OBVIOUS
  <2>1. m + 1 \in 1..n /\ m <= n /\ (m + 1) - 1 = m
    OBVIOUS
  <2>2. IsPlaced(f, n, m + 1)
    BY <2>1, UpToAt
  <2>3. Len(UpTo(f, m + 1)) = Len(UpTo(f, m)) + Len(f[m + 1])
    BY <2>1, <2>2 DEF IsPlaced
  <2>4. Len(UpTo(f, m)) = m * len /\ Len(f[m + 1]) = len
    BY <1>2, <2>1 DEF Even
  <2>5. (m + 1) * len = m * len + len
    OBVIOUS
  <2>6. QED
    BY <2>3, <2>4, <2>5
<1>3. \A m \in Nat : m <= n => Len(UpTo(f, m)) = m * len
  <2>1. \A m \in Nat : m \in S
    <3> HIDE DEF S
    <3>1. QED
      BY <1>1, <1>2, Induct
  <2>2. QED
    BY <2>1
<1>4. ASSUME NEW i \in 1..n
      PROVE  IsPlacedEvenly(f, n, len, i)
  <2>1. i - 1 \in Nat /\ i - 1 <= n
    OBVIOUS
  <2>2. Len(UpTo(f, i - 1)) = (i - 1) * len /\ Len(f[i]) = len
    BY <1>3, <2>1 DEF Even
  <2>3. IsPlaced(f, n, i)
    BY UpToAt
  <2>4. \A j \in 1..len : UpTo(f, n)[Len(UpTo(f, i - 1)) + j] = f[i][j]
    BY <2>2, <2>3 DEF IsPlaced
  <2>5. QED
    BY <2>2, <2>4 DEF IsPlacedEvenly
<1>5. UpTo(f, n) \in Seq(T)
  <2>1. n \in 0..n
    OBVIOUS
  <2>2. QED
    BY <2>1, UpToStart
<1>6. QED
  BY <1>3, <1>4, <1>5

\* A slice.
LEMMA SliceOf ==
  ASSUME NEW T, NEW s \in Seq(T), NEW a \in Nat, NEW b \in Nat, a <= b, b <= Len(s)
  PROVE  /\ SubSeq(s, a + 1, b) \in Seq(T) /\ Len(SubSeq(s, a + 1, b)) = b - a
         /\ \A j \in 1..(b - a) : SubSeq(s, a + 1, b)[j] = s[a + j]
<1>1. \A x \in (a + 1)..b : s[x] \in T
  <2>1. \A x \in (a + 1)..b : x \in 1..Len(s)
    OBVIOUS
  <2>2. QED
    BY <2>1, ElementOfSeq
<1>2. /\ SubSeq(s, a + 1, b) \in Seq(T)
      /\ Len(SubSeq(s, a + 1, b)) = IF a + 1 <= b THEN b - (a + 1) + 1 ELSE 0
      /\ \A j \in 1..(b - (a + 1) + 1) : SubSeq(s, a + 1, b)[j] = s[(a + 1) + j - 1]
  BY <1>1, SubSeqProperties
<1>3. b - (a + 1) + 1 = b - a /\ \A j \in 1..(b - a) : (a + 1) + j - 1 = a + j
  OBVIOUS
<1>4. QED
  BY <1>2, <1>3

\* Two slices next to each other.
LEMMA SlicesJoin ==
  ASSUME NEW T, NEW s \in Seq(T), NEW a \in Nat, NEW b \in Nat, NEW c \in Nat,
         a <= b, b <= c, c <= Len(s)
  PROVE  SubSeq(s, a + 1, b) \o SubSeq(s, b + 1, c) = SubSeq(s, a + 1, c)
<1>1. /\ a + 1 \in 1..(Len(s) + 1) /\ b \in ((a + 1) - 1)..Len(s)
      /\ c \in b..Len(s)
  OBVIOUS
<1>2. QED
  BY <1>1, ConcatAdjacentSubSeq

\* The parts are the slices of this length.
AreChunks(f, n, s, len) ==
  Len(s) = n * len /\ \A k \in 1..n : f[k] = SubSeq(s, (k - 1) * len + 1, (k - 1) * len + len)

\* Cut into slices of one length, a sequence is their concatenation.
LEMMA Chunks ==
  ASSUME NEW T, NEW s \in Seq(T), NEW len \in Nat, NEW n \in Nat, NEW f, AreChunks(f, n, s, len)
  PROVE  UpTo(f, n) = s
<1> DEFINE S == {m \in Nat : m <= n => UpTo(f, m) = SubSeq(s, 1, m * len)}
<1>1. ASSUME NEW k \in 1..n
      PROVE  \E a \in Nat : /\ a = (k - 1) * len /\ a + len = k * len /\ a + len <= Len(s)
                            /\ f[k] = SubSeq(s, a + 1, a + len) /\ f[k] \in Seq(T)
  <2>1. (k - 1) * len \in Nat /\ (k - 1) * len + len = k * len
    OBVIOUS
  <2>2. k * len <= n * len
    <3>1. n = k + (n - k) /\ n - k \in Nat
      OBVIOUS
    <3>2. PICK d \in Nat : n = k + d
      BY <3>1
    <3>3. n * len = k * len + d * len /\ d * len \in Nat /\ k * len \in Nat
      BY <3>2
    <3>4. QED
      BY <3>3
  <2>3. PICK a \in Nat : a = (k - 1) * len
    BY <2>1
  <2>4. a + len <= Len(s) /\ f[k] = SubSeq(s, a + 1, a + len)
    BY <2>1, <2>2, <2>3 DEF AreChunks
  <2>5. SubSeq(s, a + 1, a + len) \in Seq(T)
    <3>1. PICK b \in Nat : b = a + len
      OBVIOUS
    <3>2. a <= b /\ b <= Len(s)
      BY <2>4, <3>1
    <3>3. QED
      BY <3>1, <3>2, SliceOf
  <2>6. QED
    BY <2>1, <2>3, <2>4, <2>5
<1>2. 0 \in S
  <2>1. PICK none : none = <<>>
    OBVIOUS
  <2>2. 0 * len = 0 /\ SubSeq(s, 1, 0) = none /\ UpTo(f, 0) = none
    BY <2>1, SubSeqEmpty, UpToNone
  <2>3. QED
    BY <2>2
<1>3. ASSUME NEW m \in Nat, m \in S
      PROVE  m + 1 \in S
  <2> SUFFICES ASSUME m + 1 <= n
               PROVE  UpTo(f, m + 1) = SubSeq(s, 1, (m + 1) * len)
    OBVIOUS
  <2>1. m + 1 \in 1..n /\ m <= n /\ (m + 1) - 1 = m
    OBVIOUS
  <2>2. PartsOf(f, m + 1, T)
    <3>1. \A k \in 1..(m + 1) : k \in 1..n
      OBVIOUS
    <3>2. QED
      BY <1>1, <3>1 DEF PartsOf
  <2>3. UpTo(f, m + 1) = UpTo(f, m) \o f[m + 1]
    BY <2>2, UpToStep
  <2>4. PICK a \in Nat : /\ a = m * len /\ a + len = (m + 1) * len /\ a + len <= Len(s)
                         /\ f[m + 1] = SubSeq(s, a + 1, a + len)
    BY <1>1, <2>1
  <2>5. UpTo(f, m) = SubSeq(s, 1, a)
    BY <1>3, <2>1, <2>4
  <2>6. PICK b \in Nat : b = a + len /\ a <= b /\ b <= Len(s)
    BY <2>4
  <2>7. SubSeq(s, 1, a) \o SubSeq(s, a + 1, b) = SubSeq(s, 1, b)
    <3>1. PICK o \in Nat : o = 0 /\ o <= a /\ o + 1 = 1
      OBVIOUS
    <3>2. SubSeq(s, o + 1, a) \o SubSeq(s, a + 1, b) = SubSeq(s, o + 1, b)
      BY <2>6, <3>1, SlicesJoin
    <3>3. QED
      BY <3>1, <3>2
  <2>8. QED
    BY <2>3, <2>4, <2>5, <2>6, <2>7
<1>4. UpTo(f, n) = SubSeq(s, 1, n * len)
  <2>1. \A m \in Nat : m \in S
    <3> HIDE DEF S
    <3>1. QED
      BY <1>2, <1>3, Induct
  <2>2. n \in S
    BY <2>1
  <2>3. QED
    BY <2>2
<1>5. Len(s) = n * len
  BY DEF AreChunks
<1>6. SubSeq(s, 1, Len(s)) = s
  BY SubSeqFull
<1>7. QED
  BY <1>4, <1>5, <1>6

-----------------------------------------------------------------------------
(* From the end.                                                           *)

\* Induction downward: what holds at a position when it holds at all later ones
\* holds at every position.
LEMMA Downward ==
  ASSUME NEW n \in Nat, NEW S, \A i \in 0..n : (\A j \in (i + 1)..n : j \in S) => i \in S
  PROVE  \A i \in 0..n : i \in S
<1> DEFINE M == {m \in Nat : \A j \in 0..n : j > n - m => j \in S}
<1>1. 0 \in M
  OBVIOUS
<1>2. ASSUME NEW m \in Nat, m \in M
      PROVE  m + 1 \in M
  <2>1. ASSUME NEW j \in 0..n, j > n - (m + 1)
        PROVE  j \in S
    <3>1. \A k \in (j + 1)..n : k \in 0..n /\ k > n - m
      BY <2>1
    <3>2. \A k \in (j + 1)..n : k \in S
      BY <1>2, <3>1
    <3>3. QED
      BY <3>2
  <2>2. QED
    BY <2>1
<1>3. n + 1 \in M
  <2> HIDE DEF M
  <2>1. n + 1 \in Nat
    OBVIOUS
  <2>2. QED
    BY <1>1, <1>2, <2>1, Induct
<1>4. QED
  BY <1>3

\* A part in front.
LEMMA UpToCons ==
  ASSUME NEW T, NEW f, NEW n \in Nat, PartsOf(f, n + 1, T), NEW g, \A k \in 1..n : g[k] = f[k + 1]
  PROVE  UpTo(f, n + 1) = f[1] \o UpTo(g, n)
<1> DEFINE S == {m \in Nat : m <= n => UpTo(f, m + 1) = f[1] \o UpTo(g, m)}
<1>1. f[1] \in Seq(T) /\ \A k \in 1..n : g[k] \in Seq(T)
  BY DEF PartsOf
<1>2. PICK first \in Seq(T) : first = f[1]
  BY <1>1
<1>3. 0 \in S
  <2>1. PartsOf(f, 0 + 1, T)
    BY DEF PartsOf
  <2>2. UpTo(f, 0 + 1) = UpTo(f, 0) \o f[0 + 1]
    BY <2>1, UpToStep
  <2>3. UpTo(f, 0) = <<>> /\ UpTo(g, 0) = <<>>
    BY UpToNone
  <2>4. <<>> \o first = first /\ first \o <<>> = first
    BY ConcatEmptySeq
  <2>5. UpTo(f, 0 + 1) = f[1] \o UpTo(g, 0)
    <3>1. f[0 + 1] = first
      BY <1>2
    <3>2. QED
      BY <1>2, <2>2, <2>3, <2>4, <3>1, Zenon
  <2>6. QED
    BY <2>5
<1>4. ASSUME NEW m \in Nat, m \in S
      PROVE  m + 1 \in S
  <2>1. PICK p \in Nat : p = m + 1
    OBVIOUS
  <2>2. ASSUME p <= n
        PROVE  UpTo(f, p + 1) = f[1] \o UpTo(g, p)
    <3>1. PartsOf(f, p + 1, T) /\ PartsOf(g, m + 1, T)
      BY <1>1, <2>1, <2>2 DEF PartsOf
    <3>2. UpTo(f, p + 1) = UpTo(f, p) \o f[p + 1]
      BY <3>1, UpToStep
    <3>3. UpTo(g, m) \in Seq(T) /\ UpTo(g, m + 1) = UpTo(g, m) \o g[m + 1]
      BY <3>1, UpToStep
    <3>4. UpTo(f, p) = f[1] \o UpTo(g, m)
      BY <1>4, <2>1, <2>2
    <3>5. PICK mid \in Seq(T) : mid = UpTo(g, m)
      BY <3>3
    <3>6. PICK last \in Seq(T) : last = g[p] /\ last = f[p + 1]
      <4>1. p \in 1..n
        BY <2>1, <2>2
      <4>2. g[p] \in Seq(T) /\ g[p] = f[p + 1]
        BY <1>1, <4>1
      <4>3. QED
        BY <4>2
    <3>7. (first \o mid) \o last = first \o (mid \o last)
      BY ConcatAssociative
    <3>8. QED
      BY <1>2, <2>1, <3>2, <3>3, <3>4, <3>5, <3>6, <3>7
  <2>3. p <= n => UpTo(f, p + 1) = f[1] \o UpTo(g, p)
    BY <2>2
  <2>4. p \in S
    BY <2>3
  <2>5. QED
    BY <2>1, <2>4
<1>5. n \in S
  <2> HIDE DEF S
  <2>1. QED
    BY <1>3, <1>4, Induct
<1>6. QED
  BY <1>5

\* Only the parts themselves matter.
LEMMA UpToSame ==
  ASSUME NEW f, NEW g, NEW n \in Nat, Agree(f, g, 1..n)
  PROVE  UpTo(f, n) = UpTo(g, n)
<1>1. [k \in 1..n |-> f[k]] = [k \in 1..n |-> g[k]]
  BY DEF Agree
<1>2. QED
  BY <1>1 DEF UpTo

LEMMA UpToOne ==
  ASSUME NEW T, NEW f, PartsOf(f, 1, T)
  PROVE  UpTo(f, 1) = f[1]
<1>1. PICK n \in Nat : n = 0 /\ n + 1 = 1
  OBVIOUS
<1>2. PartsOf(f, n + 1, T)
  BY <1>1
<1>3. UpTo(f, n + 1) = UpTo(f, n) \o f[n + 1]
  BY <1>2, UpToStep
<1>4. PICK part \in Seq(T) : part = f[1]
  BY DEF PartsOf
<1>5. <<>> \o part = part
  BY ConcatEmptySeq
<1>6. QED
  BY <1>1, <1>3, <1>4, <1>5, UpToNone

\* The n parts of f are its first a and the b of g.
IsBehind(g, b, f, a, n) ==
  a \in Nat /\ b \in Nat /\ n = a + b /\ \A k \in 1..b : g[k] = f[a + k]

Splits(f, n, a, g, b) == UpTo(f, n) = UpTo(f, a) \o UpTo(g, b)

\* The parts fall into the first a and the b behind them.
LEMMA UpToSplit ==
  ASSUME NEW T, NEW f, NEW a, NEW b, NEW n, PartsOf(f, n, T), NEW g, IsBehind(g, b, f, a, n)
  PROVE  Splits(f, n, a, g, b)
<1> DEFINE Joins(m) == UpTo(f, a + m) = UpTo(f, a) \o UpTo(g, m)
           S == {m \in Nat : m <= b => Joins(m)}
<1>0. a \in Nat /\ b \in Nat /\ n = a + b
  BY DEF IsBehind
<1>1. /\ \A k \in 1..(a + b) : f[k] \in Seq(T)
      /\ \A k \in 1..b : g[k] = f[a + k] /\ g[k] \in Seq(T)
  <2>1. \A k \in 1..b : a + k \in 1..(a + b) /\ g[k] = f[a + k]
    BY <1>0 DEF IsBehind
  <2>2. QED
    BY <1>0, <2>1 DEF PartsOf
<1>2. PICK front \in Seq(T) : front = UpTo(f, a)
  <2>1. PartsOf(f, a, T) /\ a \in 0..a
    BY <1>0, <1>1 DEF PartsOf
  <2>2. QED
    BY <2>1, UpToStart
<1>3. 0 \in S
  <2>1. UpTo(g, 0) = <<>> /\ a + 0 = a
    BY <1>0, UpToNone
  <2>2. front \o <<>> = front
    BY ConcatEmptySeq
  <2>3. Joins(0)
    BY <1>2, <2>1, <2>2
  <2>4. QED
    BY <2>3
<1>4. ASSUME NEW m \in Nat, m \in S
      PROVE  m + 1 \in S
  <2>1. ASSUME m + 1 <= b
        PROVE  Joins(m + 1)
    <3>1. PICK p \in Nat : p = a + m /\ p + 1 = a + (m + 1)
      BY <1>0
    <3>2. PartsOf(f, p + 1, T) /\ PartsOf(g, m + 1, T)
      BY <1>0, <1>1, <2>1, <3>1 DEF PartsOf
    <3>3. UpTo(f, p + 1) = UpTo(f, p) \o f[p + 1]
      BY <3>2, UpToStep
    <3>4. UpTo(g, m) \in Seq(T) /\ UpTo(g, m + 1) = UpTo(g, m) \o g[m + 1]
      BY <3>2, UpToStep
    <3>5. Joins(m)
      BY <1>0, <1>4, <2>1
    <3>6. PICK mid \in Seq(T) : mid = UpTo(g, m)
      BY <3>4
    <3>7. PICK last \in Seq(T) : last = g[m + 1] /\ last = f[p + 1]
      <4>1. m + 1 \in 1..b
        BY <1>0, <2>1
      <4>2. g[m + 1] \in Seq(T) /\ g[m + 1] = f[p + 1]
        BY <1>1, <3>1, <4>1
      <4>3. QED
        BY <4>2
    <3>8. (front \o mid) \o last = front \o (mid \o last)
      BY ConcatAssociative
    <3>9. UpTo(f, p) = front \o mid
      BY <1>2, <3>1, <3>5, <3>6
    <3>10. QED
      BY <1>2, <3>1, <3>3, <3>4, <3>6, <3>7, <3>8, <3>9
  <2>2. m + 1 <= b => Joins(m + 1)
    BY <2>1
  <2> HIDE DEF Joins
  <2>3. QED
    BY <2>2
<1>5. b \in S
  <2> HIDE DEF S
  <2>1. QED
    BY <1>0, <1>3, <1>4, Induct
<1>6. QED
  BY <1>0, <1>5 DEF Splits

\* What h makes of each element of s, concatenated.
Mapped(h, s) == UpTo([j \in 1..Len(s) |-> h[s[j]]], Len(s))

MapsInto(h, T, U) == \A x \in T : h[x] \in Seq(U)

\* It is a sequence, and of two sequences it is the two one after the other.
LEMMA MappedJoin ==
  ASSUME NEW T, NEW U, NEW h, MapsInto(h, T, U), NEW s \in Seq(T), NEW t \in Seq(T)
  PROVE  Mapped(h, s) \in Seq(U) /\ Mapped(h, s \o t) = Mapped(h, s) \o Mapped(h, t)
<1>1. PICK all \in Seq(T) : all = s \o t
  <2>1. s \o t \in Seq(T)
    BY Joined
  <2>2. QED
    BY <2>1
<1>2. PICK a \in Nat, b \in Nat : a = Len(s) /\ b = Len(t) /\ a + b = Len(all)
  BY <1>1, Joined
<1>3. /\ \A k \in 1..a : all[k] = s[k] /\ s[k] \in T
      /\ \A k \in 1..b : all[a + k] = t[k] /\ t[k] \in T
      /\ \A k \in 1..(a + b) : all[k] \in T
  BY <1>1, <1>2
<1>4. PICK f : f = [j \in 1..(a + b) |-> h[all[j]]]
  OBVIOUS
<1>5. PICK g : g = [j \in 1..b |-> h[t[j]]]
  OBVIOUS
<1>6. PICK e : e = [j \in 1..a |-> h[s[j]]]
  OBVIOUS
<1>7. PartsOf(f, a + b, U) /\ PartsOf(e, a, U)
  BY <1>3, <1>4, <1>6 DEF PartsOf, MapsInto
<1>8. \A k \in 1..b : g[k] = f[a + k]
  <2>1. ASSUME NEW k \in 1..b
        PROVE  g[k] = f[a + k]
    <3>1. a + k \in 1..(a + b)
      OBVIOUS
    <3>2. f[a + k] = h[all[a + k]]
      BY <1>4, <3>1
    <3>3. QED
      BY <1>3, <1>5, <3>2
  <2>2. QED
    BY <2>1
<1>9. UpTo(f, a + b) = UpTo(f, a) \o UpTo(g, b)
  <2>1. PICK n : n = a + b
    OBVIOUS
  <2>2. IsBehind(g, b, f, a, n)
    BY <1>8, <2>1 DEF IsBehind
  <2>3. PartsOf(f, n, U)
    BY <1>7, <2>1
  <2>4. UpTo(f, n) = UpTo(f, a) \o UpTo(g, b)
    <3>1. Splits(f, n, a, g, b)
      BY <2>2, <2>3, UpToSplit
    <3>2. QED
      BY <3>1 DEF Splits
  <2>5. QED
    BY <2>1, <2>4
<1>10. UpTo(f, a) = UpTo(e, a)
  <2>1. Agree(f, e, 1..a)
    BY <1>3, <1>4, <1>6 DEF Agree
  <2>2. QED
    BY <2>1, UpToSame
<1>11. UpTo(e, a) \in Seq(U)
  <2>1. a \in 0..a
    OBVIOUS
  <2>2. QED
    BY <1>7, <2>1, UpToStart
<1>12. Mapped(h, s \o t) = UpTo(f, a + b)
  BY <1>1, <1>2, <1>4 DEF Mapped
<1>13. Mapped(h, s) = UpTo(e, a) /\ Mapped(h, t) = UpTo(g, b)
  BY <1>2, <1>5, <1>6 DEF Mapped
<1>14. QED
  BY <1>9, <1>10, <1>11, <1>12, <1>13

EachMapped(g, h, f, n) == \A k \in 1..n : g[k] = Mapped(h, f[k])

\* The parts of a concatenation may be mapped one by one.
LEMMA MappedParts ==
  ASSUME NEW T, NEW U, NEW h, MapsInto(h, T, U),
         NEW f, NEW n \in Nat, PartsOf(f, n, T),
         NEW g, EachMapped(g, h, f, n)
  PROVE  UpTo(g, n) = Mapped(h, UpTo(f, n))
<1> DEFINE S == {m \in Nat : m <= n => UpTo(g, m) = Mapped(h, UpTo(f, m))}
<1>1. \A k \in 1..n : f[k] \in Seq(T) /\ g[k] \in Seq(U)
  BY MappedJoin DEF PartsOf, EachMapped
<1>2. 0 \in S
  <2>1. UpTo(g, 0) = <<>> /\ UpTo(f, 0) = <<>>
    BY UpToNone
  <2>2. Len(<<>>) = 0
    OBVIOUS
  <2>3. Mapped(h, <<>>) = <<>>
    BY <2>2, UpToNone DEF Mapped
  <2>4. QED
    BY <2>1, <2>3
<1>3. ASSUME NEW m \in Nat, m \in S
      PROVE  m + 1 \in S
  <2>1. ASSUME m + 1 <= n
        PROVE  UpTo(g, m + 1) = Mapped(h, UpTo(f, m + 1))
    <3>1. PartsOf(f, m + 1, T) /\ PartsOf(g, m + 1, U) /\ m + 1 \in 1..n
      BY <1>1, <2>1 DEF PartsOf
    <3>2. UpTo(f, m) \in Seq(T) /\ UpTo(f, m + 1) = UpTo(f, m) \o f[m + 1]
      BY <3>1, UpToStep
    <3>3. UpTo(g, m + 1) = UpTo(g, m) \o g[m + 1]
      BY <3>1, UpToStep
    <3>4. f[m + 1] \in Seq(T) /\ g[m + 1] = Mapped(h, f[m + 1])
      BY <1>1, <3>1 DEF EachMapped
    <3>5. Mapped(h, UpTo(f, m) \o f[m + 1]) = Mapped(h, UpTo(f, m)) \o Mapped(h, f[m + 1])
      <4>1. PICK left \in Seq(T), right \in Seq(T) : left = UpTo(f, m) /\ right = f[m + 1]
        BY <3>2, <3>4
      <4>2. Mapped(h, left \o right) = Mapped(h, left) \o Mapped(h, right)
        BY MappedJoin
      <4>3. QED
        BY <4>1, <4>2
    <3>6. UpTo(g, m) = Mapped(h, UpTo(f, m))
      BY <1>3, <2>1
    <3>7. QED
      BY <3>2, <3>3, <3>4, <3>5, <3>6
  <2>2. QED
    BY <2>1
<1>4. n \in S
  <2> HIDE DEF S
  <2>1. QED
    BY <1>2, <1>3, Induct
<1>5. QED
  BY <1>4

\* Parts that are not empty make at least as many, and no more only when each
\* is a single one.
LEMMA SingleParts ==
  ASSUME NEW T, NEW f, NEW n \in Nat, PartsOf(f, n, T), \A k \in 1..n : f[k] # <<>>
  PROVE  /\ Len(UpTo(f, n)) \in Nat
         /\ Len(UpTo(f, n)) = n => \A k \in 1..n : Len(f[k]) = 1
<1> DEFINE L(m) == Len(UpTo(f, m))
           Right(m) == /\ L(m) \in Nat /\ L(m) >= m
                       /\ L(m) = m => \A k \in 1..m : Len(f[k]) = 1
           S == {m \in Nat : m <= n => Right(m)}
<1>1. 0 \in S
  <2>1. L(0) = 0
    BY UpToNone
  <2>2. QED
    BY <2>1
<1>2. ASSUME NEW m \in Nat, m \in S
      PROVE  m + 1 \in S
  <2>1. ASSUME m + 1 <= n
        PROVE  Right(m + 1)
    <3>1. PartsOf(f, m + 1, T) /\ m + 1 \in 1..n
      BY <2>1 DEF PartsOf
    <3>2. UpTo(f, m) \in Seq(T) /\ UpTo(f, m + 1) = UpTo(f, m) \o f[m + 1]
      BY <3>1, UpToStep
    <3>3. f[m + 1] \in Seq(T) /\ f[m + 1] # <<>>
      BY <3>1 DEF PartsOf
    <3>4. PICK len \in Nat : len = Len(f[m + 1]) /\ len >= 1
      <4>1. Len(f[m + 1]) \in Nat /\ Len(f[m + 1]) # 0
        BY <3>3, EmptySeq
      <4>2. QED
        BY <4>1
    <3>5. L(m + 1) = L(m) + len
      BY <3>2, <3>3, <3>4
    <3>6. Right(m)
      BY <1>2, <2>1
    <3>7. L(m + 1) \in Nat /\ L(m + 1) >= m + 1
      BY <3>4, <3>5, <3>6
    <3>8. ASSUME L(m + 1) = m + 1, NEW k \in 1..(m + 1)
          PROVE  Len(f[k]) = 1
      <4>1. L(m) = m /\ len = 1
        <5>1. PICK x \in Nat : x = L(m) /\ x >= m
          BY <3>6
        <5>2. x + len = m + 1
          BY <3>5, <3>8, <5>1
        <5>3. x >= m /\ len >= 1
          BY <3>4, <5>1
        <5>4. x = m /\ len = 1
          BY <5>2, <5>3
        <5>5. QED
          BY <5>1, <5>4
      <4>2. CASE k = m + 1
        BY <3>4, <4>1, <4>2
      <4>3. CASE k \in 1..m
        BY <3>6, <4>1, <4>3
      <4>4. QED
        BY <4>2, <4>3
    <3> HIDE DEF L
    <3>9. QED
      BY <3>7, <3>8
  <2> HIDE DEF Right
  <2>2. QED
    BY <2>1
<1>3. n \in S
  <2> HIDE DEF S
  <2>1. QED
    BY <1>1, <1>2, Induct
<1>4. QED
  BY <1>3
=============================================================================
