-------------------------------- MODULE Sums --------------------------------
(***************************************************************************)
(* Facts about sums and counts over finite sets: the sum MapThenSumSet     *)
(* computes, which the modules use for the sizes of tables, the bytes of a *)
(* dictionary and the like, and the places of the elements of an order.    *)
(*                                                                         *)
(* The sum is a recursion that takes the elements in an order CHOOSE       *)
(* gives.  What is needed of it is that the order does not matter.         *)
(* Induction is on a set of numbers or of subsets, never on a predicate.   *)
(***************************************************************************)
EXTENDS Integers, FiniteSetsExt, Functions, SequencesExt, SequenceTheorems, FiniteSetTheorems,
        WellFoundedInduction, TLAPS

\* The sum of f over S.
SumOver(f, S) == MapThenSumSet(LAMBDA x : f[x], S)

-----------------------------------------------------------------------------
(* Induction *)

\* A set of naturals that has an element has a least one.
LEMMA LeastNatural ==
  ASSUME NEW S, S \subseteq Nat, S # {}
  PROVE  \E m \in S : \A y \in S : m <= y
<1>1. PICK m \in S : \A y \in S : ~(<<y, m>> \in OpToRel(<, Nat))
  BY WFMin, NatLessThanWellFounded
<1>2. \A y \in S : ~(y < m)
  BY <1>1, Zenon DEF OpToRel
<1>3. \A y \in S : m <= y
  BY <1>2, SMT
<1>4. QED
  BY <1>3

\* A set of naturals with 0 and every successor has them all.
LEMMA NaturalSteps ==
  ASSUME NEW G, 0 \in G, \A n \in Nat : n \in G => n + 1 \in G
  PROVE  Nat \subseteq G
<1> SUFFICES ASSUME Nat \ G # {} PROVE FALSE
  OBVIOUS
<1>1. PICK m \in Nat \ G : \A y \in Nat \ G : m <= y
  <2>1. Nat \ G \subseteq Nat
    OBVIOUS
  <2>2. QED
    BY <2>1, LeastNatural
<1>2. m # 0 /\ m - 1 \in Nat
  BY <1>1
<1>3. m - 1 \in G
  BY <1>1, <1>2
<1>4. (m - 1) + 1 \in G
  BY <1>2, <1>3
<1>5. QED
  BY <1>1, <1>2, <1>4

\* A family of subsets of a finite set that has a set whenever it has that
\* set's proper subsets has them all.
LEMMA SubsetSteps ==
  ASSUME NEW S, IsFiniteSet(S), NEW G,
         \A T \in SUBSET S : (\A U \in SUBSET T : U # T => U \in G) => T \in G
  PROVE  SUBSET S \subseteq G
<1> SUFFICES ASSUME (SUBSET S) \ G # {} PROVE FALSE
  OBVIOUS
<1> DEFINE Sizes == {Cardinality(T) : T \in (SUBSET S) \ G}
<1>1. \A T \in SUBSET S : IsFiniteSet(T) /\ Cardinality(T) \in Nat
  BY FS_Subset, FS_CardinalityType
<1>2. Sizes \subseteq Nat /\ Sizes # {}
  BY <1>1
<1>3. PICK m \in Sizes : \A y \in Sizes : m <= y
  BY <1>2, LeastNatural
<1>4. PICK T \in (SUBSET S) \ G : Cardinality(T) = m
  BY <1>3
<1>5. ASSUME NEW U \in SUBSET T, U # T PROVE U \in G
  <2>1. Cardinality(U) <= Cardinality(T) /\ Cardinality(U) # Cardinality(T)
    BY <1>1, <1>4, <1>5, FS_Subset
  <2>2. Cardinality(U) < m /\ U \in SUBSET S
    BY <1>1, <1>4, <2>1
  <2>3. Cardinality(U) \notin Sizes
    BY <1>1, <1>2, <1>3, <2>2
  <2>4. QED
    BY <2>2, <2>3
<1>6. QED
  BY <1>4, <1>5

-----------------------------------------------------------------------------
(* The recursion has a solution, and only one *)

Pick(s) == CHOOSE x \in s : TRUE

\* g is a partial sum on every set of D.
Sums(f, g, D) ==
  \A s \in D : g[s] = IF s = {} THEN 0 ELSE f[Pick(s)] + g[s \ {Pick(s)}]

\* Existence: a function on the finite subsets that adds one element at a time.
LEMMA SumsExist ==
  ASSUME NEW S, IsFiniteSet(S), NEW f, \A x \in S : f[x] \in Nat
  PROVE  \E g \in [SUBSET S -> Nat] : Sums(f, g, SUBSET S)
<1> DEFINE Small(n) == {s \in SUBSET S : Cardinality(s) <= n}
           G == {n \in Nat : \E g \in [Small(n) -> Nat] : Sums(f, g, Small(n))}
<1>1. \A s \in SUBSET S : IsFiniteSet(s) /\ Cardinality(s) \in Nat
  BY FS_Subset, FS_CardinalityType
<1>2. \A s \in SUBSET S : s # {} => Pick(s) \in s /\ Cardinality(s \ {Pick(s)}) = Cardinality(s) - 1
  BY <1>1, FS_RemoveElement DEF Pick
<1>3. 0 \in G
  <2>1. \A s \in Small(0) : s = {}
    BY <1>1, FS_EmptySet
  <2>2. [s \in Small(0) |-> 0] \in [Small(0) -> Nat] /\ Sums(f, [s \in Small(0) |-> 0], Small(0))
    BY <2>1 DEF Sums
  <2>3. QED
    BY <2>2
<1>4. ASSUME NEW n \in Nat, n \in G PROVE n + 1 \in G
  <2>1. PICK g \in [Small(n) -> Nat] : Sums(f, g, Small(n))
    BY <1>4
  <2> DEFINE h == [s \in Small(n + 1) |->
                     IF s = {} THEN 0 ELSE f[Pick(s)] + g[s \ {Pick(s)}]]
  <2>2. \A s \in Small(n + 1) : s # {} => s \ {Pick(s)} \in Small(n) /\ f[Pick(s)] \in Nat
    BY <1>1, <1>2
  <2>3. h \in [Small(n + 1) -> Nat]
    BY <2>2
  <2>4. \A s \in Small(n) : s \in Small(n + 1) /\ h[s] = g[s]
    <3>1. \A s \in Small(n) : s \in Small(n + 1)
      BY <1>1
    <3>2. \A s \in Small(n) : h[s] = IF s = {} THEN 0 ELSE f[Pick(s)] + g[s \ {Pick(s)}]
      BY <3>1
    <3>3. QED
      BY <2>1, <3>1, <3>2 DEF Sums
  <2>5. Sums(f, h, Small(n + 1))
    <3> SUFFICES ASSUME NEW s \in Small(n + 1)
                 PROVE  h[s] = IF s = {} THEN 0 ELSE f[Pick(s)] + h[s \ {Pick(s)}]
      BY DEF Sums
    <3>1. s # {} => h[s \ {Pick(s)}] = g[s \ {Pick(s)}]
      BY <2>2, <2>4
    <3>2. h[s] = IF s = {} THEN 0 ELSE f[Pick(s)] + g[s \ {Pick(s)}]
      OBVIOUS
    <3> HIDE DEF h
    <3>3. QED
      BY <3>1, <3>2
  <2> HIDE DEF h, Small
  <2>6. \E k \in [Small(n + 1) -> Nat] : Sums(f, k, Small(n + 1))
    BY <2>3, <2>5
  <2>7. QED
    BY <2>6
<1>5. Cardinality(S) \in G
  <2>1. Cardinality(S) \in Nat
    BY FS_CardinalityType
  <2> HIDE DEF G
  <2>2. Nat \subseteq G
    BY <1>3, <1>4, NaturalSteps
  <2>3. QED
    BY <2>1, <2>2
<1>6. Small(Cardinality(S)) = SUBSET S
  BY FS_Subset
<1>7. QED
  BY <1>5, <1>6

\* Uniqueness: two such functions agree on every finite set.
LEMMA SumsUnique ==
  ASSUME NEW S, IsFiniteSet(S), NEW f, NEW g, NEW h,
         Sums(f, g, SUBSET S), Sums(f, h, SUBSET S)
  PROVE  \A T \in SUBSET S : g[T] = h[T]
<1> DEFINE G == {T \in SUBSET S : g[T] = h[T]}
<1>1. ASSUME NEW T \in SUBSET S, \A U \in SUBSET T : U # T => U \in G PROVE T \in G
  <2>1. T # {} => T \ {Pick(T)} \in SUBSET T /\ T \ {Pick(T)} # T
    BY DEF Pick
  <2>2. T # {} => g[T \ {Pick(T)}] = h[T \ {Pick(T)}]
    BY <1>1, <2>1
  <2>3. /\ g[T] = IF T = {} THEN 0 ELSE f[Pick(T)] + g[T \ {Pick(T)}]
        /\ h[T] = IF T = {} THEN 0 ELSE f[Pick(T)] + h[T \ {Pick(T)}]
    BY DEF Sums
  <2>4. QED
    BY <2>2, <2>3
<1> HIDE DEF G
<1>2. SUBSET S \subseteq G
  BY <1>1, SubsetSteps
<1>3. QED
  BY <1>2 DEF G

-----------------------------------------------------------------------------
(* What the sum is *)

\* MapThenSumSet is that solution.
LEMMA SumIsSolution ==
  ASSUME NEW S, IsFiniteSet(S), NEW f, \A x \in S : f[x] \in Nat,
         NEW g, Sums(f, g, SUBSET S)
  PROVE  SumOver(f, S) = g[S]
<1> DEFINE Solves(h) ==
      h = [s \in SUBSET S |-> IF s = {} THEN 0
                              ELSE f[CHOOSE x \in s : TRUE] + h[s \ {CHOOSE x \in s : TRUE}]]
<1>1. SumOver(f, S) = (CHOOSE h : Solves(h))[S]
  BY DEF SumOver, MapThenSumSet, MapThenFoldSet
<1>2. PICK k \in [SUBSET S -> Nat] : Sums(f, k, SUBSET S)
  BY SumsExist
<1>3. Solves(k)
  BY <1>2 DEF Sums, Pick
<1>4. Solves(CHOOSE h : Solves(h))
  BY <1>3
<1> DEFINE h == CHOOSE h : Solves(h)
<1>5. Sums(f, h, SUBSET S)
  <2>1. Solves(h)
    BY <1>4
  <2> HIDE DEF h
  <2>2. QED
    BY <2>1 DEF Sums, Pick
<1>6. S \in SUBSET S
  OBVIOUS
<1> HIDE DEF h
<1>7. h[S] = g[S]
  BY <1>5, <1>6, SumsUnique
<1>8. QED
  BY <1>1, <1>7 DEF h

\* Over the subsets of a set the sums are one function.
OneFunction(f, S) ==
  \E g \in [SUBSET S -> Nat] :
    Sums(f, g, SUBSET S) /\ \A T \in SUBSET S : SumOver(f, T) = g[T]

\* They are, when the set is finite.
LEMMA SumsTogether ==
  ASSUME NEW S, IsFiniteSet(S), NEW f, \A x \in S : f[x] \in Nat
  PROVE  OneFunction(f, S)
<1>1. PICK g \in [SUBSET S -> Nat] : Sums(f, g, SUBSET S)
  BY SumsExist
<1>2. ASSUME NEW T \in SUBSET S PROVE SumOver(f, T) = g[T]
  <2>1. IsFiniteSet(T) /\ \A x \in T : f[x] \in Nat
    BY FS_Subset
  <2>2. Sums(f, g, SUBSET T)
    <3>1. SUBSET T \subseteq SUBSET S
      OBVIOUS
    <3>2. QED
      BY <1>1, <3>1 DEF Sums
  <2>3. QED
    BY <2>1, <2>2, SumIsSolution
<1>3. QED
  BY <1>1, <1>2 DEF OneFunction

\* A sum is a number, nothing sums to 0, and one element may be split off.
LEMMA SumStep ==
  ASSUME NEW S, IsFiniteSet(S), NEW f, \A x \in S : f[x] \in Nat
  PROVE  /\ SumOver(f, S) \in Nat
         /\ SumOver(f, {}) = 0
         /\ S # {} => Pick(S) \in S /\ SumOver(f, S) = f[Pick(S)] + SumOver(f, S \ {Pick(S)})
<1>1. PICK g \in [SUBSET S -> Nat] :
        Sums(f, g, SUBSET S) /\ \A T \in SUBSET S : SumOver(f, T) = g[T]
  <2>1. OneFunction(f, S)
    BY SumsTogether
  <2>2. QED
    BY <2>1 DEF OneFunction
<1>2. S \in SUBSET S /\ {} \in SUBSET S /\ (S # {} => Pick(S) \in S /\ S \ {Pick(S)} \in SUBSET S)
  BY DEF Pick
<1>3. g[S] \in Nat /\ g[{}] = 0 /\ (S # {} => g[S] = f[Pick(S)] + g[S \ {Pick(S)}])
  BY <1>1, <1>2 DEF Sums
<1>4. QED
  BY <1>1, <1>2, <1>3

\* The order does not matter: any element may be split off.
THEOREM SumWithout ==
  ASSUME NEW S, IsFiniteSet(S), NEW f, \A x \in S : f[x] \in Nat, NEW x \in S
  PROVE  SumOver(f, S) = f[x] + SumOver(f, S \ {x})
<1> DEFINE G == {T \in SUBSET S : \A y \in T : SumOver(f, T) = f[y] + SumOver(f, T \ {y})}
<1>1. ASSUME NEW T \in SUBSET S, \A U \in SUBSET T : U # T => U \in G PROVE T \in G
  <2> SUFFICES ASSUME NEW y \in T PROVE SumOver(f, T) = f[y] + SumOver(f, T \ {y})
    OBVIOUS
  <2> DEFINE p == Pick(T)
  <2>1. IsFiniteSet(T) /\ \A z \in T : f[z] \in Nat
    BY FS_Subset
  <2>2. p \in T /\ SumOver(f, T) = f[p] + SumOver(f, T \ {p})
    BY <2>1, SumStep
  <2> HIDE DEF p
  <2>3. CASE y = p
    BY <2>2, <2>3
  <2>4. CASE y # p
    <3>1. T \ {p} \in G /\ T \ {y} \in G
      BY <1>1, <2>2
    <3>2. SumOver(f, T \ {p}) = f[y] + SumOver(f, (T \ {p}) \ {y})
      BY <2>4, <3>1
    <3>3. SumOver(f, T \ {y}) = f[p] + SumOver(f, (T \ {y}) \ {p})
      BY <2>2, <2>4, <3>1
    <3>4. (T \ {p}) \ {y} = (T \ {y}) \ {p}
      OBVIOUS
    <3>5. SumOver(f, (T \ {y}) \ {p}) \in Nat
      <4>1. IsFiniteSet((T \ {y}) \ {p})
        BY <2>1, FS_Subset
      <4>2. QED
        BY <2>1, <4>1, SumStep
    <3>6. f[y] \in Nat /\ f[p] \in Nat
      BY <2>1, <2>2
    <3> DEFINE rest == SumOver(f, (T \ {y}) \ {p})
    <3>7. SumOver(f, T) = f[p] + (f[y] + rest)
      BY <2>2, <3>2, <3>4
    <3>8. f[y] + SumOver(f, T \ {y}) = f[y] + (f[p] + rest)
      BY <3>3
    <3> HIDE DEF rest
    <3>9. rest \in Nat
      BY <3>5 DEF rest
    <3>10. QED
      BY <3>6, <3>7, <3>8, <3>9
  <2>5. QED
    BY <2>3, <2>4
<1> HIDE DEF G
<1>2. SUBSET S \subseteq G
  BY <1>1, SubsetSteps
<1>3. S \in G
  BY <1>2
<1>4. QED
  BY <1>3 DEF G

\* Adding an element adds its value.
THEOREM SumWith ==
  ASSUME NEW S, IsFiniteSet(S), NEW f, NEW y, y \notin S, \A x \in S \cup {y} : f[x] \in Nat
  PROVE  SumOver(f, S \cup {y}) = SumOver(f, S) + f[y]
<1>1. IsFiniteSet(S \cup {y}) /\ y \in S \cup {y}
  BY FS_AddElement
<1>2. SumOver(f, S \cup {y}) = f[y] + SumOver(f, (S \cup {y}) \ {y})
  BY <1>1, SumWithout
<1>3. (S \cup {y}) \ {y} = S
  OBVIOUS
<1>4. SumOver(f, S) \in Nat /\ f[y] \in Nat
  BY SumStep
<1>5. QED
  BY <1>2, <1>3, <1>4

\* The sum over one index more.
LEMMA SumUpto ==
  ASSUME NEW f, NEW k \in Nat, \A x \in 1 .. k + 1 : f[x] \in Nat
  PROVE  SumOver(f, 1 .. k + 1) = SumOver(f, 1 .. k) + f[k + 1]
<1> DEFINE T == 1 .. k
           y == k + 1
<1>1. y \notin T /\ IsFiniteSet(T) /\ 1 .. k + 1 = T \cup {y}
  BY FS_Interval
<1>2. \A x \in T \cup {y} : f[x] \in Nat
  BY <1>1
<1> HIDE DEF T, y
<1>3. SumOver(f, T \cup {y}) = SumOver(f, T) + f[y]
  BY <1>1, <1>2, SumWith
<1>4. QED
  BY <1>1, <1>3 DEF T, y

\* Values below a bound sum to no more than that many times the bound.
LEMMA SumBounded ==
  ASSUME NEW b \in Nat, NEW n \in Nat, NEW f, \A x \in 1 .. n : f[x] \in Nat /\ f[x] <= b
  PROVE  SumOver(f, 1 .. n) \in Nat /\ SumOver(f, 1 .. n) <= b * n
<1> DEFINE G == {k \in Nat : k <= n => SumOver(f, 1 .. k) \in Nat /\ SumOver(f, 1 .. k) <= b * k}
<1>1. 0 \in G
  <2>1. 1 .. 0 = {} /\ IsFiniteSet({}) /\ \A x \in {} : f[x] \in Nat
    BY FS_EmptySet
  <2>2. SumOver(f, 1 .. 0) = 0
    BY <2>1, SumStep
  <2>3. b * 0 = 0
    OBVIOUS
  <2>4. QED
    BY <2>2, <2>3
<1>2. ASSUME NEW k \in Nat, k \in G PROVE k + 1 \in G
  <2> SUFFICES ASSUME k + 1 <= n
               PROVE  SumOver(f, 1 .. k + 1) \in Nat /\ SumOver(f, 1 .. k + 1) <= b * (k + 1)
    OBVIOUS
  <2>1. SumOver(f, 1 .. k) \in Nat /\ SumOver(f, 1 .. k) <= b * k
    BY <1>2
  <2>2. \A x \in 1 .. k + 1 : f[x] \in Nat /\ f[x] <= b
    OBVIOUS
  <2>3. SumOver(f, 1 .. k + 1) = SumOver(f, 1 .. k) + f[k + 1]
    BY <2>2, SumUpto
  <2>4. b * (k + 1) = b * k + b /\ b * k \in Nat
    OBVIOUS
  <2>5. f[k + 1] \in Nat /\ f[k + 1] <= b
    BY <2>2
  <2> DEFINE c == b * k
             d == b * (k + 1)
  <2> HIDE DEF c, d
  <2>6. QED
    BY <2>1, <2>3, <2>4, <2>5 DEF c, d
<1> HIDE DEF G
<1>3. n \in G
  BY <1>1, <1>2, NaturalSteps
<1>4. QED
  BY <1>3 DEF G

\* Only the values over the set count.
THEOREM SumCongruence ==
  ASSUME NEW S, IsFiniteSet(S), NEW f, NEW g, \A x \in S : f[x] \in Nat /\ g[x] = f[x]
  PROVE  SumOver(f, S) = SumOver(g, S)
<1> DEFINE G == {T \in SUBSET S : SumOver(f, T) = SumOver(g, T)}
<1>1. ASSUME NEW T \in SUBSET S, \A U \in SUBSET T : U # T => U \in G PROVE T \in G
  <2>1. IsFiniteSet(T) /\ \A x \in T : f[x] \in Nat /\ g[x] \in Nat /\ f[x] = g[x]
    BY FS_Subset
  <2>2. CASE T = {}
    BY <2>1, <2>2, SumStep
  <2>3. CASE T # {}
    <3>1. /\ Pick(T) \in T /\ SumOver(f, T) = f[Pick(T)] + SumOver(f, T \ {Pick(T)})
          /\ SumOver(g, T) = g[Pick(T)] + SumOver(g, T \ {Pick(T)})
      BY <2>1, <2>3, SumStep
    <3>2. SumOver(f, T \ {Pick(T)}) = SumOver(g, T \ {Pick(T)})
      BY <1>1, <3>1
    <3>3. QED
      BY <2>1, <3>1, <3>2
  <2>4. QED
    BY <2>2, <2>3
<1> HIDE DEF G
<1>2. SUBSET S \subseteq G
  BY <1>1, SubsetSteps
<1>3. S \in G
  BY <1>2
<1>4. QED
  BY <1>3 DEF G

\* Larger values give a larger sum.
THEOREM SumMonotone ==
  ASSUME NEW S, IsFiniteSet(S), NEW f, NEW g,
         \A x \in S : f[x] \in Nat /\ g[x] \in Nat /\ f[x] <= g[x]
  PROVE  SumOver(f, S) <= SumOver(g, S)
<1> DEFINE G == {T \in SUBSET S : SumOver(f, T) <= SumOver(g, T)}
<1>1. ASSUME NEW T \in SUBSET S, \A U \in SUBSET T : U # T => U \in G PROVE T \in G
  <2>1. IsFiniteSet(T) /\ \A x \in T : f[x] \in Nat /\ g[x] \in Nat /\ f[x] <= g[x]
    BY FS_Subset
  <2>2. CASE T = {}
    <3>1. SumOver(f, T) = 0 /\ SumOver(g, T) = 0
      BY <2>1, <2>2, SumStep
    <3>2. QED
      BY <3>1
  <2>3. CASE T # {}
    <3> DEFINE p == Pick(T)
               rest == T \ {p}
    <3>1. /\ p \in T /\ SumOver(f, T) = f[p] + SumOver(f, rest)
          /\ SumOver(g, T) = g[p] + SumOver(g, rest)
      BY <2>1, <2>3, SumStep
    <3>2. SumOver(f, rest) <= SumOver(g, rest)
      BY <1>1, <3>1
    <3>3. SumOver(f, rest) \in Nat /\ SumOver(g, rest) \in Nat
      <4>1. IsFiniteSet(rest) /\ rest \subseteq T
        BY <2>1, FS_Subset
      <4>2. QED
        BY <2>1, <4>1, SumStep
    <3> HIDE DEF p, rest
    <3>4. SumOver(f, T) <= SumOver(g, T)
      BY <2>1, <3>1, <3>2, <3>3
    <3>5. QED
      BY <3>4
  <2>4. QED
    BY <2>2, <2>3
<1> HIDE DEF G
<1>2. SUBSET S \subseteq G
  BY <1>1, SubsetSteps
<1>3. S \in G
  BY <1>2
<1>4. QED
  BY <1>3 DEF G

-----------------------------------------------------------------------------
(* Places in an order *)

\* The elements of S that come before x in the order R.
Before(S, R, x) == {y \in S : <<y, x>> \in R}

StrictOrder(S, R) ==
  /\ \A x \in S : <<x, x>> \notin R
  /\ \A x, y, z \in S : <<x, y>> \in R /\ <<y, z>> \in R => <<x, z>> \in R
  /\ \A x, y \in S : x = y \/ <<x, y>> \in R \/ <<y, x>> \in R

\* The numbers of elements before it tell an element's place, and order them.
LEMMA PlacesOrdered ==
  ASSUME NEW S, IsFiniteSet(S), NEW R, StrictOrder(S, R)
  PROVE  /\ \A x \in S : Cardinality(Before(S, R, x)) \in 0 .. Cardinality(S) - 1
         /\ \A x, y \in S :
              <<x, y>> \in R <=> Cardinality(Before(S, R, x)) < Cardinality(Before(S, R, y))
<1>1. \A x \in S : /\ IsFiniteSet(Before(S, R, x)) /\ Cardinality(Before(S, R, x)) \in Nat
                   /\ Cardinality(Before(S, R, x)) < Cardinality(S)
  <2> TAKE x \in S
  <2>1. Before(S, R, x) \subseteq S /\ Before(S, R, x) # S
    BY DEF Before, StrictOrder
  <2>2. IsFiniteSet(Before(S, R, x)) /\ Cardinality(Before(S, R, x)) <= Cardinality(S)
        /\ Cardinality(Before(S, R, x)) # Cardinality(S)
    BY <2>1, FS_Subset
  <2>3. Cardinality(S) \in Nat /\ Cardinality(Before(S, R, x)) \in Nat
    BY <2>2, FS_CardinalityType
  <2>4. QED
    BY <2>2, <2>3
<1>2. ASSUME NEW x \in S, NEW y \in S, <<x, y>> \in R
      PROVE  Cardinality(Before(S, R, x)) < Cardinality(Before(S, R, y))
  <2>1. Before(S, R, x) \subseteq Before(S, R, y)
    BY <1>2 DEF Before, StrictOrder
  <2>2. x \in Before(S, R, y) /\ x \notin Before(S, R, x)
    BY <1>2 DEF Before, StrictOrder
  <2> DEFINE a == Before(S, R, x)
             b == Before(S, R, y)
  <2>3. IsFiniteSet(b) /\ a \in SUBSET b /\ a # b
    BY <1>1, <2>1, <2>2
  <2> HIDE DEF a, b
  <2>4. Cardinality(a) <= Cardinality(b) /\ Cardinality(a) # Cardinality(b)
    BY <2>3, FS_Subset
  <2>5. Cardinality(a) \in Nat /\ Cardinality(b) \in Nat
    BY <1>1 DEF a, b
  <2>6. Cardinality(a) < Cardinality(b)
    BY <2>4, <2>5
  <2>7. QED
    BY <2>6 DEF a, b
<1>3. ASSUME NEW x \in S, NEW y \in S,
             Cardinality(Before(S, R, x)) < Cardinality(Before(S, R, y))
      PROVE  <<x, y>> \in R
  <2>1. x # y
    BY <1>1, <1>3
  <2>2. <<y, x>> \in R => Cardinality(Before(S, R, y)) < Cardinality(Before(S, R, x))
    BY <1>2
  <2>3. <<y, x>> \notin R
    BY <1>1, <1>3, <2>2
  <2>4. QED
    BY <2>1, <2>3 DEF StrictOrder
<1>4. \A x \in S : Cardinality(S) \in Nat /\ Cardinality(Before(S, R, x)) \in 0 .. Cardinality(S) - 1
  BY <1>1, FS_CardinalityType
<1>5. QED
  BY <1>2, <1>3, <1>4

\* Every place is some element's, and only one's.
THEOREM PlacesFilled ==
  ASSUME NEW S, IsFiniteSet(S), NEW R, StrictOrder(S, R)
  PROVE  /\ \A k \in 0 .. Cardinality(S) - 1 : \E x \in S : Cardinality(Before(S, R, x)) = k
         /\ \A x, y \in S :
              Cardinality(Before(S, R, x)) = Cardinality(Before(S, R, y)) => x = y
<1>1. ASSUME NEW x \in S, NEW y \in S,
             Cardinality(Before(S, R, x)) = Cardinality(Before(S, R, y))
      PROVE  x = y
  <2>1. /\ <<x, y>> \in R => Cardinality(Before(S, R, x)) < Cardinality(Before(S, R, y))
        /\ <<y, x>> \in R => Cardinality(Before(S, R, y)) < Cardinality(Before(S, R, x))
        /\ Cardinality(Before(S, R, x)) \in Int
    BY PlacesOrdered
  <2>2. <<x, y>> \notin R /\ <<y, x>> \notin R
    BY <1>1, <2>1
  <2>3. QED
    BY <2>2 DEF StrictOrder
<1> DEFINE n == Cardinality(S)
           place == [x \in S |-> Cardinality(Before(S, R, x))]
<1>2. n \in Nat
  BY FS_CardinalityType
<1>3. IsFiniteSet(0 .. n - 1) /\ Cardinality(0 .. n - 1) = n
  <2>1. 0 \in Int /\ n - 1 \in Int
    BY <1>2
  <2>2. /\ IsFiniteSet(0 .. n - 1)
        /\ Cardinality(0 .. n - 1) = IF 0 > n - 1 THEN 0 ELSE (n - 1) - 0 + 1
    BY <2>1, FS_Interval
  <2> HIDE DEF n
  <2>3. QED
    BY <1>2, <2>2
<1>4. place \in Injection(S, 0 .. n - 1)
  <2>1. \A x \in S : Cardinality(Before(S, R, x)) \in 0 .. n - 1
    BY PlacesOrdered
  <2>2. place \in [S -> 0 .. n - 1]
    BY <2>1
  <2>3. \A x, y \in S : place[x] = place[y] => x = y
    BY <1>1
  <2>4. QED
    BY <2>2, <2>3 DEF Injection, IsInjective
<1>5. place \in Surjection(S, 0 .. n - 1)
  <2> HIDE DEF place
  <2>1. Cardinality(S) = Cardinality(0 .. n - 1) <=> place \in Surjection(S, 0 .. n - 1)
    BY <1>3, <1>4, FS_Injection
  <2>2. QED
    BY <1>3, <2>1
<1>6. \A k \in 0 .. n - 1 : \E x \in S : place[x] = k
  <2> HIDE DEF place
  <2>1. QED
    BY <1>5 DEF Surjection
<1>7. QED
  BY <1>1, <1>6

\* A finite set of naturals that has an element has a greatest one, and Max is it.
LEMMA GreatestNatural ==
  ASSUME NEW S, IsFiniteSet(S), S \subseteq Nat, S # {}
  PROVE  Max(S) \in S /\ \A y \in S : y <= Max(S)
<1> DEFINE G == {T \in SUBSET S : T # {} => \E m \in T : \A y \in T : y <= m}
<1>1. ASSUME NEW T \in SUBSET S, \A U \in SUBSET T : U # T => U \in G PROVE T \in G
  <2> SUFFICES ASSUME T # {} PROVE \E m \in T : \A y \in T : y <= m
    OBVIOUS
  <2>1. PICK x \in T : TRUE
    OBVIOUS
  <2>2. CASE T \ {x} = {}
    BY <2>1, <2>2
  <2>3. CASE T \ {x} # {}
    <3>1. T \ {x} \in G
      BY <1>1, <2>1
    <3>2. PICK m \in T \ {x} : \A y \in T \ {x} : y <= m
      BY <2>3, <3>1
    <3>3. m \in T /\ x \in Nat /\ m \in Nat
      BY <2>1
    <3>4. CASE x <= m
      BY <3>2, <3>3, <3>4
    <3>5. CASE ~(x <= m)
      <4>1. \A y \in T : y <= x
        BY <3>2, <3>3, <3>5
      <4>2. QED
        BY <2>1, <4>1
    <3>6. QED
      BY <3>4, <3>5
  <2>4. QED
    BY <2>2, <2>3
<1> HIDE DEF G
<1>2. SUBSET S \subseteq G
  BY <1>1, SubsetSteps
<1>3. \E m \in S : \A y \in S : y <= m
  BY <1>2 DEF G
<1>4. \E m \in S : \A y \in S : m >= y
  BY <1>3
<1>5. QED
  BY <1>4 DEF Max

-----------------------------------------------------------------------------
(* Sums of functions and of sequences *)

\* A sum over a function is the sum over its domain.
LEMMA SumFunctionIs ==
  ASSUME NEW f
  PROVE  SumFunction(f) = SumOver(f, DOMAIN f)
BY DEF SumFunction, SumFunctionOnSet, SumOver, FoldFunctionOnSet, MapThenSumSet, MapThenFoldSet

\* The sum of a sequence is a number; the empty one has none to add.
LEMMA SumOfSequence ==
  ASSUME NEW s \in Seq(Nat)
  PROVE  SumFunction(s) \in Nat /\ (s = <<>> => SumFunction(s) = 0)
<1>1. Len(s) \in Nat /\ DOMAIN s = 1 .. Len(s) /\ \A i \in DOMAIN s : s[i] \in Nat
  BY LenProperties
<1>2. IsFiniteSet(DOMAIN s)
  BY <1>1, FS_Interval
<1>3. SumOver(s, DOMAIN s) \in Nat /\ SumOver(s, {}) = 0
  BY <1>1, <1>2, SumStep
<1>4. s = <<>> => DOMAIN s = {}
  BY <1>1
<1>5. QED
  BY <1>3, <1>4, SumFunctionIs

\* It grows by what is appended.
THEOREM SumAppended ==
  ASSUME NEW s \in Seq(Nat), NEW n \in Nat
  PROVE  SumFunction(Append(s, n)) = SumFunction(s) + n
<1> DEFINE D == DOMAIN s
           k == Len(s) + 1
           t == Append(s, n)
<1>1. Len(s) \in Nat /\ D = 1 .. Len(s) /\ \A i \in D : s[i] \in Nat
  BY LenProperties
<1>2. DOMAIN t = D \cup {k} /\ k \notin D /\ t[k] = n /\ \A i \in D : t[i] = s[i]
  BY <1>1, AppendProperties
<1>3. IsFiniteSet(D)
  BY <1>1, FS_Interval
<1> HIDE DEF D, k, t
<1>4. SumOver(t, D \cup {k}) = SumOver(t, D) + n
  BY <1>1, <1>2, <1>3, SumWith
<1>5. SumOver(s, D) = SumOver(t, D)
  BY <1>1, <1>2, <1>3, SumCongruence
<1>6. SumFunction(t) = SumOver(t, D \cup {k}) /\ SumFunction(s) = SumOver(s, DOMAIN s)
  BY <1>2, SumFunctionIs
<1>7. QED
  BY <1>4, <1>5, <1>6 DEF t, D

\* It changes as one of its numbers does.
THEOREM SumReplaced ==
  ASSUME NEW s \in Seq(Nat), NEW k \in DOMAIN s, NEW n \in Nat
  PROVE  SumFunction([s EXCEPT ![k] = n]) + s[k] = SumFunction(s) + n
<1> DEFINE D == DOMAIN s
           R == D \ {k}
           t == [s EXCEPT ![k] = n]
<1>1. Len(s) \in Nat /\ D = 1 .. Len(s) /\ \A i \in D : s[i] \in Nat
  BY LenProperties
<1>2. DOMAIN t = D /\ k \in D /\ t[k] = n /\ \A i \in R : t[i] = s[i]
  OBVIOUS
<1>3. IsFiniteSet(D) /\ IsFiniteSet(R)
  <2>1. IsFiniteSet(D)
    BY <1>1, FS_Interval
  <2>2. R \subseteq D
    OBVIOUS
  <2> HIDE DEF D, R
  <2>3. QED
    BY <2>1, <2>2, FS_Subset
<1>4. \A i \in R : s[i] \in Nat
  BY <1>1
<1>5. SumFunction(t) = SumOver(t, D) /\ SumFunction(s) = SumOver(s, D)
  BY <1>2, SumFunctionIs
<1> HIDE DEF D, t
<1>6. SumOver(t, D) = t[k] + SumOver(t, R) /\ SumOver(s, D) = s[k] + SumOver(s, R)
  <2>1. \A i \in D : t[i] \in Nat
    BY <1>1, <1>2
  <2>2. QED
    BY <1>1, <1>2, <1>3, <2>1, SumWithout
<1> HIDE DEF R
<1>7. SumOver(s, R) = SumOver(t, R) /\ SumOver(s, R) \in Nat
  BY <1>2, <1>3, <1>4, SumCongruence, SumStep
<1>8. s[k] \in Nat
  BY <1>1, <1>2
<1>9. QED
  BY <1>2, <1>5, <1>6, <1>7, <1>8 DEF t
-----------------------------------------------------------------------------
(* Sequences joined together *)

Flattens(f, s) == \A i \in DOMAIN s : f[i] = IF i = 1 THEN s[i] ELSE f[i - 1] \o s[i]

\* The beginnings of a sequence can be joined one after the other ...
LEMMA FlattensExist ==
  ASSUME NEW S, NEW s \in Seq(Seq(S))
  PROVE  \E f \in [DOMAIN s -> Seq(S)] : Flattens(f, s)
<1> DEFINE D(n) == {i \in DOMAIN s : i <= n}
           G == {n \in Nat : \E f \in [D(n) -> Seq(S)] :
                   \A i \in D(n) : f[i] = IF i = 1 THEN s[i] ELSE f[i - 1] \o s[i]}
<1>1. Len(s) \in Nat /\ DOMAIN s = 1 .. Len(s)
  BY LenProperties
<1>2. \A i \in DOMAIN s : s[i] \in Seq(S)
  <2> DEFINE T == Seq(S)
  <2>1. s \in Seq(T)
    OBVIOUS
  <2> HIDE DEF T
  <2>2. \A i \in DOMAIN s : s[i] \in T
    BY <2>1, LenProperties
  <2>3. QED
    BY <2>2 DEF T
<1>3. 0 \in G
  <2>1. D(0) = {}
    BY <1>1
  <2>2. [i \in D(0) |-> <<>>] \in [D(0) -> Seq(S)]
    BY <2>1
  <2>3. QED
    BY <2>1, <2>2
<1>4. ASSUME NEW n \in Nat, n \in G PROVE n + 1 \in G
  <2>1. PICK f \in [D(n) -> Seq(S)] :
          \A i \in D(n) : f[i] = IF i = 1 THEN s[i] ELSE f[i - 1] \o s[i]
    BY <1>4
  <2> DEFINE g == [i \in D(n + 1) |-> IF i = 1 THEN s[i] ELSE f[i - 1] \o s[i]]
  <2>2. \A i \in D(n + 1) : i # 1 => i - 1 \in D(n) /\ f[i - 1] \o s[i] \in Seq(S)
    <3> SUFFICES ASSUME NEW i \in D(n + 1), i # 1
                 PROVE  i - 1 \in D(n) /\ f[i - 1] \o s[i] \in Seq(S)
      OBVIOUS
    <3>1. i - 1 \in D(n)
      BY <1>1
    <3>2. f[i - 1] \in Seq(S) /\ s[i] \in Seq(S)
      BY <2>1, <3>1, <1>2
    <3>3. QED
      BY <3>1, <3>2, ConcatProperties
  <2>3. g \in [D(n + 1) -> Seq(S)]
    BY <1>2, <2>2
  <2>4. \A i \in D(n) : i \in D(n + 1) /\ g[i] = f[i]
    <3>1. \A i \in D(n) : i \in D(n + 1)
      BY <1>1
    <3>2. QED
      BY <2>1, <3>1
  <2>5. \A i \in D(n + 1) : g[i] = IF i = 1 THEN s[i] ELSE g[i - 1] \o s[i]
    <3> SUFFICES ASSUME NEW i \in D(n + 1)
                 PROVE  g[i] = IF i = 1 THEN s[i] ELSE g[i - 1] \o s[i]
      OBVIOUS
    <3>1. g[i] = IF i = 1 THEN s[i] ELSE f[i - 1] \o s[i]
      OBVIOUS
    <3>2. i # 1 => g[i - 1] = f[i - 1]
      BY <2>2, <2>4
    <3> HIDE DEF g
    <3>3. QED
      BY <3>1, <3>2
  <2> DEFINE m == n + 1
  <2>6. m \in Nat
    OBVIOUS
  <2> HIDE DEF g, D, m
  <2>7. \E h \in [D(m) -> Seq(S)] :
          \A i \in D(m) : h[i] = IF i = 1 THEN s[i] ELSE h[i - 1] \o s[i]
    BY <2>3, <2>5 DEF m
  <2>8. m \in G
    BY <2>6, <2>7
  <2>9. QED
    BY <2>8 DEF m
<1>5. Len(s) \in G
  <2> HIDE DEF G
  <2>1. Nat \subseteq G
    BY <1>3, <1>4, NaturalSteps
  <2>2. QED
    BY <1>1, <2>1
<1>6. D(Len(s)) = DOMAIN s
  BY <1>1
<1>7. QED
  BY <1>5, <1>6 DEF Flattens

\* ... in one way.
LEMMA FlattensUnique ==
  ASSUME NEW S, NEW s \in Seq(Seq(S)), NEW f, NEW g, Flattens(f, s), Flattens(g, s)
  PROVE  \A i \in DOMAIN s : f[i] = g[i]
<1> DEFINE G == {n \in Nat : n \in DOMAIN s => f[n] = g[n]}
<1>1. Len(s) \in Nat /\ DOMAIN s = 1 .. Len(s)
  BY LenProperties
<1>2. 0 \in G
  BY <1>1
<1>3. \A n \in Nat : n \in G => n + 1 \in G
  <2> SUFFICES ASSUME NEW n \in Nat, n \in G, n + 1 \in DOMAIN s PROVE f[n + 1] = g[n + 1]
    OBVIOUS
  <2>1. f[n + 1] = IF n + 1 = 1 THEN s[n + 1] ELSE f[n + 1 - 1] \o s[n + 1]
    BY DEF Flattens
  <2>2. g[n + 1] = IF n + 1 = 1 THEN s[n + 1] ELSE g[n + 1 - 1] \o s[n + 1]
    BY DEF Flattens
  <2>3. n + 1 - 1 = n /\ (n + 1 # 1 => n \in DOMAIN s)
    BY <1>1
  <2>4. QED
    BY <2>1, <2>2, <2>3
<1> HIDE DEF G
<1>4. Nat \subseteq G
  BY <1>2, <1>3, NaturalSteps
<1>5. QED
  BY <1>1, <1>4 DEF G

\* FlattenSeq gives the last of them.
LEMMA FlattenIs ==
  ASSUME NEW S, NEW s \in Seq(Seq(S)), NEW f, Flattens(f, s)
  PROVE  FlattenSeq(s) = IF s = <<>> THEN <<>> ELSE f[Len(s)]
<1>1. Len(s) \in Nat /\ DOMAIN s = 1 .. Len(s) /\ (Len(s) = 0 <=> s = <<>>)
  BY LenProperties, EmptySeq
<1> DEFINE Solves(h) == h = [i \in 1 .. Len(s) |-> IF i = 1 THEN s[i] ELSE h[i - 1] \o s[i]]
           h == CHOOSE h : Solves(h)
<1>2. FlattenSeq(s) = IF Len(s) = 0 THEN s ELSE h[Len(s)]
  BY DEF FlattenSeq
<1>3. PICK g \in [DOMAIN s -> Seq(S)] : Flattens(g, s)
  BY FlattensExist
<1>4. Solves(g)
  BY <1>1, <1>3 DEF Flattens
<1>5. Solves(h)
  BY <1>4
<1> HIDE DEF h
<1>6. Flattens(h, s)
  BY <1>1, <1>5 DEF Flattens
<1>7. s # <<>> => Len(s) \in DOMAIN s
  BY <1>1
<1>8. s # <<>> => h[Len(s)] = f[Len(s)]
  BY <1>6, <1>7, FlattensUnique
<1>9. QED
  BY <1>1, <1>2, <1>8

\* The empty sequence joins to nothing, and what is appended comes last.
LEMMA FlattenAppended ==
  ASSUME NEW S, NEW s \in Seq(Seq(S)), NEW x \in Seq(S)
  PROVE  /\ FlattenSeq(s) \in Seq(S)
         /\ s = <<>> => FlattenSeq(s) = <<>>
         /\ FlattenSeq(Append(s, x)) = FlattenSeq(s) \o x
<1> DEFINE T == Seq(S)
           k == Len(s) + 1
           t == Append(s, x)
<1>1. Len(s) \in Nat /\ DOMAIN s = 1 .. Len(s) /\ (Len(s) = 0 <=> s = <<>>)
  BY LenProperties, EmptySeq
<1>2. t \in Seq(T) /\ Len(t) = k /\ t[k] = x /\ \A i \in DOMAIN s : t[i] = s[i]
  <2>1. s \in Seq(T) /\ x \in T
    OBVIOUS
  <2> HIDE DEF T
  <2>2. QED
    BY <1>1, <2>1, AppendProperties
<1>3. DOMAIN t = 1 .. k /\ t # <<>> /\ k \in Nat
  <2> HIDE DEF t, T
  <2>1. DOMAIN t = 1 .. k /\ k \in Nat
    BY <1>1, <1>2, LenProperties
  <2>2. QED
    BY <1>1, <2>1
<1>4. PICK f \in [DOMAIN t -> Seq(S)] : Flattens(f, t)
  BY <1>2, FlattensExist
<1>5. Flattens(f, s)
  <2> SUFFICES ASSUME NEW i \in DOMAIN s
               PROVE  f[i] = IF i = 1 THEN s[i] ELSE f[i - 1] \o s[i]
    BY DEF Flattens
  <2>1. i \in DOMAIN t /\ t[i] = s[i]
    BY <1>1, <1>2, <1>3
  <2> HIDE DEF t
  <2>2. QED
    BY <1>4, <2>1 DEF Flattens
<1> HIDE DEF t, T
<1>6. FlattenSeq(s) = IF s = <<>> THEN <<>> ELSE f[Len(s)]
  BY <1>5, FlattenIs
<1>7. FlattenSeq(t) = f[k]
  <2>1. t \in Seq(Seq(S))
    BY <1>2 DEF T
  <2>2. QED
    BY <1>2, <1>3, <1>4, <2>1, FlattenIs
<1>8. f[k] = IF k = 1 THEN x ELSE f[k - 1] \o x
  <2>1. k \in DOMAIN t
    BY <1>1, <1>3
  <2>2. QED
    BY <1>2, <1>4, <2>1 DEF Flattens
<1>9. FlattenSeq(s) \in Seq(S)
  BY <1>1, <1>3, <1>4, <1>6
<1>10. FlattenSeq(t) = FlattenSeq(s) \o x
  <2>1. CASE s = <<>>
    BY <1>1, <1>6, <1>7, <1>8, <2>1, ConcatEmptySeq
  <2>2. CASE s # <<>>
    BY <1>1, <1>6, <1>7, <1>8, <2>2
  <2>3. QED
    BY <2>1, <2>2
<1>11. QED
  BY <1>6, <1>9, <1>10 DEF t

\* t is the first n of some sequences joined: it has the elements of each of them, and
\* what follows an element there follows it in t.
Joins(t, s, n) ==
  /\ \A i \in 1 .. n : \A j \in DOMAIN s[i] : \E k \in DOMAIN t : t[k] = s[i][j]
  /\ \A k \in DOMAIN t : \E i \in 1 .. n : \E j \in DOMAIN s[i] :
       /\ t[k] = s[i][j]
       /\ j < Len(s[i]) => k < Len(t) /\ t[k + 1] = s[i][j + 1]

\* One sequence more is joined to the others.
LEMMA JoinsOneMore ==
  ASSUME NEW S, NEW s, NEW n \in Nat, NEW t \in Seq(S), NEW x \in Seq(S), s[n + 1] = x, Joins(t, s, n)
  PROVE  Joins(t \o x, s, n + 1)
<1> DEFINE u == t \o x
<1>1. /\ Len(t) \in Nat /\ Len(x) \in Nat /\ DOMAIN t = 1 .. Len(t) /\ DOMAIN x = 1 .. Len(x)
  BY LenProperties
<1>2. /\ Len(u) = Len(t) + Len(x) /\ DOMAIN u = 1 .. Len(u)
      /\ \A k \in 1 .. Len(t) : u[k] = t[k]
      /\ \A k \in 1 .. Len(x) : u[Len(t) + k] = x[k]
  <2>1. u \in Seq(S) /\ Len(u) = Len(t) + Len(x)
        /\ \A k \in 1 .. Len(t) + Len(x) : u[k] = IF k <= Len(t) THEN t[k] ELSE x[k - Len(t)]
    BY ConcatProperties
  <2>2. DOMAIN u = 1 .. Len(u)
    BY <2>1, LenProperties
  <2> HIDE DEF u
  <2>3. \A k \in 1 .. Len(t) : u[k] = t[k]
    BY <1>1, <2>1
  <2>4. ASSUME NEW k \in 1 .. Len(x) PROVE u[Len(t) + k] = x[k]
    <3>1. Len(t) + k \in 1 .. Len(t) + Len(x) /\ ~(Len(t) + k <= Len(t)) /\ (Len(t) + k) - Len(t) = k
      BY <1>1
    <3>2. QED
      BY <2>1, <3>1
  <2>5. QED
    BY <2>1, <2>2, <2>3, <2>4
<1> HIDE DEF u
<1>3. ASSUME NEW i \in 1 .. n + 1, NEW j \in DOMAIN s[i]
      PROVE  \E k \in DOMAIN u : u[k] = s[i][j]
  <2>1. CASE i = n + 1
    <3>1. j \in 1 .. Len(x) /\ s[i][j] = x[j]
      BY <1>1, <2>1
    <3>2. Len(t) + j \in DOMAIN u
      BY <1>1, <1>2, <3>1
    <3>3. QED
      BY <1>2, <3>1, <3>2
  <2>2. CASE i # n + 1
    <3>1. i \in 1 .. n
      BY <2>2
    <3>2. PICK k \in DOMAIN t : t[k] = s[i][j]
      BY <3>1 DEF Joins
    <3>3. k \in DOMAIN u /\ u[k] = t[k]
      BY <1>1, <1>2
    <3>4. QED
      BY <3>2, <3>3
  <2>3. QED
    BY <2>1, <2>2
<1>4. ASSUME NEW k \in DOMAIN u
      PROVE  \E i \in 1 .. n + 1 : \E j \in DOMAIN s[i] :
               /\ u[k] = s[i][j]
               /\ j < Len(s[i]) => k < Len(u) /\ u[k + 1] = s[i][j + 1]
  <2>1. CASE k <= Len(t)
    <3>1. k \in DOMAIN t
      BY <1>1, <1>2, <2>1
    <3>2. PICK i \in 1 .. n :
            \E j \in DOMAIN s[i] :
              /\ t[k] = s[i][j]
              /\ j < Len(s[i]) => k < Len(t) /\ t[k + 1] = s[i][j + 1]
      BY <3>1 DEF Joins
    <3>3. PICK j \in DOMAIN s[i] :
            /\ t[k] = s[i][j]
            /\ j < Len(s[i]) => k < Len(t) /\ t[k + 1] = s[i][j + 1]
      BY <3>2
    <3>4. u[k] = s[i][j]
      BY <1>1, <1>2, <3>1, <3>3
    <3>5. ASSUME j < Len(s[i]) PROVE k < Len(u) /\ u[k + 1] = s[i][j + 1]
      <4>1. k < Len(t) /\ t[k + 1] = s[i][j + 1]
        BY <3>3, <3>5
      <4>2. k + 1 \in 1 .. Len(t)
        BY <1>1, <3>1, <4>1
      <4>3. k < Len(u)
        BY <1>1, <1>2, <3>1, <4>1
      <4>4. QED
        BY <1>2, <4>1, <4>2, <4>3
    <3>6. i \in 1 .. n + 1
      OBVIOUS
    <3>7. QED
      BY <3>4, <3>5, <3>6
  <2>2. CASE ~(k <= Len(t))
    <3>1. PICK j : j = k - Len(t)
      OBVIOUS
    <3>2. j \in 1 .. Len(x) /\ k = Len(t) + j
      BY <1>1, <1>2, <2>2, <3>1
    <3>3. u[k] = x[j]
      BY <1>2, <3>2
    <3>4. ASSUME j < Len(x) PROVE k < Len(u) /\ u[k + 1] = x[j + 1]
      <4>1. j + 1 \in 1 .. Len(x) /\ k + 1 = Len(t) + (j + 1) /\ k < Len(u)
        BY <1>1, <1>2, <3>2, <3>4
      <4>2. QED
        BY <1>2, <4>1
    <3>5. n + 1 \in 1 .. n + 1 /\ j \in DOMAIN s[n + 1]
      BY <1>1, <3>2
    <3>6. QED
      BY <3>3, <3>4, <3>5
  <2>3. QED
    BY <1>1, <1>2, <2>1, <2>2
<1>5. QED
  BY <1>3, <1>4 DEF Joins, u

\* All of them, joined.
THEOREM FlattenJoins ==
  ASSUME NEW S, NEW s \in Seq(Seq(S))
  PROVE  FlattenSeq(s) \in Seq(S) /\ Joins(FlattenSeq(s), s, Len(s))
<1>1. Len(s) \in Nat /\ DOMAIN s = 1 .. Len(s) /\ (Len(s) = 0 <=> s = <<>>)
  BY LenProperties, EmptySeq
<1>2. PICK f \in [DOMAIN s -> Seq(S)] : Flattens(f, s)
  BY FlattensExist
<1>3. \A i \in DOMAIN s : s[i] \in Seq(S)
  <2> DEFINE T == Seq(S)
  <2>1. s \in Seq(T)
    OBVIOUS
  <2> HIDE DEF T
  <2>2. \A i \in DOMAIN s : s[i] \in T
    BY <2>1, ElementOfSeq
  <2>3. QED
    BY <2>2 DEF T
<1>4. <<>> \in Seq(S) /\ Len(<<>>) = 0 /\ DOMAIN <<>> = {} /\ Joins(<<>>, s, 0)
  <2>1. <<>> \in Seq(S) /\ Len(<<>>) = 0 /\ DOMAIN <<>> = {}
    OBVIOUS
  <2>2. 1 .. 0 = {}
    OBVIOUS
  <2>3. QED
    BY <2>1, <2>2 DEF Joins
<1> DEFINE G == {n \in Nat : n \in DOMAIN s => Joins(f[n], s, n)}
<1>5. 0 \in G
  BY <1>1
<1>6. ASSUME NEW n \in Nat, n \in G PROVE n + 1 \in G
  <2> SUFFICES ASSUME n + 1 \in DOMAIN s PROVE Joins(f[n + 1], s, n + 1)
    OBVIOUS
  <2>1. PICK x : x = s[n + 1]
    OBVIOUS
  <2>2. x \in Seq(S) /\ s[n + 1] = x
    BY <1>3, <2>1
  <2>3. f[n + 1] = IF n + 1 = 1 THEN x ELSE f[(n + 1) - 1] \o x
    BY <1>2, <2>1 DEF Flattens
  <2>4. CASE n = 0
    <3>1. f[n + 1] = <<>> \o x
      BY <2>2, <2>3, <2>4, ConcatEmptySeq
    <3>2. Joins(<<>> \o x, s, n + 1)
      BY <1>4, <2>2, <2>4, JoinsOneMore
    <3>3. QED
      BY <3>1, <3>2
  <2>5. CASE n # 0
    <3>1. n \in DOMAIN s /\ (n + 1) - 1 = n /\ n + 1 # 1
      BY <1>1, <2>5
    <3>2. f[n] \in Seq(S) /\ Joins(f[n], s, n) /\ f[n + 1] = f[n] \o x
      BY <1>2, <1>6, <2>3, <3>1
    <3>3. QED
      BY <2>2, <3>2, JoinsOneMore
  <2>6. QED
    BY <2>4, <2>5
<1> HIDE DEF G
<1>7. Nat \subseteq G
  BY <1>5, <1>6, NaturalSteps
<1>8. FlattenSeq(s) = IF s = <<>> THEN <<>> ELSE f[Len(s)]
  BY <1>2, FlattenIs
<1>9. CASE s = <<>>
  BY <1>1, <1>4, <1>8, <1>9
<1>10. CASE s # <<>>
  <2>1. Len(s) \in DOMAIN s
    BY <1>1, <1>10
  <2>2. f[Len(s)] \in Seq(S) /\ Joins(f[Len(s)], s, Len(s))
    BY <1>1, <1>2, <1>7, <2>1 DEF G
  <2>3. QED
    BY <1>8, <1>10, <2>2
<1>11. QED
  BY <1>9, <1>10
=============================================================================
