---------------------------- MODULE Inductions -----------------------------
(***************************************************************************)
(* Induction over the natural numbers in terms of sets: where a theorem    *)
(* would quantify over a predicate, these speak of the set it defines.  And *)
(* what the recursive functions of a sum and of a filter compute.           *)
(***************************************************************************)
EXTENDS ListFilters, WellFoundedInduction, FiniteSetTheorems, SequenceTheorems, TLAPS

\* A nonempty set of naturals has a least element.
LEMMA Least ==
  ASSUME NEW T, T \subseteq Nat, T # {}
  PROVE  \E x \in T : \A y \in T : x <= y
<1>1. IsWellFoundedOn(OpToRel(<, Nat), Nat)
  BY NatLessThanWellFounded
<1>2. PICK x \in T : \A y \in T : <<y, x>> \notin OpToRel(<, Nat)
  BY <1>1, WFMin, Zenon
<1>3. \A y \in T : ~(y < x)
  BY <1>2, Zenon DEF OpToRel
<1>4. QED
  BY <1>3

\* A set that has 0 and the successor of each of its members is all of Nat.
LEMMA Induction ==
  ASSUME NEW S, 0 \in S, \A n \in Nat : n \in S => n + 1 \in S
  PROVE  Nat \subseteq S
<1> SUFFICES ASSUME Nat \ S # {}
             PROVE  FALSE
  OBVIOUS
<1>1. PICK x \in Nat \ S : \A y \in Nat \ S : x <= y
  BY Least
<1>2. x - 1 \in Nat /\ x - 1 \notin Nat \ S
  BY <1>1
<1>3. QED
  BY <1>1, <1>2

\* A nonempty set of places of a list has a last one.
LEMMA Greatest ==
  ASSUME NEW n \in Nat, NEW T, T \subseteq 1..n, T # {}
  PROVE  \E x \in T : \A y \in T : y <= x
<1> DEFINE U == {n - i : i \in T}
<1>1. U \subseteq Nat /\ U # {}
  <2>1. \A i \in T : n - i \in Nat
    OBVIOUS
  <2>2. PICK i \in T : TRUE
    OBVIOUS
  <2>3. n - i \in U
    OBVIOUS
  <2>4. QED
    BY <2>1, <2>3
<1>2. PICK m \in U : \A y \in U : m <= y
  BY <1>1, Least
<1>3. PICK x \in T : m = n - x
  BY <1>2
<1>4. ASSUME NEW y \in T
      PROVE  y <= x
  <2>1. m <= n - y
    BY <1>2
  <2>2. QED
    BY <1>3, <2>1
<1>5. QED
  BY <1>4

-----------------------------------------------------------------------------
(* Sums over finite sets, as the folds of the library compute them *)

\* F is the recursive function that sums f over the subsets of S, taking from each the
\* element that pick names.
IsSum(F, S, f, pick) ==
  F = [T \in SUBSET S |-> IF T = {} THEN 0 ELSE f[pick[T]] + F[T \ {pick[T]}]]

\* pick names an element of each set.
Picks(S, pick) == \A T \in SUBSET S : T # {} => pick[T] \in T

\* For a finite set there is such a function.
LEMMA SumExists ==
  ASSUME NEW S, IsFiniteSet(S), NEW f \in [S -> Nat], NEW pick, Picks(S, pick)
  PROVE  \E F : IsSum(F, S, f, pick)
<1> DEFINE Upto(n) == { T \in SUBSET S : Cardinality(T) <= n }
           Step(F, T) == IF T = {} THEN 0 ELSE f[pick[T]] + F[T \ {pick[T]}]
           N == { n \in Nat : \E F : F = [T \in Upto(n) |-> Step(F, T)] }
<1>1. \A T \in SUBSET S :
        /\ IsFiniteSet(T) /\ Cardinality(T) \in Nat /\ Cardinality(T) <= Cardinality(S)
        /\ T # {} => /\ T \ {pick[T]} \in SUBSET S
                     /\ Cardinality(T \ {pick[T]}) = Cardinality(T) - 1
  BY FS_Subset, FS_CardinalityType, FS_RemoveElement DEF Picks
<1>2. 0 \in N
  <2>1. ASSUME NEW T \in Upto(0) PROVE T = {}
    <3> HIDE DEF N, Step
    <3>1. T \in SUBSET S /\ IsFiniteSet(T) /\ Cardinality(T) \in Nat /\ Cardinality(T) <= 0
      BY <1>1
    <3>2. QED
      BY <3>1, FS_EmptySet
  <2>2. [T \in Upto(0) |-> 0] = [T \in Upto(0) |-> Step([U \in Upto(0) |-> 0], T)]
    BY <2>1
  <2>3. QED
    BY <2>2
<1>3. ASSUME NEW n \in Nat, n \in N
      PROVE  n + 1 \in N
  <2>1. PICK F : F = [T \in Upto(n) |-> Step(F, T)]
    BY <1>3
  <2> DEFINE G == [T \in Upto(n + 1) |-> Step(F, T)]
  <2>2. \A T \in Upto(n) : T \in Upto(n + 1) /\ G[T] = F[T]
    <3>1. \A T \in Upto(n) : F[T] = Step(F, T)
      BY <2>1
    <3>2. \A T \in Upto(n) : T \in Upto(n + 1)
      <4> HIDE DEF N, Step, G
      <4>1. ASSUME NEW T \in Upto(n) PROVE T \in Upto(n + 1)
        <5>1. T \in SUBSET S /\ Cardinality(T) <= n
          OBVIOUS
        <5>2. Cardinality(T) \in Nat
          BY <1>1, <5>1
        <5>3. Cardinality(T) <= n + 1
          BY <5>1, <5>2
        <5>4. QED
          BY <5>1, <5>3
      <4>2. QED
        BY <4>1
    <3>3. \A T \in Upto(n + 1) : G[T] = Step(F, T)
      OBVIOUS
    <3>4. QED
      BY <3>1, <3>2, <3>3
  <2>3. \A T \in Upto(n + 1) : T # {} => T \ {pick[T]} \in Upto(n)
    BY <1>1
  <2>4. \A T \in Upto(n + 1) : Step(G, T) = Step(F, T)
    <3> HIDE DEF G, Upto
    <3> QED
    BY <2>2, <2>3
  <2>5. G = [T \in Upto(n + 1) |-> Step(G, T)]
    BY <2>4
  <2>6. QED
    <3> HIDE DEF G, Step, Upto
    <3> QED
      BY <2>5
<1>4. Cardinality(S) \in N
  <2> HIDE DEF N
  <2>1. Nat \subseteq N
    BY <1>2, <1>3, Induction
  <2>2. QED
    BY <2>1, FS_CardinalityType
<1>5. Upto(Cardinality(S)) = SUBSET S
  BY <1>1
<1>6. QED
  BY <1>4, <1>5 DEF IsSum

\* What a sum is of the empty set, and of one with an element more, whatever is picked.
LEMMA SumAdds ==
  ASSUME NEW S, IsFiniteSet(S), NEW f \in [S -> Nat], NEW pick, Picks(S, pick),
         NEW F, IsSum(F, S, f, pick)
  PROVE  /\ F[{}] = 0
         /\ \A T \in SUBSET S : F[T] \in Nat
         /\ \A T \in SUBSET S : \A x \in T : F[T] = f[x] + F[T \ {x}]
<1> DEFINE Good(T) == F[T] \in Nat /\ \A x \in T : F[T] = f[x] + F[T \ {x}]
           N == { n \in Nat : \A T \in SUBSET S : Cardinality(T) <= n => Good(T) }
<1>1. \A T \in SUBSET S :
        /\ IsFiniteSet(T) /\ Cardinality(T) \in Nat
        /\ \A x \in T : T \ {x} \in SUBSET S /\ Cardinality(T \ {x}) = Cardinality(T) - 1
  BY FS_Subset, FS_CardinalityType, FS_RemoveElement
<1>2. /\ F[{}] = 0
      /\ \A T \in SUBSET S : T # {} => pick[T] \in T /\ F[T] = f[pick[T]] + F[T \ {pick[T]}]
  <2>1. \A T \in SUBSET S : F[T] = IF T = {} THEN 0 ELSE f[pick[T]] + F[T \ {pick[T]}]
    BY Zenon DEF IsSum
  <2>2. QED
    BY <2>1 DEF Picks
<1>3. 0 \in N
  <2>1. ASSUME NEW T \in SUBSET S, Cardinality(T) <= 0 PROVE Good(T)
    <3> HIDE DEF N
    <3>1. T = {}
      BY <1>1, <2>1, FS_EmptySet
    <3>2. QED
      BY <1>2, <3>1
  <2>2. QED
    BY <2>1
<1>4. ASSUME NEW n \in Nat, n \in N
      PROVE  n + 1 \in N
  <2> SUFFICES ASSUME NEW T \in SUBSET S, Cardinality(T) <= n + 1
               PROVE  Good(T)
    OBVIOUS
  <2>1. CASE T = {}
    BY <1>2, <2>1
  <2>2. CASE T # {}
    <3> DEFINE p == pick[T]
    <3>1. ASSUME NEW V \in SUBSET T, NEW x \in T, x \notin V
          PROVE  Good(V)
      <4>1. Cardinality(V) <= n /\ V \in SUBSET S
        <5> HIDE DEF N, Good
        <5>1. V \in SUBSET (T \ {x}) /\ T \ {x} \in SUBSET S /\ IsFiniteSet(T \ {x})
              /\ Cardinality(T \ {x}) \in Nat /\ Cardinality(T \ {x}) = Cardinality(T) - 1
              /\ Cardinality(T) \in Nat
          BY <1>1, <3>1
        <5>2. Cardinality(V) \in Nat /\ Cardinality(V) <= Cardinality(T \ {x})
          BY <1>1, <5>1, FS_Subset
        <5>3. QED
          BY <5>1, <5>2
      <4>2. QED
        BY <1>4, <4>1
    <3>2. p \in T /\ F[T] = f[p] + F[T \ {p}] /\ f[p] \in Nat
      <4> HIDE DEF N, Good
      <4> QED
        BY <1>2, <2>2
    <3>3. Good(T \ {p})
      BY <3>1, <3>2
    <3>4. F[T] \in Nat
      BY <3>2, <3>3
    <3>5. ASSUME NEW x \in T, x # p PROVE F[T] = f[x] + F[T \ {x}]
      <4>1. (T \ {p}) \ {x} = (T \ {x}) \ {p} /\ x \in T \ {p} /\ p \in T \ {x}
        BY <3>2, <3>5
      <4>2. Good(T \ {x}) /\ Good((T \ {x}) \ {p})
        BY <3>1
      <4>3. /\ F[T \ {p}] = f[x] + F[(T \ {p}) \ {x}]
            /\ F[T \ {x}] = f[p] + F[(T \ {x}) \ {p}]
        BY <3>3, <4>1, <4>2
      <4>4. F[(T \ {x}) \ {p}] \in Nat /\ f[x] \in Nat
        BY <4>2
      <4>5. QED
        BY <3>2, <4>1, <4>3, <4>4
    <3>6. QED
      BY <3>2, <3>4, <3>5
  <2>3. QED
    BY <2>1, <2>2
<1>5. ASSUME NEW T \in SUBSET S PROVE Good(T)
  <2>1. Nat \subseteq N
    <3> HIDE DEF N
    <3> QED
      BY <1>3, <1>4, Induction
  <2>2. Cardinality(T) \in Nat
    BY <1>1
  <2>3. QED
    BY <2>1, <2>2
<1>6. QED
  BY <1>2, <1>5

\* Two sums are equal if a one-to-one map takes the terms of one to those of the other.
LEMMA SumsEqual ==
  ASSUME NEW S, IsFiniteSet(S), NEW f \in [S -> Nat], NEW pick, Picks(S, pick),
         NEW F, IsSum(F, S, f, pick),
         NEW U, IsFiniteSet(U), NEW g \in [U -> Nat], NEW take, Picks(U, take),
         NEW G, IsSum(G, U, g, take),
         NEW h \in [S -> U], \A x, y \in S : h[x] = h[y] => x = y,
         \A u \in U : \E x \in S : u = h[x],
         \A x \in S : f[x] = g[h[x]]
  PROVE  F[S] = G[U]
<1> DEFINE Image(T) == { h[x] : x \in T }
           N == { n \in Nat : \A T \in SUBSET S : Cardinality(T) = n => F[T] = G[Image(T)] }
<1>1. /\ F[{}] = 0 /\ G[{}] = 0
      /\ \A T \in SUBSET S : \A x \in T : F[T] = f[x] + F[T \ {x}]
      /\ \A V \in SUBSET U : \A y \in V : G[V] = g[y] + G[V \ {y}]
  BY SumAdds
<1>2. 0 \in N
  <2>1. ASSUME NEW T \in SUBSET S, Cardinality(T) = 0 PROVE F[T] = G[Image(T)]
    <3>1. T = {}
      BY <2>1, FS_EmptySet, FS_Subset
    <3>2. Image(T) = {}
      BY <3>1
    <3> HIDE DEF N, Image
    <3>3. QED
      BY <1>1, <3>1, <3>2
  <2>2. QED
    BY <2>1
<1>3. ASSUME NEW n \in Nat, n \in N
      PROVE  n + 1 \in N
  <2> SUFFICES ASSUME NEW T \in SUBSET S, Cardinality(T) = n + 1
               PROVE  F[T] = G[Image(T)]
    OBVIOUS
  <2>1. PICK x \in T : TRUE
    BY FS_EmptySet
  <2>2. T \ {x} \in SUBSET S /\ Cardinality(T \ {x}) = n
    <3> HIDE DEF N
    <3>1. IsFiniteSet(T)
      BY FS_Subset
    <3>2. Cardinality(T \ {x}) = Cardinality(T) - 1
      BY <2>1, <3>1, FS_RemoveElement
    <3>3. QED
      BY <3>2
  <2>3. F[T \ {x}] = G[Image(T \ {x})]
    BY <1>3, <2>2
  <2>4. Image(T \ {x}) = Image(T) \ {h[x]} /\ Image(T) \in SUBSET U /\ h[x] \in Image(T)
    BY <2>1
  <2>5. F[T] = f[x] + F[T \ {x}] /\ G[Image(T)] = g[h[x]] + G[Image(T) \ {h[x]}]
    <3> HIDE DEF Image, N
    <3>1. F[T] = f[x] + F[T \ {x}]
      BY <1>1, <2>1
    <3>2. \A V \in SUBSET U : \A y \in V : G[V] = g[y] + G[V \ {y}]
      BY <1>1
    <3>3. G[Image(T)] = g[h[x]] + G[Image(T) \ {h[x]}]
      BY <2>4, <3>2, Zenon
    <3>4. QED  BY <3>1, <3>3
  <2>6. QED
    BY <2>1, <2>3, <2>4, <2>5
<1>4. F[S] = G[Image(S)]
  <2>1. Nat \subseteq N
    <3> HIDE DEF N
    <3> QED
      BY <1>2, <1>3, Induction
  <2>2. QED
    BY <2>1, FS_CardinalityType
<1>5. Image(S) = U
  OBVIOUS
<1>6. QED
  BY <1>4, <1>5

\* What the folds pick.
Chosen(S) == [T \in SUBSET S |-> CHOOSE x \in T : TRUE]

LEMMA ChosenPicks ==
  ASSUME NEW S
  PROVE  Picks(S, Chosen(S))
BY DEF Picks, Chosen

\* A set of subsets of a finite set has that set, if it has the empty one and each that it
\* has but for one element.
LEMMA SetInduction ==
  ASSUME NEW S, IsFiniteSet(S), NEW P, {} \in P,
         \A T \in SUBSET S : \A x \in T : T \ {x} \in P => T \in P
  PROVE  S \in P
<1> DEFINE N == {n \in Nat : \A T \in SUBSET S : Cardinality(T) = n => T \in P}
<1>1. \A T \in SUBSET S : IsFiniteSet(T) /\ Cardinality(T) \in Nat
  BY FS_Subset, FS_CardinalityType
<1>2. 0 \in N
  BY <1>1, FS_EmptySet
<1>3. ASSUME NEW n \in Nat, n \in N PROVE n + 1 \in N
  <2> SUFFICES ASSUME NEW T \in SUBSET S, Cardinality(T) = n + 1 PROVE T \in P
    OBVIOUS
  <2>1. T # {}
    BY FS_EmptySet
  <2>2. PICK x \in T : TRUE
    BY <2>1
  <2>3. Cardinality(T \ {x}) = n /\ T \ {x} \in SUBSET S
    <3> HIDE DEF N
    <3>1. Cardinality(T \ {x}) = Cardinality(T) - 1
      BY <1>1, FS_RemoveElement
    <3>2. QED  BY <3>1
  <2>4. QED  BY <1>3, <2>3
<1>4. Cardinality(S) \in N
  <2> HIDE DEF N
  <2>1. QED  BY <1>1, <1>2, <1>3, Induction
<1>5. QED
  BY <1>4

\* F has the sum of f over each subset of S.
Sums(F, S, f) ==
  IsFiniteSet(S) /\ f \in [S -> Nat] /\ \E pick : Picks(S, pick) /\ IsSum(F, S, f, pick)

\* What such an F is.
LEMMA SumLaws ==
  ASSUME NEW S, NEW f, NEW F, Sums(F, S, f)
  PROVE  /\ IsFiniteSet(S) /\ f \in [S -> Nat] /\ F[{}] = 0
         /\ \A T \in SUBSET S : F[T] \in Nat
         /\ \A T \in SUBSET S : \A x \in T : F[T] = f[x] + F[T \ {x}]
<1>1. PICK pick : Picks(S, pick) /\ IsSum(F, S, f, pick)
  BY DEF Sums
<1>2. IsFiniteSet(S)
  BY DEF Sums
<1>3. PICK d \in [S -> Nat] : d = f
  BY DEF Sums
<1>4. QED
  BY <1>1, <1>2, <1>3, SumAdds

\* And of a set with an element.
LEMMA SumStep ==
  ASSUME NEW S, NEW f, NEW F, Sums(F, S, f), NEW T \in SUBSET S, NEW x \in T
  PROVE  f[x] \in Nat /\ F[T \ {x}] \in Nat /\ F[T] = f[x] + F[T \ {x}]
<1>1. T \ {x} \in SUBSET S /\ x \in S
  OBVIOUS
<1>2. f[x] \in Nat
  <2>1. PICK d \in [S -> Nat] : d = f
    BY SumLaws
  <2>2. QED  BY <1>1, <2>1
<1>3. F[T \ {x}] \in Nat
  BY <1>1, SumLaws
<1>4. QED
  BY <1>2, <1>3, SumLaws

\* The sum over two sets that share nothing.
LEMMA SumOfBoth ==
  ASSUME NEW S, NEW f, NEW F, Sums(F, S, f), NEW A \in SUBSET S, NEW B \in SUBSET S, A \cap B = {}
  PROVE  F[A \cup B] = F[A] + F[B]
<1> DEFINE P == {T \in SUBSET B : F[A \cup T] = F[A] + F[T]}
<1>1. F[{}] = 0 /\ F[A] \in Nat /\ IsFiniteSet(B)
  BY FS_Subset, SumLaws
<1>2. {} \in P
  <2>1. A \cup {} = A
    OBVIOUS
  <2>2. QED  BY <1>1, <2>1
<1>3. ASSUME NEW T \in SUBSET B, NEW x \in T, T \ {x} \in P PROVE T \in P
  <2>1. PICK C : C = A \cup T
    OBVIOUS
  <2>2. C \ {x} = A \cup (T \ {x}) /\ C \in SUBSET S /\ T \in SUBSET S /\ x \in C
    BY <2>1
  <2>3. F[C] = f[x] + F[C \ {x}]
    <3> HIDE DEF P
    <3>1. QED  BY <2>2, SumStep
  <2>a. f[x] \in Nat /\ F[T \ {x}] \in Nat /\ F[T] = f[x] + F[T \ {x}]
    <3> HIDE DEF P
    <3>1. QED  BY <2>2, SumStep
  <2>4. F[C \ {x}] = F[A] + F[T \ {x}]
    BY <1>3, <2>2
  <2>5. F[C] = F[A] + F[T]
    BY <1>1, <2>3, <2>a, <2>4
  <2>6. QED  BY <2>1, <2>5
<1>4. B \in P
  <2> HIDE DEF P
  <2>1. QED  BY <1>1, <1>2, <1>3, SetInduction
<1>5. QED
  BY <1>4

\* The sum over more is no less.
LEMMA SumGrows ==
  ASSUME NEW S, NEW f, NEW F, Sums(F, S, f), NEW B \in SUBSET S, NEW A \in SUBSET B
  PROVE  F[A] <= F[B]
<1>1. PICK D : D = B \ A
  OBVIOUS
<1>2. A \cup D = B
  BY <1>1
<1>3. A \cap D = {} /\ A \in SUBSET S /\ D \in SUBSET S
  BY <1>1
<1>4. F[B] = F[A] + F[D]
  <2>1. F[A \cup D] = F[A] + F[D]
    BY <1>3, SumOfBoth
  <2>2. QED  BY <1>2, <2>1
<1>5. F[A] \in Nat /\ F[D] \in Nat
  BY <1>3, SumLaws
<1>6. QED
  BY <1>4, <1>5

\* A sum whose terms are no more is no more.
LEMMA SumBelow ==
  ASSUME NEW S, NEW f, NEW F, Sums(F, S, f), NEW U, NEW g, NEW G, Sums(G, U, g),
         NEW A, A \subseteq S, A \subseteq U, \A x \in A : f[x] <= g[x]
  PROVE  F[A] <= G[A]
<1> DEFINE P == {T \in SUBSET A : F[T] <= G[T]}
<1>1. F[{}] = 0 /\ G[{}] = 0 /\ IsFiniteSet(A)
  BY FS_Subset, SumLaws
<1>2. {} \in P
  BY <1>1
<1>3. ASSUME NEW T \in SUBSET A, NEW x \in T, T \ {x} \in P PROVE T \in P
  <2>1. T \in SUBSET S /\ T \in SUBSET U /\ f[x] <= g[x]
    OBVIOUS
  <2>2. f[x] \in Nat /\ F[T \ {x}] \in Nat /\ F[T] = f[x] + F[T \ {x}]
    BY <2>1, SumStep
  <2>3. g[x] \in Nat /\ G[T \ {x}] \in Nat /\ G[T] = g[x] + G[T \ {x}]
    BY <2>1, SumStep
  <2>4. F[T \ {x}] <= G[T \ {x}]
    BY <1>3
  <2>5. F[T] <= G[T]
    BY <2>1, <2>2, <2>3, <2>4
  <2>6. QED  BY <2>5
<1>4. A \in P
  <2> HIDE DEF P
  <2>1. QED  BY <1>1, <1>2, <1>3, SetInduction
<1>5. QED
  BY <1>4

\* The part of S that c takes to V.
Fiber(S, c, V) == {i \in S : c[i] \in V}

\* g has the sum of each part, F being that of all of S.
SumsParts(g, F, S, c, R) == \A r \in R : g[r] = F[Fiber(S, c, {r})]

\* A sum is that of the sums over its parts.
LEMMA SumOfFibers ==
  ASSUME NEW S, NEW f, NEW F, Sums(F, S, f), NEW R, NEW c \in [S -> R],
         NEW g, SumsParts(g, F, S, c, R), NEW G, Sums(G, R, g)
  PROVE  F[S] = G[R]
<1> DEFINE P == {V \in SUBSET R : F[Fiber(S, c, V)] = G[V]}
<1>1. F[{}] = 0 /\ G[{}] = 0 /\ IsFiniteSet(R)
  BY SumLaws
<1>2. \A V : Fiber(S, c, V) \in SUBSET S
  BY DEF Fiber
<1>3. {} \in P
  <2>1. Fiber(S, c, {}) = {}
    BY DEF Fiber
  <2>2. QED  BY <1>1, <2>1
<1>4. ASSUME NEW V \in SUBSET R, NEW x \in V, V \ {x} \in P PROVE V \in P
  <2>1. PICK A, B : A = Fiber(S, c, {x}) /\ B = Fiber(S, c, V \ {x})
    OBVIOUS
  <2>2. A \cup B = Fiber(S, c, V) /\ A \cap B = {}
    BY <2>1 DEF Fiber
  <2>3. F[A \cup B] = F[A] + F[B]
    <3>1. A \in SUBSET S /\ B \in SUBSET S
      BY <1>2, <2>1
    <3> HIDE DEF P
    <3>2. A \cap B = {}
      BY <2>2
    <3>3. QED  BY <3>1, <3>2, SumOfBoth
  <2>4. F[B] = G[V \ {x}]
    BY <1>4, <2>1
  <2>5. F[A] = g[x]
    BY <2>1 DEF SumsParts
  <2>6. G[V] = g[x] + G[V \ {x}]
    BY SumStep
  <2>7. F[Fiber(S, c, V)] = G[V]
    BY <2>2, <2>3, <2>4, <2>5, <2>6
  <2>8. QED  BY <2>7
<1>5. R \in P
  <2> HIDE DEF P
  <2>1. QED  BY <1>1, <1>3, <1>4, SetInduction
<1>6. Fiber(S, c, R) = S
  BY DEF Fiber
<1>7. QED
  BY <1>5, <1>6

\* There is such an F.
LEMMA SumsExist ==
  ASSUME NEW S, IsFiniteSet(S), NEW f \in [S -> Nat]
  PROVE  \E F : Sums(F, S, f) /\ IsSum(F, S, f, Chosen(S))
<1>1. PICK F : IsSum(F, S, f, Chosen(S))
  BY SumExists, ChosenPicks
<1>2. Picks(S, Chosen(S))
  BY ChosenPicks
<1>3. QED
  BY <1>1, <1>2 DEF Sums

-----------------------------------------------------------------------------
(* Lists that are joined *)

\* Concatenation and Append under names: a lemma about a name can be instantiated.
Joined(a, b) == a \o b
Added(a, x) == Append(a, x)

\* What two lists are, joined.
IsJoined(j, a, b, T) ==
  /\ j \in Seq(T) /\ Len(j) = Len(a) + Len(b) /\ Len(a) \in Nat /\ Len(b) \in Nat
  /\ \A i \in 1 .. Len(a) : j[i] = a[i]
  /\ \A i \in 1 .. Len(b) : j[Len(a) + i] = b[i]

\* Joining gives such a list.
LEMMA JoinedParts ==
  ASSUME NEW T, NEW a \in Seq(T), NEW b \in Seq(T)
  PROVE  IsJoined(Joined(a, b), a, b, T)
BY DEF Joined, IsJoined

\* Nothing is joined.
LEMMA JoinedNothing ==
  ASSUME NEW T, NEW a \in Seq(T)
  PROVE  Joined(a, << >>) = a
BY DEF Joined

\* Both parts of a list in S are in S.
LEMMA PartsIn ==
  ASSUME NEW T, NEW a \in Seq(T), NEW b \in Seq(T), NEW S, Joined(a, b) \in Seq(S)
  PROVE  a \in Seq(S) /\ b \in Seq(S)
<1>1. /\ Len(a) \in Nat /\ Len(b) \in Nat /\ Len(a \o b) = Len(a) + Len(b)
      /\ \A k \in 1 .. Len(a) : (a \o b)[k] = a[k]
      /\ \A k \in 1 .. Len(b) : (a \o b)[Len(a) + k] = b[k]
  OBVIOUS
<1>2. \A k \in 1 .. Len(a \o b) : (a \o b)[k] \in S
  BY DEF Joined
<1>3. \A k \in 1 .. Len(a) : a[k] \in S
  BY <1>1, <1>2
<1>4. \A k \in 1 .. Len(b) : b[k] \in S
  <2> TAKE k \in 1 .. Len(b)
  <2>1. Len(a) + k \in 1 .. Len(a \o b)
    BY <1>1
  <2>2. QED  BY <1>1, <1>2, <2>1
<1>5. a \in Seq(S)
  BY <1>3
<1>6. b \in Seq(S)
  BY <1>4
<1>7. QED
  BY <1>5, <1>6

\* The last of a list is the last of what it is joined to.
LEMMA AddedLast ==
  ASSUME NEW T, NEW a \in Seq(T), NEW b \in Seq(T), NEW x \in T
  PROVE  Joined(a, Added(b, x)) = Added(Joined(a, b), x)
<1> DEFINE l == Append(a \o b, x)
           r == a \o Append(b, x)
<1>1. l \in Seq(T) /\ r \in Seq(T) /\ Len(l) = Len(a) + Len(b) + 1 /\ Len(r) = Len(l)
  OBVIOUS
<1>2. \A i \in 1 .. Len(l) : l[i] = r[i]
  OBVIOUS
<1> HIDE DEF l, r
<1>3. l = r
  BY <1>1, <1>2, SeqEqual
<1>4. QED
  BY <1>3 DEF l, r, Joined, Added

\* The head of a list goes to the end of the list before it.
LEMMA HeadMoved ==
  ASSUME NEW T, NEW a \in Seq(T), NEW b \in Seq(T), b # << >>
  PROVE  Joined(Added(a, Head(b)), Tail(b)) = Joined(a, b)
<1> DEFINE l == Append(a, Head(b)) \o Tail(b)
           r == a \o b
           m == Len(a)
           n == Len(b)
<1>1. /\ m \in Nat /\ n \in Nat /\ n >= 1 /\ Head(b) = b[1] /\ b[1] \in T
      /\ Tail(b) \in Seq(T) /\ Len(Tail(b)) = n - 1 /\ \A i \in 1 .. (n - 1) : Tail(b)[i] = b[i + 1]
  OBVIOUS
<1>2. /\ Append(a, Head(b)) \in Seq(T) /\ Len(Append(a, Head(b))) = m + 1
      /\ Append(a, Head(b))[m + 1] = b[1] /\ \A i \in 1 .. m : Append(a, Head(b))[i] = a[i]
  BY <1>1
<1>3. /\ l \in Seq(T) /\ Len(l) = m + n
      /\ \A i \in 1 .. (m + 1) : l[i] = Append(a, Head(b))[i]
      /\ \A i \in 1 .. (n - 1) : l[(m + 1) + i] = Tail(b)[i]
  <2>1. PICK u, v : u = Append(a, Head(b)) /\ v = Tail(b)
    OBVIOUS
  <2>2. u \in Seq(T) /\ v \in Seq(T) /\ Len(u) = m + 1 /\ Len(v) = n - 1
    BY <1>1, <1>2, <2>1
  <2>3. /\ u \o v \in Seq(T) /\ Len(u \o v) = m + n
        /\ \A i \in 1 .. (m + 1) : (u \o v)[i] = u[i]
        /\ \A i \in 1 .. (n - 1) : (u \o v)[(m + 1) + i] = v[i]
    <3>1. m \in Nat /\ n \in Nat
      BY <1>1
    <3> HIDE DEF m, n
    <3>2. IsJoined(Joined(u, v), u, v, T)
      BY <2>2, JoinedParts
    <3>3. (m + 1) + (n - 1) = m + n
      BY <3>1
    <3>4. QED  BY <2>2, <3>2, <3>3 DEF IsJoined, Joined
  <2>4. QED  BY <2>1, <2>3
<1>4. /\ r \in Seq(T) /\ Len(r) = m + n
      /\ \A i \in 1 .. m : r[i] = a[i]
      /\ \A i \in 1 .. n : r[m + i] = b[i]
  BY <1>1
<1> HIDE DEF l, r, m, n
<1>5. ASSUME NEW i \in 1 .. Len(l)
      PROVE  l[i] = r[i]
  <2>1. CASE i <= m
    BY <1>1, <1>2, <1>3, <1>4, <2>1
  <2>2. CASE i = m + 1
    BY <1>1, <1>2, <1>3, <1>4, <2>2
  <2>3. CASE i > m + 1
    <3>1. PICK j \in 1 .. (n - 1) : i = (m + 1) + j
      <4>1. i - (m + 1) \in 1 .. (n - 1) /\ i = (m + 1) + (i - (m + 1))
        BY <1>1, <1>3, <2>3
      <4>2. QED  BY <4>1
    <3>2. l[i] = b[j + 1]
      BY <1>1, <1>3, <3>1
    <3>3. j + 1 \in 1 .. n /\ i = m + (j + 1)
      BY <1>1, <3>1
    <3>4. QED  BY <1>4, <3>2, <3>3
  <2>4. QED  BY <1>1, <1>3, <2>1, <2>2, <2>3
<1>6. l = r
  BY <1>3, <1>4, <1>5, SeqEqual
<1>7. QED
  BY <1>6 DEF l, r, Joined, Added

\* o has the head of l, and t is its tail.
Parted(l, o, t) ==
  /\ Len(o) = 1 /\ o[1] = l[1]
  /\ Len(t) = Len(l) - 1 /\ \A i \in 1 .. Len(t) : t[i] = l[i + 1]

\* A list is its head and its tail, joined.
LEMMA JoinedOne ==
  ASSUME NEW T, NEW l \in Seq(T), NEW o \in Seq(T), NEW t \in Seq(T), Parted(l, o, t)
  PROVE  Joined(o, t) = l
<1> DEFINE j == Joined(o, t)
<1>a. Len(l) \in Nat
  OBVIOUS
<1>c. IsJoined(j, o, t, T)
  BY JoinedParts
<1> HIDE DEF j
<1>b. /\ j \in Seq(T) /\ Len(j) = Len(o) + Len(t) /\ Len(t) \in Nat
      /\ \A i \in 1 .. Len(o) : j[i] = o[i]
      /\ \A i \in 1 .. Len(t) : j[Len(o) + i] = t[i]
  BY <1>c DEF IsJoined
<1>1. /\ Len(j) = Len(l)
      /\ j[1] = l[1] /\ \A i \in 1 .. Len(t) : j[1 + i] = t[i]
  BY <1>a, <1>b DEF Parted
<1>2. ASSUME NEW i \in 1 .. Len(l) PROVE j[i] = l[i]
  <2>1. CASE i = 1
    BY <1>1, <2>1
  <2>2. CASE i # 1
    <3>1. PICK k \in 1 .. Len(t) : i = 1 + k
      <4>1. i - 1 \in 1 .. Len(t) /\ i = 1 + (i - 1)
        BY <1>a, <1>1, <2>2 DEF Parted
      <4>2. QED  BY <4>1
    <3>2. j[i] = t[k] /\ t[k] = l[k + 1] /\ k + 1 = i
      BY <1>1, <3>1 DEF Parted
    <3>3. QED  BY <3>2
  <2>3. QED  BY <2>1, <2>2
<1>3. j = l
  BY <1>1, <1>2, <1>b, SeqEqual
<1>4. QED
  BY <1>3 DEF j

-----------------------------------------------------------------------------
(* Filters of lists *)

\* A list filtered: the function that OnlyUpto chooses is the recursive one.
OnlyStep(F, list, S, k) ==
  IF k = 0 THEN << >> ELSE IF list[k] \in S THEN Append(F[k - 1], list[k]) ELSE F[k - 1]

IsOnly(F, list, S, n) == F = [k \in 0 .. n |-> OnlyStep(F, list, S, k)]

\* There is such a function for any list.
LEMMA OnlyExists ==
  ASSUME NEW list, NEW S, NEW n \in Nat
  PROVE  \E F : IsOnly(F, list, S, n)
<1> DEFINE N == {m \in Nat : \E F : F = [k \in 0 .. m |-> OnlyStep(F, list, S, k)]}
<1>1. 0 \in N
  <2> DEFINE F == [k \in 0 .. 0 |-> << >>]
  <2>1. F = [k \in 0 .. 0 |-> OnlyStep(F, list, S, k)]
    BY DEF OnlyStep
  <2> HIDE DEF F
  <2>2. QED
    BY <2>1
<1>2. ASSUME NEW m \in Nat, m \in N
      PROVE  m + 1 \in N
  <2>1. PICK F : F = [k \in 0 .. m |-> OnlyStep(F, list, S, k)]
    BY <1>2
  <2> DEFINE G == [k \in 0 .. (m + 1) |-> IF k = m + 1 THEN OnlyStep(F, list, S, k) ELSE F[k]]
  <2>2. ASSUME NEW k \in 0 .. (m + 1) PROVE G[k] = OnlyStep(G, list, S, k)
    <3>1. k # 0 => k - 1 \in 0 .. m /\ k - 1 # m + 1 /\ G[k - 1] = F[k - 1]
      OBVIOUS
    <3>2. OnlyStep(G, list, S, k) = OnlyStep(F, list, S, k)
      BY <3>1 DEF OnlyStep
    <3>3. k # m + 1 => k \in 0 .. m /\ F[k] = OnlyStep(F, list, S, k)
      BY <2>1
    <3>4. QED  BY <3>2, <3>3
  <2>3. G = [k \in 0 .. (m + 1) |-> OnlyStep(G, list, S, k)]
    <3>1. G = [k \in 0 .. (m + 1) |-> G[k]]
      OBVIOUS
    <3> HIDE DEF G
    <3>2. QED  BY <2>2, <3>1
  <2> HIDE DEF G
  <2>4. QED
    BY <2>3
<1>3. n \in N
  <2> HIDE DEF N
  <2>1. QED  BY <1>1, <1>2, Induction
<1>4. QED
  BY <1>3 DEF IsOnly

\* OnlyUpto is such a function.
LEMMA OnlyUptoIs ==
  ASSUME NEW list, NEW S, Len(list) \in Nat
  PROVE  IsOnly(OnlyUpto(list, S), list, S, Len(list))
<1> DEFINE Chosen1 ==
      CHOOSE only :
        only = [k \in 0 .. Len(list) |->
                  IF k = 0 THEN << >>
                  ELSE IF list[k] \in S THEN Append(only[k - 1], list[k]) ELSE only[k - 1]]
<1>1. OnlyUpto(list, S) = Chosen1
  BY DEF OnlyUpto
<1>2. PICK F : IsOnly(F, list, S, Len(list))
  BY OnlyExists
<1>3. IsOnly(Chosen1, list, S, Len(list))
  BY <1>2, Zenon DEF IsOnly, OnlyStep
<1> HIDE DEF Chosen1
<1>4. QED
  BY <1>1, <1>3

\* What OnlyUpto computes: lists of members that are in S.
IsFiltered(F, list, S, T) ==
  /\ Len(list) \in Nat /\ F[0] = << >>
  /\ \A k \in 1 .. Len(list) :
       /\ list[k] \in T
       /\ F[k] = IF list[k] \in S THEN Append(F[k - 1], list[k]) ELSE F[k - 1]
  /\ \A k \in 0 .. Len(list) : F[k] \in Seq(T)
  /\ \A k \in 0 .. Len(list) : F[k] \in Seq(S)

IsListIn(list, S, T) == list \in Seq(T) /\ list \in Seq(S)

\* OnlyUpto computes such lists.
LEMMA OnlyIs ==
  ASSUME NEW T, NEW list \in Seq(T), NEW S
  PROVE  IsFiltered(OnlyUpto(list, S), list, S, T)
<1> DEFINE F == OnlyUpto(list, S)
<1>1. Len(list) \in Nat /\ \A k \in 1 .. Len(list) : list[k] \in T
  OBVIOUS
<1>2. F = [k \in 0 .. Len(list) |-> OnlyStep(F, list, S, k)]
  BY <1>1, OnlyUptoIs DEF IsOnly
<1> HIDE DEF F
<1>3. F[0] = << >>
  BY <1>1, <1>2 DEF OnlyStep
<1>4. ASSUME NEW k \in 1 .. Len(list)
      PROVE  F[k] = IF list[k] \in S THEN Append(F[k - 1], list[k]) ELSE F[k - 1]
  <2>1. k \in 0 .. Len(list) /\ k # 0
    BY <1>1
  <2>2. F[k] = OnlyStep(F, list, S, k)
    BY <1>2, <2>1
  <2>3. QED
    BY <2>1, <2>2 DEF OnlyStep
<1> DEFINE N == {k \in Nat : k <= Len(list) => IsListIn(F[k], S, T)}
<1>5. 0 \in N
  <2>1. IsListIn(<< >>, S, T)
    BY DEF IsListIn
  <2>2. QED  BY <1>3, <2>1
<1>6. ASSUME NEW k \in Nat, k \in N PROVE k + 1 \in N
  <2>1. CASE k + 1 <= Len(list)
    <3>1. k + 1 \in 1 .. Len(list) /\ (k + 1) - 1 = k
      BY <1>1, <2>1
    <3>2. IsListIn(F[k], S, T)
      BY <1>1, <1>6, <2>1
    <3>3. F[k + 1] = IF list[k + 1] \in S THEN Append(F[k], list[k + 1]) ELSE F[k]
      BY <1>4, <3>1
    <3>4. list[k + 1] \in T
      BY <1>1, <3>1
    <3>5. CASE list[k + 1] \in S
      <4>1. PICK l, x : l = F[k] /\ x = list[k + 1]
        OBVIOUS
      <4>2. IsListIn(Append(l, x), S, T)
        BY <3>2, <3>4, <3>5, <4>1 DEF IsListIn
      <4>3. F[k + 1] = Append(l, x)
        BY <3>3, <3>5, <4>1
      <4>4. IsListIn(F[k + 1], S, T)
        BY <4>2, <4>3, Zenon
      <4>5. QED  BY <4>4
    <3>6. CASE list[k + 1] \notin S
      BY <3>2, <3>3, <3>6
    <3>7. QED  BY <3>5, <3>6
  <2>2. QED  BY <1>1, <2>1
<1> HIDE DEF N
<1>7. Nat \subseteq N
  BY <1>5, <1>6, Induction
<1>8. \A k \in 0 .. Len(list) : F[k] \in Seq(T) /\ F[k] \in Seq(S)
  BY <1>1, <1>7 DEF N, IsListIn
<1>9. QED
  BY <1>1, <1>3, <1>4, <1>8 DEF F, IsFiltered

\* What a filter leaves.
LEMMA OnlyType ==
  ASSUME NEW T, NEW list \in Seq(T), NEW S
  PROVE  Only(list, S) \in Seq(T) /\ Only(list, S) \in Seq(S)
<1>1. IsFiltered(OnlyUpto(list, S), list, S, T)
  BY OnlyIs
<1>2. Len(list) \in 0 .. Len(list)
  OBVIOUS
<1>3. QED
  BY <1>1, <1>2 DEF IsFiltered, Only

\* Lists that agree so far are filtered alike.
Agree(a, S, b, R, n) ==
  /\ n <= Len(a) /\ n <= Len(b)
  /\ \A k \in 1 .. n : a[k] = b[k] /\ (a[k] \in S <=> b[k] \in R)

\* The filters of two lists agree as far as the lists do.
LEMMA OnlyAlike ==
  ASSUME NEW T, NEW a \in Seq(T), NEW b \in Seq(T), NEW S, NEW R, NEW n \in Nat,
         Agree(a, S, b, R, n)
  PROVE  OnlyUpto(a, S)[n] = OnlyUpto(b, R)[n]
<1> DEFINE F == OnlyUpto(a, S)
           G == OnlyUpto(b, R)
           N == {k \in Nat : k <= n => F[k] = G[k]}
<1>a. IsFiltered(F, a, S, T) /\ IsFiltered(G, b, R, T)
  BY OnlyIs
<1> HIDE DEF F, G
<1>1. /\ Len(a) \in Nat /\ F[0] = << >>
      /\ \A k \in 1 .. Len(a) : F[k] = IF a[k] \in S THEN Append(F[k - 1], a[k]) ELSE F[k - 1]
  BY <1>a DEF IsFiltered
<1>2. /\ Len(b) \in Nat /\ G[0] = << >>
      /\ \A k \in 1 .. Len(b) : G[k] = IF b[k] \in R THEN Append(G[k - 1], b[k]) ELSE G[k - 1]
  BY <1>a DEF IsFiltered
<1>3. 0 \in N
  BY <1>1, <1>2
<1>4. ASSUME NEW k \in Nat, k \in N PROVE k + 1 \in N
  <2>1. CASE k + 1 <= n
    <3>1. k + 1 \in 1 .. n /\ k + 1 \in 1 .. Len(a) /\ k + 1 \in 1 .. Len(b) /\ (k + 1) - 1 = k
      BY <1>1, <1>2, <2>1 DEF Agree
    <3>2. F[k + 1] = IF a[k + 1] \in S THEN Append(F[k], a[k + 1]) ELSE F[k]
      BY <1>1, <3>1
    <3>3. G[k + 1] = IF b[k + 1] \in R THEN Append(G[k], b[k + 1]) ELSE G[k]
      BY <1>2, <3>1
    <3>4. F[k] = G[k]
      BY <1>4, <2>1
    <3>5. a[k + 1] = b[k + 1] /\ (a[k + 1] \in S <=> b[k + 1] \in R)
      BY <3>1 DEF Agree
    <3>6. QED  BY <3>2, <3>3, <3>4, <3>5
  <2>2. QED  BY <2>1
<1> HIDE DEF N
<1>5. n \in N
  BY <1>3, <1>4, Induction
<1>6. QED
  BY <1>5 DEF N, F, G

\* Filters that agree on the members of a list leave the same of it.
LEMMA OnlySame ==
  ASSUME NEW T, NEW list \in Seq(T), NEW S, NEW R,
         \A i \in 1 .. Len(list) : list[i] \in S <=> list[i] \in R
  PROVE  Only(list, S) = Only(list, R)
<1>1. Len(list) \in Nat /\ Agree(list, S, list, R, Len(list))
  BY DEF Agree
<1>2. QED
  BY <1>1, OnlyAlike DEF Only

\* What is left of a list and one more.
LEMMA OnlyAppend ==
  ASSUME NEW T, NEW list \in Seq(T), NEW x \in T, NEW S
  PROVE  Only(Append(list, x), S) =
           IF x \in S THEN Append(Only(list, S), x) ELSE Only(list, S)
<1> DEFINE more == Append(list, x)
           n == Len(list)
<1>1. more \in Seq(T) /\ n \in Nat /\ Len(more) = n + 1 /\ more[n + 1] = x
      /\ \A k \in 1 .. n : more[k] = list[k]
  OBVIOUS
<1> HIDE DEF more, n
<1>2. Len(list) = n
  BY DEF n
<1>3. OnlyUpto(more, S)[n] = OnlyUpto(list, S)[n]
  <2>1. Agree(more, S, list, S, n)
    BY <1>1, <1>2 DEF Agree
  <2>2. QED  BY <1>1, <2>1, OnlyAlike
<1>4. n + 1 \in 1 .. Len(more) /\ (n + 1) - 1 = n
  BY <1>1
<1>5. OnlyUpto(more, S)[n + 1] = IF x \in S THEN Append(OnlyUpto(more, S)[n], x)
                                ELSE OnlyUpto(more, S)[n]
  <2>1. IsFiltered(OnlyUpto(more, S), more, S, T)
    BY <1>1, OnlyIs
  <2>2. QED
    BY <1>1, <1>4, <2>1 DEF IsFiltered
<1>6. Only(more, S) = OnlyUpto(more, S)[n + 1] /\ Only(list, S) = OnlyUpto(list, S)[n]
  BY <1>1, <1>2 DEF Only
<1>7. QED
  BY <1>3, <1>5, <1>6 DEF more

\* A filter that leaves all of a list.
LEMMA OnlyAll ==
  ASSUME NEW T, NEW list \in Seq(T), NEW S, \A k \in 1 .. Len(list) : list[k] \in S
  PROVE  Only(list, S) = list
<1> DEFINE F == OnlyUpto(list, S)
           n == Len(list)
           N == {k \in Nat : k <= n => Len(F[k]) = k /\ \A i \in 1 .. k : F[k][i] = list[i]}
<1>a. IsFiltered(F, list, S, T)
  BY OnlyIs
<1> HIDE DEF F
<1>1. /\ n \in Nat /\ F[0] = << >>
      /\ \A k \in 1 .. n : F[k] = IF list[k] \in S THEN Append(F[k - 1], list[k]) ELSE F[k - 1]
      /\ \A k \in 0 .. n : F[k] \in Seq(T)
  BY <1>a DEF IsFiltered
<1>2. \A k \in 1 .. n : list[k] \in S /\ list[k] \in T
  OBVIOUS
<1>3. Only(list, S) = F[n]
  BY DEF Only, F
<1> HIDE DEF F, n
<1>4. 0 \in N
  BY <1>1
<1>5. ASSUME NEW k \in Nat, k \in N PROVE k + 1 \in N
  <2>1. CASE k + 1 <= n
    <3>1. k + 1 \in 1 .. n /\ (k + 1) - 1 = k /\ k \in 0 .. n
      BY <1>1, <2>1
    <3>2. F[k + 1] = Append(F[k], list[k + 1])
      BY <1>1, <1>2, <3>1
    <3>3. F[k] \in Seq(T) /\ list[k + 1] \in T
      BY <1>1, <1>2, <3>1
    <3>4. Len(F[k]) = k /\ \A i \in 1 .. k : F[k][i] = list[i]
      BY <1>1, <1>5, <2>1
    <3>5. Len(F[k + 1]) = k + 1 /\ \A i \in 1 .. (k + 1) : F[k + 1][i] = list[i]
      <4> HIDE DEF N
      <4>1. QED  BY <3>2, <3>3, <3>4
    <3>6. QED  BY <3>5
  <2>2. QED  BY <1>1, <2>1
<1>6. n \in N
  <2> HIDE DEF N
  <2>1. QED  BY <1>1, <1>4, <1>5, Induction
<1>7. F[n] \in Seq(T) /\ Len(F[n]) = n /\ \A i \in 1 .. n : F[n][i] = list[i]
  BY <1>1, <1>6
<1>8. F[n] = list
  BY <1>7, SeqEqual DEF n
<1>9. QED
  BY <1>3, <1>8

\* A filter that leaves nothing of a list.
LEMMA OnlyNone ==
  ASSUME NEW T, NEW list \in Seq(T), NEW S, \A k \in 1 .. Len(list) : list[k] \notin S
  PROVE  Only(list, S) = << >>
<1> DEFINE F == OnlyUpto(list, S)
           n == Len(list)
           N == {k \in Nat : k <= n => F[k] = << >>}
<1>a. IsFiltered(F, list, S, T)
  BY OnlyIs
<1> HIDE DEF F
<1>1. /\ n \in Nat /\ F[0] = << >>
      /\ \A k \in 1 .. n : F[k] = IF list[k] \in S THEN Append(F[k - 1], list[k]) ELSE F[k - 1]
  BY <1>a DEF IsFiltered
<1>2. \A k \in 1 .. n : list[k] \notin S
  OBVIOUS
<1>3. Only(list, S) = F[n]
  BY DEF Only, F
<1> HIDE DEF F, n
<1>4. 0 \in N
  BY <1>1
<1>5. ASSUME NEW k \in Nat, k \in N PROVE k + 1 \in N
  <2>1. CASE k + 1 <= n
    <3>1. k + 1 \in 1 .. n /\ (k + 1) - 1 = k
      BY <1>1, <2>1
    <3>2. F[k + 1] = F[k]
      BY <1>1, <1>2, <3>1
    <3>3. QED  BY <1>1, <1>5, <2>1, <3>2
  <2>2. QED  BY <1>1, <2>1
<1>6. n \in N
  <2> HIDE DEF N
  <2>1. QED  BY <1>1, <1>4, <1>5, Induction
<1>7. QED
  BY <1>1, <1>3, <1>6

\* A list in two parts is filtered in two parts.
LEMMA OnlyConcat ==
  ASSUME NEW T, NEW a \in Seq(T), NEW b \in Seq(T), NEW S
  PROVE  Only(Joined(a, b), S) = Joined(Only(a, S), Only(b, S))
<1> DEFINE F == OnlyUpto(a \o b, S)
           G == OnlyUpto(b, S)
           m == Len(a)
           n == Len(b)
           left == Only(a, S)
           N == {k \in Nat : k <= n => F[m + k] = left \o G[k]}
<1>1. /\ m \in Nat /\ n \in Nat /\ a \o b \in Seq(T) /\ Len(a \o b) = m + n
      /\ \A k \in 1 .. m : (a \o b)[k] = a[k]
      /\ \A k \in 1 .. n : (a \o b)[m + k] = b[k] /\ b[k] \in T
  OBVIOUS
<1>a. IsFiltered(G, b, S, T)
  BY OnlyIs
<1>b. IsFiltered(F, a \o b, S, T)
  BY <1>1, OnlyIs
<1>2. /\ G[0] = << >> /\ \A k \in 0 .. n : G[k] \in Seq(T)
      /\ \A k \in 1 .. n : G[k] = IF b[k] \in S THEN Append(G[k - 1], b[k]) ELSE G[k - 1]
  <2> HIDE DEF G
  <2>1. QED  BY <1>a DEF IsFiltered
<1>3. left \in Seq(T)
  BY OnlyType
<1>4. \A k \in 1 .. (m + n) :
        F[k] = IF (a \o b)[k] \in S THEN Append(F[k - 1], (a \o b)[k]) ELSE F[k - 1]
  <2> HIDE DEF F, m, n
  <2>1. QED  BY <1>1, <1>b DEF IsFiltered
<1>5. F[m] = left
  <2>1. \A k \in 1 .. m : (a \o b)[k] = a[k] /\ ((a \o b)[k] \in S <=> a[k] \in S)
    BY <1>1
  <2>2. m <= Len(a \o b) /\ m <= Len(a)
    BY <1>1
  <2>3. OnlyUpto(a \o b, S)[m] = OnlyUpto(a, S)[m]
    <3> HIDE DEF m, n, F, G, left, N
    <3>1. PICK ab : ab = a \o b
      OBVIOUS
    <3>2. ab \in Seq(T) /\ m \in Nat /\ Agree(ab, S, a, S, m)
      BY <1>1, <2>1, <2>2, <3>1 DEF Agree
    <3>3. OnlyUpto(ab, S)[m] = OnlyUpto(a, S)[m]
      BY <3>2, OnlyAlike
    <3>4. QED  BY <3>1, <3>3
  <2>4. QED
    BY <2>3 DEF Only
<1> HIDE DEF F, G, left, m, n
<1>6. 0 \in N
  BY <1>1, <1>2, <1>3, <1>5
<1>7. ASSUME NEW k \in Nat, k \in N PROVE k + 1 \in N
  <2>1. CASE k + 1 <= n
    <3>1. k + 1 \in 1 .. n /\ (k + 1) - 1 = k /\ k \in 0 .. n
          /\ m + (k + 1) \in 1 .. (m + n) /\ (m + (k + 1)) - 1 = m + k
      BY <1>1, <2>1
    <3>2. (a \o b)[m + (k + 1)] = b[k + 1] /\ b[k + 1] \in T
      BY <1>1, <3>1
    <3>3. F[m + (k + 1)] = IF b[k + 1] \in S THEN Append(F[m + k], b[k + 1]) ELSE F[m + k]
      BY <1>4, <3>1, <3>2
    <3>4. G[k + 1] = IF b[k + 1] \in S THEN Append(G[k], b[k + 1]) ELSE G[k]
      BY <1>2, <3>1
    <3>5. F[m + k] = left \o G[k] /\ G[k] \in Seq(T)
      BY <1>2, <1>7, <2>1, <3>1
    <3>6. Append(left \o G[k], b[k + 1]) = left \o Append(G[k], b[k + 1])
      <4>1. PICK l, x : l = G[k] /\ x = b[k + 1]
        OBVIOUS
      <4>2. l \in Seq(T) /\ x \in T
        BY <3>2, <3>5, <4>1
      <4> HIDE DEF N
      <4> DEFINE outer == Append(left \o l, x)
                 inner == left \o Append(l, x)
      <4>3. /\ outer \in Seq(T) /\ inner \in Seq(T)
            /\ Len(outer) = Len(left) + Len(l) + 1 /\ Len(inner) = Len(outer)
        BY <1>3, <4>2
      <4>4. ASSUME NEW i \in 1 .. Len(outer) PROVE outer[i] = inner[i]
        <5> DEFINE p == Len(left)
                   q == Len(l)
        <5>1. p \in Nat /\ q \in Nat /\ Len(outer) = p + q + 1
          BY <1>3, <4>2, <4>3
        <5>2. CASE i <= p
          BY <1>3, <4>2, <5>1, <5>2
        <5>3. CASE p < i /\ i <= p + q
          BY <1>3, <4>2, <5>1, <5>3
        <5>4. CASE i = p + q + 1
          BY <1>3, <4>2, <5>1, <5>4
        <5>5. QED  BY <5>1, <5>2, <5>3, <5>4
      <4> HIDE DEF outer, inner
      <4>5. outer = inner
        BY <4>3, <4>4, SeqEqual
      <4>6. QED  BY <4>1, <4>5 DEF outer, inner
    <3>7. F[m + (k + 1)] = left \o G[k + 1]
      BY <3>3, <3>4, <3>5, <3>6
    <3>8. QED  BY <3>7
  <2>2. QED  BY <1>1, <2>1
<1>8. n \in N
  <2> HIDE DEF N
  <2>1. QED  BY <1>1, <1>6, <1>7, Induction
<1>9. F[m + n] = left \o G[n]
  BY <1>1, <1>8
<1>10. Only(a \o b, S) = F[m + n] /\ Only(b, S) = G[n]
  BY <1>1 DEF Only, F, G, n
<1>11. QED
  BY <1>9, <1>10 DEF left, Joined

\* A filter leaves each member that is in S.
LEMMA OnlyHas ==
  ASSUME NEW T, NEW list \in Seq(T), NEW S, NEW i \in 1 .. Len(list), list[i] \in S
  PROVE  \E j \in 1 .. Len(Only(list, S)) : Only(list, S)[j] = list[i]
<1> DEFINE F == OnlyUpto(list, S)
           n == Len(list)
           N == {k \in Nat : i <= k /\ k <= n => \E j \in 1 .. Len(F[k]) : F[k][j] = list[i]}
<1>a. IsFiltered(F, list, S, T)
  BY OnlyIs
<1> HIDE DEF F
<1>1. /\ n \in Nat /\ F[0] = << >>
      /\ \A k \in 1 .. n : F[k] = IF list[k] \in S THEN Append(F[k - 1], list[k]) ELSE F[k - 1]
      /\ \A k \in 0 .. n : F[k] \in Seq(T)
  BY <1>a DEF IsFiltered
<1>2. \A k \in 1 .. n : list[k] \in T
  OBVIOUS
<1>3. Only(list, S) = F[n] /\ i \in 1 .. n
  BY DEF Only, F
<1> HIDE DEF F, n
<1>4. 0 \in N
  BY <1>1, <1>3
<1>5. ASSUME NEW k \in Nat, k \in N PROVE k + 1 \in N
  <2>1. CASE i <= k + 1 /\ k + 1 <= n
    <3>1. k + 1 \in 1 .. n /\ (k + 1) - 1 = k /\ k \in 0 .. n
      BY <1>1, <2>1
    <3>2. F[k + 1] = IF list[k + 1] \in S THEN Append(F[k], list[k + 1]) ELSE F[k]
      BY <1>1, <3>1
    <3>3. F[k] \in Seq(T) /\ list[k + 1] \in T
      BY <1>1, <1>2, <3>1
    <3>4. CASE i = k + 1
      <4>1. F[k + 1] = Append(F[k], list[i])
        BY <3>2, <3>4
      <4>2. Len(F[k + 1]) \in 1 .. Len(F[k + 1]) /\ F[k + 1][Len(F[k + 1])] = list[i]
        BY <3>3, <4>1
      <4>3. QED  BY <4>2
    <3>5. CASE i <= k
      <4>1. PICK j \in 1 .. Len(F[k]) : F[k][j] = list[i]
        BY <1>1, <1>5, <2>1, <3>5
      <4>2. j \in 1 .. Len(F[k + 1]) /\ F[k + 1][j] = list[i]
        BY <3>2, <3>3, <4>1
      <4>3. QED  BY <4>2
    <3>6. QED  BY <1>3, <2>1, <3>4, <3>5
  <2>2. QED  BY <1>1, <2>1
<1>6. n \in N
  <2> HIDE DEF N
  <2>1. QED  BY <1>1, <1>4, <1>5, Induction
<1>7. QED
  BY <1>1, <1>3, <1>6

\* A filter of what a wider one leaves.
LEMMA OnlyOnly ==
  ASSUME NEW T, NEW list \in Seq(T), NEW S, NEW R, R \subseteq S
  PROVE  Only(Only(list, S), R) = Only(list, R)
<1> DEFINE F == OnlyUpto(list, S)
           G == OnlyUpto(list, R)
           n == Len(list)
           N == {k \in Nat : k <= n => Only(F[k], R) = G[k]}
<1>1. IsFiltered(F, list, S, T) /\ IsFiltered(G, list, R, T)
  BY OnlyIs
<1>2. Only(list, S) = F[n] /\ Only(list, R) = G[n]
  BY DEF Only
<1> HIDE DEF F, G
<1>3. /\ n \in Nat /\ F[0] = << >> /\ G[0] = << >>
      /\ \A k \in 1 .. n :
           /\ list[k] \in T
           /\ F[k] = IF list[k] \in S THEN Append(F[k - 1], list[k]) ELSE F[k - 1]
           /\ G[k] = IF list[k] \in R THEN Append(G[k - 1], list[k]) ELSE G[k - 1]
      /\ \A k \in 0 .. n : F[k] \in Seq(T)
  BY <1>1 DEF IsFiltered
<1> HIDE DEF n
<1>4. 0 \in N
  <2>1. Only(<< >>, R) = << >>
    <3>1. << >> \in Seq(T) /\ \A k \in 1 .. Len(<< >>) : << >>[k] \notin R
      OBVIOUS
    <3>2. QED  BY <3>1, OnlyNone
  <2>2. QED  BY <1>3, <2>1
<1>5. ASSUME NEW k \in Nat, k \in N PROVE k + 1 \in N
  <2>1. CASE k + 1 <= n
    <3>1. k + 1 \in 1 .. n /\ (k + 1) - 1 = k /\ k \in 0 .. n
      BY <1>3, <2>1
    <3>2. PICK l, x : l = F[k] /\ x = list[k + 1]
      OBVIOUS
    <3>3. l \in Seq(T) /\ x \in T /\ Only(l, R) = G[k]
      BY <1>3, <1>5, <2>1, <3>1, <3>2
    <3>4. /\ F[k + 1] = IF x \in S THEN Append(l, x) ELSE l
          /\ G[k + 1] = IF x \in R THEN Append(G[k], x) ELSE G[k]
      BY <1>3, <3>1, <3>2
    <3>5. Only(Append(l, x), R) = IF x \in R THEN Append(Only(l, R), x) ELSE Only(l, R)
      BY <3>3, OnlyAppend
    <3>6. Only(F[k + 1], R) = G[k + 1]
      BY <3>3, <3>4, <3>5
    <3>7. QED  BY <3>6
  <2>2. QED  BY <1>3, <2>1
<1>6. n \in N
  <2> HIDE DEF N
  <2>1. QED  BY <1>3, <1>4, <1>5, Induction
<1>7. QED
  BY <1>2, <1>3, <1>6

\* Of a list whose members differ, a filter leaves one whose members differ.
Differ(list) == \A i, j \in 1 .. Len(list) : list[i] = list[j] => i = j

\* A filter repeats nothing.
LEMMA OnlyOnce ==
  ASSUME NEW T, NEW list \in Seq(T), NEW S, Differ(list)
  PROVE  Differ(Only(list, S))
<1> DEFINE F == OnlyUpto(list, S)
           n == Len(list)
           From(l, k) == \A j \in 1 .. Len(l) : \E i \in 1 .. k : l[j] = list[i]
           N == {k \in Nat : k <= n => From(F[k], k) /\ Differ(F[k])}
<1>1. IsFiltered(F, list, S, T)
  BY OnlyIs
<1>2. Only(list, S) = F[n]
  BY DEF Only
<1> HIDE DEF F
<1>3. /\ n \in Nat /\ F[0] = << >>
      /\ \A k \in 1 .. n :
           list[k] \in T /\ F[k] = IF list[k] \in S THEN Append(F[k - 1], list[k]) ELSE F[k - 1]
      /\ \A k \in 0 .. n : F[k] \in Seq(T)
  BY <1>1 DEF IsFiltered
<1>4. \A i, j \in 1 .. n : list[i] = list[j] => i = j
  BY DEF Differ
<1> HIDE DEF n
<1>5. 0 \in N
  BY <1>3 DEF Differ
<1>6. ASSUME NEW k \in Nat, k \in N PROVE k + 1 \in N
  <2>1. CASE k + 1 <= n
    <3>1. k + 1 \in 1 .. n /\ (k + 1) - 1 = k /\ k \in 0 .. n
      BY <1>3, <2>1
    <3>2. PICK l, x, m : l = F[k] /\ x = list[k + 1] /\ m = Len(l)
      OBVIOUS
    <3>3. l \in Seq(T) /\ x \in T /\ From(l, k) /\ Differ(l) /\ m \in Nat
      BY <1>3, <1>6, <2>1, <3>1, <3>2
    <3>4. \A j \in 1 .. m : l[j] # x
      <4>1. SUFFICES ASSUME NEW j \in 1 .. m, l[j] = x PROVE FALSE
        OBVIOUS
      <4>2. PICK i \in 1 .. k : l[j] = list[i]
        BY <3>2, <3>3
      <4>3. i \in 1 .. n /\ i # k + 1 /\ list[i] = list[k + 1]
        BY <1>3, <3>1, <3>2, <4>1, <4>2
      <4>4. QED  BY <1>4, <3>1, <4>3
    <3>5. CASE x \in S
      <4> DEFINE more == Append(l, x)
      <4>1. Len(more) = m + 1 /\ more[m + 1] = x /\ \A j \in 1 .. m : more[j] = l[j]
        BY <3>2, <3>3
      <4>2. F[k + 1] = more
        BY <1>3, <3>1, <3>2, <3>5
      <4> HIDE DEF more
      <4>3. Differ(more)
        BY <3>2, <3>3, <3>4, <4>1 DEF Differ
      <4>4. From(more, k + 1)
        <5>1. SUFFICES ASSUME NEW j \in 1 .. (m + 1) PROVE \E i \in 1 .. (k + 1) : more[j] = list[i]
          BY <4>1
        <5>2. CASE j = m + 1
          <6>1. more[j] = list[k + 1] /\ k + 1 \in 1 .. (k + 1)
            BY <3>2, <4>1, <5>2
          <6>2. QED  BY <6>1
        <5>3. CASE j \in 1 .. m
          <6>1. PICK i \in 1 .. k : l[j] = list[i]
            BY <3>2, <3>3, <5>3
          <6>2. more[j] = list[i] /\ i \in 1 .. (k + 1)
            BY <4>1, <5>3, <6>1
          <6>3. QED  BY <6>2
        <5>4. QED  BY <3>3, <5>2, <5>3
      <4>5. QED  BY <4>2, <4>3, <4>4
    <3>6. CASE x \notin S
      <4>1. F[k + 1] = l
        BY <1>3, <3>1, <3>2, <3>6
      <4>2. From(l, k + 1)
        BY <3>3
      <4>3. QED  BY <3>3, <4>1, <4>2
    <3>7. QED  BY <3>5, <3>6
  <2>2. QED  BY <1>3, <2>1
<1>7. n \in N
  <2> HIDE DEF N
  <2>1. QED  BY <1>3, <1>5, <1>6, Induction
<1>8. QED
  BY <1>2, <1>3, <1>7

\* A list is filtered head and tail.
LEMMA HeadFirst ==
  ASSUME NEW T, NEW l \in Seq(T), l # << >>, NEW R
  PROVE  Only(l, R) = Joined(Only(<< Head(l) >>, R), Only(Tail(l), R))
<1>1. PICK o : o = << Head(l) >>
  OBVIOUS
<1>2. PICK t : t = Tail(l)
  OBVIOUS
<1>3. /\ o \in Seq(T) /\ t \in Seq(T) /\ Len(o) = 1 /\ o[1] = l[1]
      /\ Len(l) \in Nat /\ Len(t) = Len(l) - 1 /\ \A i \in 1 .. Len(t) : t[i] = l[i + 1]
  BY <1>1, <1>2
<1>4. Joined(o, t) = l
  BY <1>3, JoinedOne DEF Parted
<1>5. Only(Joined(o, t), R) = Joined(Only(o, R), Only(t, R))
  <2> HIDE <1>1, <1>2
  <2>1. QED  BY <1>3, OnlyConcat
<1>6. QED
  BY <1>1, <1>2, <1>4, <1>5

=============================================================================
