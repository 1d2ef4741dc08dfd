---------------------------- MODULE GatesProofs -----------------------------
(* Proofs about MerkleTree and Gates: for lists of chunks of every length, of *)
(* any bytes.                                                                 *)
EXTENDS Gates, Inductions, SequenceTheorems

-----------------------------------------------------------------------------
(* Digests *)

\* A pair is told from a leaf, and from another pair by either of its halves.
LEMMA HashesDiffer ==
  /\ \A bytes, l, r : hash_leaf(bytes) # hash_pair(l, r)
  /\ \A l, r, x, y : hash_pair(l, r) = hash_pair(x, y) => l = x /\ r = y
  /\ \A a, b : hash_leaf(a) = hash_leaf(b) => Atom(a) = Atom(b)
<1>1. \A bytes, l, r : hash_leaf(bytes) # hash_pair(l, r)
  <2>1. ASSUME NEW bytes, NEW l, NEW r
        PROVE  DOMAIN hash_leaf(bytes) = {"leaf"} /\ DOMAIN hash_pair(l, r) = {"left", "right"}
    BY DEF hash_leaf, hash_pair
  <2>2. "left" \notin {"leaf"} /\ "left" \in {"left", "right"}
    OBVIOUS
  <2>3. QED
    BY <2>1, <2>2, Zenon
<1>2. ASSUME NEW l, NEW r, NEW x, NEW y, hash_pair(l, r) = hash_pair(x, y)
      PROVE  l = x /\ r = y
  <2>1. /\ hash_pair(l, r).left = l /\ hash_pair(l, r).right = r
        /\ hash_pair(x, y).left = x /\ hash_pair(x, y).right = y
    BY DEF hash_pair
  <2>2. QED
    BY <1>2, <2>1
<1>3. ASSUME NEW a, NEW b, hash_leaf(a) = hash_leaf(b)
      PROVE  Atom(a) = Atom(b)
  <2>1. hash_leaf(a).leaf = Atom(a) /\ hash_leaf(b).leaf = Atom(b)
    BY DEF hash_leaf
  <2>2. QED
    BY <1>3, <2>1
<1>4. QED
  BY <1>1, <1>2, <1>3, Zenon

\* What a hash yields is in the field, and an atom of a digest in the field is that digest.
LEMMA HashesInField ==
  /\ \A bytes : InField(hash_leaf(bytes))
  /\ \A l, r : InField(hash_pair(l, r))
  /\ \A digest : InField(digest) => tip5_to_atom(digest) = digest
<1>1. ASSUME NEW bytes PROVE InField(hash_leaf(bytes))
  <2>1. DOMAIN hash_leaf(bytes) = {"leaf"}
    BY DEF hash_leaf
  <2>2. QED  BY <2>1 DEF InField
<1>2. ASSUME NEW l, NEW r PROVE InField(hash_pair(l, r))
  <2>1. DOMAIN hash_pair(l, r) = {"left", "right"}
    BY DEF hash_pair
  <2>2. QED  BY <2>1 DEF InField
<1>3. ASSUME NEW digest, InField(digest) PROVE tip5_to_atom(digest) = digest
  BY <1>3 DEF InField, tip5_to_atom
<1>4. QED
  BY <1>1, <1>2, <1>3, Zenon

-----------------------------------------------------------------------------
(* Levels *)

\* A list of m entries.
IsRow(s, m) == m \in Nat /\ s = [i \in 1..m |-> s[i]]

\* Its length is m.
LEMMA RowLength ==
  ASSUME NEW s, NEW m, IsRow(s, m)
  PROVE  m \in Nat /\ Len(s) = m /\ DOMAIN s = 1..m /\ s \in Seq({s[i] : i \in 1..m})
<1>1. m \in Nat /\ s = [i \in 1..m |-> s[i]]
  BY DEF IsRow
<1>2. s \in [1..m -> {s[i] : i \in 1..m}]
  BY <1>1
<1>3. s \in Seq({s[i] : i \in 1..m}) /\ DOMAIN s = 1..m
  BY <1>1, <1>2
<1>4. QED
  BY <1>1, <1>3

\* A level pairs the nodes of the one below, and a last one without another with itself.
IsAbove(above, below, m) ==
  /\ IsRow(above, (m + 1) \div 2)
  /\ \A i \in 1..((m + 1) \div 2) :
       above[i] = hash_pair(below[2 * i - 1], below[IF 2 * i <= m THEN 2 * i ELSE m])

\* So does Paired.
LEMMA PairedAbove ==
  ASSUME NEW s, NEW m, IsRow(s, m), m >= 1
  PROVE  IsAbove(Paired(s), s, m)
<1>1. m \in Nat /\ Len(s) = m /\ DOMAIN s = 1..m /\ s \in Seq({s[i] : i \in 1..m})
  BY RowLength
<1> DEFINE even == IF m % 2 = 0 THEN s ELSE Append(s, s[m])
           half == (m + 1) \div 2
<1>2. Paired(s) = [i \in 1 .. Len(even) \div 2 |-> hash_pair(even[2 * i - 1], even[2 * i])]
  BY <1>1 DEF Paired, Last
<1>3. Len(even) \div 2 = half /\ half \in Nat
  <2>1. Len(even) = IF m % 2 = 0 THEN m ELSE m + 1
    BY <1>1
  <2> HIDE DEF even
  <2>2. QED
    BY <1>1, <2>1
<1>4. ASSUME NEW i \in 1..half
      PROVE  /\ even[2 * i - 1] = s[2 * i - 1]
             /\ even[2 * i] = s[IF 2 * i <= m THEN 2 * i ELSE m]
  BY <1>1
<1> HIDE DEF even, half
<1>5. Paired(s) = [i \in 1..half |-> hash_pair(s[2 * i - 1], s[IF 2 * i <= m THEN 2 * i ELSE m])]
  BY <1>2, <1>3, <1>4
<1>6. IsRow(Paired(s), half)
  BY <1>3, <1>5 DEF IsRow
<1>7. \A i \in 1..half :
        Paired(s)[i] = hash_pair(s[2 * i - 1], s[IF 2 * i <= m THEN 2 * i ELSE m])
  BY <1>5
<1>8. QED
  BY <1>6, <1>7 DEF IsAbove, half

\* The function that LevelsOf chooses is the recursive one, so long as one exists.
IsLevels(level, leaves, n) ==
  level = [k \in 0..n |->
             IF k = 0 THEN [i \in DOMAIN leaves |-> hash_leaf(leaves[i])] ELSE Paired(level[k - 1])]

LEMMA LevelsExist ==
  ASSUME NEW leaves, NEW n \in Nat
  PROVE  \E level : IsLevels(level, leaves, n)
<1> DEFINE Level(F, k) ==
             IF k = 0 THEN [i \in DOMAIN leaves |-> hash_leaf(leaves[i])] ELSE Paired(F[k - 1])
           N == {m \in Nat : \E F : F = [k \in 0..m |-> Level(F, k)]}
<1>1. 0 \in N
  <2> DEFINE F == [k \in 0..0 |-> [i \in DOMAIN leaves |-> hash_leaf(leaves[i])]]
  <2>1. F = [k \in 0..0 |-> Level(F, k)]
    OBVIOUS
  <2> HIDE DEF Level, F
  <2>2. QED
    BY <2>1
<1>2. ASSUME NEW m \in Nat, m \in N
      PROVE  m + 1 \in N
  <2>1. PICK F : F = [k \in 0..m |-> Level(F, k)]
    BY <1>2
  <2> DEFINE G == [k \in 0..(m + 1) |-> IF k = m + 1 THEN Level(F, k) ELSE F[k]]
  <2>2. ASSUME NEW k \in 0..(m + 1) PROVE G[k] = Level(G, k)
    <3>1. k # 0 => k - 1 \in 0..m /\ k - 1 # m + 1 /\ G[k - 1] = F[k - 1]
      OBVIOUS
    <3>2. Level(G, k) = Level(F, k)
      BY <3>1
    <3>3. k # m + 1 => k \in 0..m /\ F[k] = Level(F, k)
      <4> HIDE DEF Level
      <4>1. QED  BY <2>1
    <3> HIDE DEF Level
    <3>4. QED  BY <3>2, <3>3
  <2> HIDE DEF Level
  <2>3. G = [k \in 0..(m + 1) |-> Level(G, k)]
    <3>1. G = [k \in 0..(m + 1) |-> G[k]]
      OBVIOUS
    <3> HIDE DEF G
    <3>2. QED  BY <2>2, <3>1
  <2> HIDE DEF G
  <2>4. QED
    BY <2>3
<1>3. n \in N
  <2> HIDE DEF N
  <2>1. QED  BY <1>1, <1>2, Induction
<1>4. QED
  BY <1>3 DEF IsLevels

LEMMA LevelsAre ==
  ASSUME NEW leaves, Len(leaves) \in Nat
  PROVE  IsLevels(LevelsOf(leaves), leaves, Len(leaves))
<1> DEFINE Levels ==
      CHOOSE level :
        level = [k \in 0 .. Len(leaves) |->
                   IF k = 0 THEN [i \in DOMAIN leaves |-> hash_leaf(leaves[i])]
                   ELSE Paired(level[k - 1])]
<1>1. LevelsOf(leaves) = Levels
  BY DEF LevelsOf
<1>2. PICK level : IsLevels(level, leaves, Len(leaves))
  BY LevelsExist
<1>3. IsLevels(Levels, leaves, Len(leaves))
  BY <1>2, Zenon DEF IsLevels
<1> HIDE DEF Levels
<1>4. QED
  BY <1>1, <1>3

-----------------------------------------------------------------------------
(* Trees *)

\* What a tree over a list is: the hashes of the leaves, above each level of more than one
\* node the pairs of its nodes, and one root.
IsTree(tree, leaves) ==
  /\ Len(tree) \in Nat /\ Len(tree) >= 1
  /\ Len(leaves) >= 1 /\ IsRow(tree[1], Len(leaves))
  /\ \A i \in 1..Len(leaves) : tree[1][i] = hash_leaf(leaves[i])
  /\ \A k \in 1..(Len(tree) - 1) :
       Len(tree[k]) >= 2 /\ IsAbove(tree[k + 1], tree[k], Len(tree[k]))
  /\ Len(tree[Len(tree)]) = 1

\* A level of a list of n leaves is its root, or has lost a node for each level below.
Shrinks(level, k, n) == \E m \in Nat : IsRow(level, m) /\ m >= 1 /\ (m = 1 \/ m + k <= n)

LEMMA LevelsShrink ==
  ASSUME NEW leaves, NEW n \in Nat, n >= 1, n = Len(leaves), DOMAIN leaves = 1..n,
         NEW level, IsLevels(level, leaves, n)
  PROVE  \A k \in 0..n : Shrinks(level[k], k, n)
<1>1. level[0] = [i \in 1..n |-> hash_leaf(leaves[i])]
  BY DEF IsLevels
<1>2. ASSUME NEW k \in 1..n PROVE level[k] = Paired(level[k - 1])
  <2>1. k \in 0..n /\ k # 0
    OBVIOUS
  <2>2. QED  BY <2>1, Zenon DEF IsLevels
<1> DEFINE N == {k \in Nat : k <= n => Shrinks(level[k], k, n)}
<1>3. 0 \in N
  <2>1. IsRow(level[0], n)
    BY <1>1 DEF IsRow
  <2>2. QED
    BY <2>1 DEF Shrinks
<1>4. ASSUME NEW k \in Nat, k \in N
      PROVE  k + 1 \in N
  <2> SUFFICES ASSUME k + 1 <= n
               PROVE  Shrinks(level[k + 1], k + 1, n)
    OBVIOUS
  <2>1. PICK m \in Nat : IsRow(level[k], m) /\ m >= 1 /\ (m = 1 \/ m + k <= n)
    BY <1>4 DEF Shrinks
  <2>2. IsAbove(level[k + 1], level[k], m)
    <3>1. level[k + 1] = Paired(level[k])
      BY <1>2
    <3>2. QED
      BY <2>1, <3>1, PairedAbove
  <2> DEFINE half == (m + 1) \div 2
  <2>3. half \in Nat /\ half >= 1 /\ (half = 1 \/ half + (k + 1) <= n)
    BY <2>1
  <2>4. IsRow(level[k + 1], half)
    BY <2>2 DEF IsAbove
  <2> HIDE DEF half
  <2>5. QED
    BY <2>3, <2>4 DEF Shrinks
<1> HIDE DEF N
<1>5. Nat \subseteq N
  BY <1>3, <1>4, Induction
<1>6. QED
  BY <1>5 DEF N

\* build makes a tree.
LEMMA BuildIsTree ==
  ASSUME NEW leaves \in Seq(Bytes), leaves # << >>
  PROVE  IsTree(build(leaves), leaves)
<1> DEFINE n == Len(leaves)
           level == LevelsOf(leaves)
           Tops == {k \in 0..n : Len(level[k]) = 1}
           top == Min(Tops)
           tree == [k \in 1..(top + 1) |-> level[k - 1]]
<1>1. n \in Nat /\ n >= 1 /\ DOMAIN leaves = 1..n
  OBVIOUS
<1>2. IsLevels(level, leaves, n)
  BY <1>1, LevelsAre
<1>3. build(leaves) = tree
  BY DEF build
<1> HIDE DEF level, n
<1>4. \A k \in 0..n : Shrinks(level[k], k, n)
  <2>1. n = Len(leaves)
    BY DEF n
  <2>2. QED  BY <1>1, <1>2, <2>1, LevelsShrink
<1>5. ASSUME NEW k \in 0..n
      PROVE  Len(level[k]) \in Nat /\ Len(level[k]) >= 1 /\ IsRow(level[k], Len(level[k]))
  <2>1. PICK m \in Nat : IsRow(level[k], m) /\ m >= 1
    BY <1>4 DEF Shrinks
  <2>2. Len(level[k]) = m
    BY <2>1, RowLength
  <2>3. QED  BY <2>1, <2>2
<1>6. n \in Tops
  <2>1. PICK m \in Nat : IsRow(level[n], m) /\ m >= 1 /\ (m = 1 \/ m + n <= n)
    BY <1>1, <1>4 DEF Shrinks
  <2> HIDE DEF Tops, top, tree
  <2>2. m = 1
    BY <1>1, <2>1
  <2>3. Len(level[n]) = m
    BY <2>1, RowLength
  <2>4. QED  BY <1>1, <2>2, <2>3 DEF Tops
<1>7. top \in Tops /\ \A k \in Tops : top <= k
  <2>1. Tops \subseteq Nat
    BY <1>1
  <2> HIDE DEF Tops
  <2>2. PICK x \in Tops : \A y \in Tops : x <= y
    BY <1>6, <2>1, Least
  <2>3. QED
    BY <2>2, Zenon DEF Min
<1> HIDE DEF top
<1>8. top \in 0..n /\ Len(level[top]) = 1
  BY <1>7
<1>a. ASSUME NEW k \in 0..n, k < top
      PROVE  Len(level[k]) >= 2
  <2>1. k \notin Tops
    <3> HIDE DEF Tops
    <3>1. k \in Nat /\ top \in Nat
      BY <1>1, <1>8
    <3>2. QED  BY <1>7, <1>a, <3>1
  <2>2. Len(level[k]) # 1
    BY <2>1
  <2>3. Len(level[k]) \in Nat /\ Len(level[k]) >= 1
    BY <1>5
  <2>4. PICK x : x = Len(level[k])
    OBVIOUS
  <2>5. x \in Nat /\ x >= 1 /\ x # 1
    BY <2>2, <2>3, <2>4
  <2>6. x >= 2
    BY <2>5
  <2>7. QED
    BY <2>4, <2>6
<1>9. Len(tree) = top + 1 /\ IsRow(tree, top + 1)
  <2>1. IsRow(tree, top + 1)
    BY <1>8 DEF IsRow
  <2> HIDE DEF tree
  <2>2. QED
    BY <2>1, RowLength
<1>10. /\ IsRow(tree[1], Len(leaves)) /\ Len(leaves) >= 1
       /\ \A i \in 1..Len(leaves) : tree[1][i] = hash_leaf(leaves[i])
  <2>1. tree[1] = level[0]
    BY <1>8
  <2>2. level[0] = [i \in 1..n |-> hash_leaf(leaves[i])]
    BY <1>1, <1>2 DEF IsLevels
  <2> HIDE DEF tree
  <2>3. QED
    BY <1>1, <2>1, <2>2 DEF IsRow, n
<1>11. ASSUME NEW k \in 1..(Len(tree) - 1)
       PROVE  Len(tree[k]) >= 2 /\ IsAbove(tree[k + 1], tree[k], Len(tree[k]))
  <2>1. /\ k \in 1..n /\ k - 1 \in 0..n /\ k - 1 < top
        /\ tree[k] = level[k - 1] /\ tree[k + 1] = level[k]
    <3>1. k \in 1..top
      <4> HIDE DEF tree
      <4>1. QED  BY <1>8, <1>9
    <3>2. /\ k \in 1..n /\ k - 1 \in 0..n /\ k - 1 < top
          /\ k \in 1..(top + 1) /\ k + 1 \in 1..(top + 1)
      BY <1>1, <1>8, <3>1
    <3>3. (k + 1) - 1 = k
      OBVIOUS
    <3>4. QED
      BY <3>2, <3>3
  <2>2. level[k] = Paired(level[k - 1])
    <3>1. k \in 0..n /\ k # 0
      BY <2>1
    <3>2. QED  BY <3>1, <1>2, Zenon DEF IsLevels
  <2> HIDE DEF tree
  <2>3. QED
    BY <1>5, <1>a, <2>1, <2>2, PairedAbove
<1>12. Len(tree[Len(tree)]) = 1
  <2>1. tree[top + 1] = level[top]
    BY <1>8
  <2> HIDE DEF tree
  <2>2. QED
    BY <1>8, <1>9, <2>1
<1> HIDE DEF tree, Tops
<1>13. QED
  BY <1>3, <1>8, <1>9, <1>10, <1>11, <1>12 DEF IsTree

-----------------------------------------------------------------------------
(* Paths *)

\* The hashes from a leaf up a path of n nodes.
IsClimb(F, leaf, path, n) ==
  F = [k \in 0..n |-> IF k = 0 THEN leaf ELSE IF path[k].side THEN hash_pair(path[k].hash, F[k - 1]) ELSE hash_pair(F[k - 1], path[k].hash)]

LEMMA ClimbExists ==
  ASSUME NEW leaf, NEW path, NEW n \in Nat
  PROVE  \E F : IsClimb(F, leaf, path, n)
<1> DEFINE Step(F, k) == IF k = 0 THEN leaf ELSE IF path[k].side THEN hash_pair(path[k].hash, F[k - 1]) ELSE hash_pair(F[k - 1], path[k].hash)
           N == {m \in Nat : \E F : F = [k \in 0..m |-> Step(F, k)]}
<1>1. 0 \in N
  <2> DEFINE F == [k \in 0..0 |-> leaf]
  <2>1. F = [k \in 0..0 |-> Step(F, k)]
    OBVIOUS
  <2> HIDE DEF Step, F
  <2>2. QED
    BY <2>1
<1>2. ASSUME NEW m \in Nat, m \in N
      PROVE  m + 1 \in N
  <2>1. PICK F : F = [k \in 0..m |-> Step(F, k)]
    BY <1>2
  <2> DEFINE G == [k \in 0..(m + 1) |-> IF k = m + 1 THEN Step(F, k) ELSE F[k]]
  <2>2. ASSUME NEW k \in 0..(m + 1) PROVE G[k] = Step(G, k)
    <3>1. k # 0 => k - 1 \in 0..m /\ k - 1 # m + 1 /\ G[k - 1] = F[k - 1]
      OBVIOUS
    <3>2. Step(G, k) = Step(F, k)
      <4> HIDE DEF G
      <4>1. QED  BY <3>1
    <3>3. k # m + 1 => k \in 0..m /\ F[k] = Step(F, k)
      <4> HIDE DEF Step
      <4>1. QED  BY <2>1
    <3> HIDE DEF Step
    <3>4. QED  BY <3>2, <3>3
  <2> HIDE DEF Step
  <2>3. G = [k \in 0..(m + 1) |-> Step(G, k)]
    <3>1. G = [k \in 0..(m + 1) |-> G[k]]
      OBVIOUS
    <3> HIDE DEF G
    <3>2. QED  BY <2>2, <3>1
  <2> HIDE DEF G
  <2>4. QED
    BY <2>3
<1>3. n \in N
  <2> HIDE DEF N
  <2>1. QED  BY <1>1, <1>2, Induction
<1>4. QED
  BY <1>3 DEF IsClimb

LEMMA HashesUpAre ==
  ASSUME NEW leaf, NEW path, Len(path) \in Nat
  PROVE  IsClimb(HashesUp(leaf, path), leaf, path, Len(path))
<1> DEFINE Chosen0 ==
      CHOOSE cur :
        cur = [k \in 0 .. Len(path) |-> IF k = 0 THEN leaf ELSE IF path[k].side THEN hash_pair(path[k].hash, cur[k - 1]) ELSE hash_pair(cur[k - 1], path[k].hash)]
<1>1. HashesUp(leaf, path) = Chosen0
  BY DEF HashesUp
<1>2. PICK F : IsClimb(F, leaf, path, Len(path))
  BY ClimbExists
<1>3. IsClimb(Chosen0, leaf, path, Len(path))
  BY <1>2, Zenon DEF IsClimb
<1> HIDE DEF Chosen0
<1>4. QED
  BY <1>1, <1>3

\* Where a path leads from the root down, in n steps.
IsWayDown(F, tree, path, n) ==
  F = [k \in 0..n |-> IF k = 0 THEN 0 ELSE LET q == Len(path) + 1 - k  below == 2 * F[k - 1] + (IF path[q].side THEN 1 ELSE 0) IN IF below < Len(tree[q]) THEN below ELSE below - 1]

LEMMA WayDownExists ==
  ASSUME NEW tree, NEW path, NEW n \in Nat
  PROVE  \E F : IsWayDown(F, tree, path, n)
<1> DEFINE Step(F, k) == IF k = 0 THEN 0 ELSE LET q == Len(path) + 1 - k  below == 2 * F[k - 1] + (IF path[q].side THEN 1 ELSE 0) IN IF below < Len(tree[q]) THEN below ELSE below - 1
           N == {m \in Nat : \E F : F = [k \in 0..m |-> Step(F, k)]}
<1>1. 0 \in N
  <2> DEFINE F == [k \in 0..0 |-> 0]
  <2>1. F = [k \in 0..0 |-> Step(F, k)]
    OBVIOUS
  <2> HIDE DEF Step, F
  <2>2. QED
    BY <2>1
<1>2. ASSUME NEW m \in Nat, m \in N
      PROVE  m + 1 \in N
  <2>1. PICK F : F = [k \in 0..m |-> Step(F, k)]
    BY <1>2
  <2> DEFINE G == [k \in 0..(m + 1) |-> IF k = m + 1 THEN Step(F, k) ELSE F[k]]
  <2>2. ASSUME NEW k \in 0..(m + 1) PROVE G[k] = Step(G, k)
    <3>1. k # 0 => k - 1 \in 0..m /\ k - 1 # m + 1 /\ G[k - 1] = F[k - 1]
      OBVIOUS
    <3>2. Step(G, k) = Step(F, k)
      <4> HIDE DEF G
      <4>1. QED  BY <3>1
    <3>3. k # m + 1 => k \in 0..m /\ F[k] = Step(F, k)
      <4> HIDE DEF Step
      <4>1. QED  BY <2>1
    <3> HIDE DEF Step
    <3>4. QED  BY <3>2, <3>3
  <2> HIDE DEF Step
  <2>3. G = [k \in 0..(m + 1) |-> Step(G, k)]
    <3>1. G = [k \in 0..(m + 1) |-> G[k]]
      OBVIOUS
    <3> HIDE DEF G
    <3>2. QED  BY <2>2, <3>1
  <2> HIDE DEF G
  <2>4. QED
    BY <2>3
<1>3. n \in N
  <2> HIDE DEF N
  <2>1. QED  BY <1>1, <1>2, Induction
<1>4. QED
  BY <1>3 DEF IsWayDown

LEMMA WayDownIs ==
  ASSUME NEW tree, NEW path, Len(path) \in Nat
  PROVE  IsWayDown(WayDown(tree, path), tree, path, Len(path))
<1> DEFINE Chosen0 ==
      CHOOSE down :
        down = [k \in 0 .. Len(path) |-> IF k = 0 THEN 0 ELSE LET q == Len(path) + 1 - k  below == 2 * down[k - 1] + (IF path[q].side THEN 1 ELSE 0) IN IF below < Len(tree[q]) THEN below ELSE below - 1]
<1>1. WayDown(tree, path) = Chosen0
  BY DEF WayDown
<1>2. PICK F : IsWayDown(F, tree, path, Len(path))
  BY WayDownExists
<1>3. IsWayDown(Chosen0, tree, path, Len(path))
  BY <1>2, Zenon DEF IsWayDown
<1> HIDE DEF Chosen0
<1>4. QED
  BY <1>1, <1>3

\* Where the way from a leaf up meets the first levels, n after the leaves'.
IsWayUp(F, tree, index, n) ==
  F = [k \in 1..n |-> IF k = 1 THEN index ELSE F[k - 1] \div 2]

LEMMA WayUpExists ==
  ASSUME NEW tree, NEW index, NEW n \in Nat
  PROVE  \E F : IsWayUp(F, tree, index, n)
<1> DEFINE Step(F, k) == IF k = 1 THEN index ELSE F[k - 1] \div 2
           N == {m \in Nat : \E F : F = [k \in 1..m |-> Step(F, k)]}
<1>1. 0 \in N
  <2> DEFINE F == [k \in 1..0 |-> index]
  <2>1. F = [k \in 1..0 |-> Step(F, k)]
    OBVIOUS
  <2> HIDE DEF Step, F
  <2>2. QED
    BY <2>1
<1>2. ASSUME NEW m \in Nat, m \in N
      PROVE  m + 1 \in N
  <2>1. PICK F : F = [k \in 1..m |-> Step(F, k)]
    BY <1>2
  <2> DEFINE G == [k \in 1..(m + 1) |-> IF k = m + 1 THEN Step(F, k) ELSE F[k]]
  <2>2. ASSUME NEW k \in 1..(m + 1) PROVE G[k] = Step(G, k)
    <3>1. k # 1 => k - 1 \in 1..m /\ k - 1 # m + 1 /\ G[k - 1] = F[k - 1]
      OBVIOUS
    <3>2. Step(G, k) = Step(F, k)
      <4> HIDE DEF G
      <4>1. QED  BY <3>1
    <3>3. k # m + 1 => k \in 1..m /\ F[k] = Step(F, k)
      <4> HIDE DEF Step
      <4>1. QED  BY <2>1
    <3> HIDE DEF Step
    <3>4. QED  BY <3>2, <3>3
  <2> HIDE DEF Step
  <2>3. G = [k \in 1..(m + 1) |-> Step(G, k)]
    <3>1. G = [k \in 1..(m + 1) |-> G[k]]
      OBVIOUS
    <3> HIDE DEF G
    <3>2. QED  BY <2>2, <3>1
  <2> HIDE DEF G
  <2>4. QED
    BY <2>3
<1>3. n \in N
  <2> HIDE DEF N
  <2>1. QED  BY <1>1, <1>2, Induction
<1>4. QED
  BY <1>3 DEF IsWayUp

LEMMA WayUpIs ==
  ASSUME NEW tree, NEW index, Len(tree) \in Nat
  PROVE  IsWayUp(WayUp(tree, index), tree, index, Len(tree))
<1> DEFINE Chosen0 ==
      CHOOSE idx :
        idx = [k \in 1 .. Len(tree) |-> IF k = 1 THEN index ELSE idx[k - 1] \div 2]
<1>1. WayUp(tree, index) = Chosen0
  BY DEF WayUp
<1>2. PICK F : IsWayUp(F, tree, index, Len(tree))
  BY WayUpExists
<1>3. IsWayUp(Chosen0, tree, index, Len(tree))
  BY <1>2, Zenon DEF IsWayUp
<1> HIDE DEF Chosen0
<1>4. QED
  BY <1>1, <1>3

-----------------------------------------------------------------------------
(* What is proved is accepted *)

\* The levels of a tree are lists of digests in the field.
LEMMA TreeRows ==
  ASSUME NEW tree, NEW leaves, IsTree(tree, leaves), NEW k \in 1..Len(tree)
  PROVE  /\ Len(tree[k]) \in Nat /\ Len(tree[k]) >= 1 /\ IsRow(tree[k], Len(tree[k]))
         /\ \A x \in 1..Len(tree[k]) : InField(tree[k][x])
<1>1. Len(tree) \in Nat
  BY DEF IsTree
<1>2. CASE k = 1
  <2>1. /\ IsRow(tree[1], Len(leaves)) /\ Len(leaves) >= 1
        /\ \A i \in 1..Len(leaves) : tree[1][i] = hash_leaf(leaves[i])
    BY DEF IsTree
  <2>2. Len(tree[1]) = Len(leaves) /\ Len(leaves) \in Nat
    BY <2>1, RowLength
  <2>3. QED
    BY <1>2, <2>1, <2>2, HashesInField
<1>3. CASE k # 1
  <2>1. k - 1 \in 1..(Len(tree) - 1) /\ (k - 1) + 1 = k
    BY <1>1, <1>3
  <2>2. Len(tree[k - 1]) >= 1 /\ IsAbove(tree[k], tree[k - 1], Len(tree[k - 1]))
    BY <2>1 DEF IsTree
  <2> DEFINE m == Len(tree[k - 1])  half == (m + 1) \div 2
  <2>3. IsRow(tree[k], half)
    BY <2>2 DEF IsAbove
  <2>4. Len(tree[k]) = half /\ half \in Nat
    BY <2>3, RowLength
  <2>5. ASSUME NEW x \in 1..half PROVE InField(tree[k][x])
    <3>1. PICK l, r : tree[k][x] = hash_pair(l, r)
      BY <2>2, <2>5 DEF IsAbove
    <3>2. QED  BY <3>1, HashesInField
  <2>6. m \in Nat
    <3>1. CASE k - 1 = 1
      <4>1. IsRow(tree[1], Len(leaves))  BY DEF IsTree
      <4>2. QED  BY <3>1, <4>1, RowLength
    <3>2. CASE k - 1 # 1
      <4>1. k - 2 \in 1..(Len(tree) - 1) /\ (k - 2) + 1 = k - 1
        BY <1>1, <2>1, <3>2
      <4>2. IsAbove(tree[k - 1], tree[k - 2], Len(tree[k - 2]))
        BY <4>1 DEF IsTree
      <4>3. IsRow(tree[k - 1], (Len(tree[k - 2]) + 1) \div 2)
        BY <4>2 DEF IsAbove
      <4>4. QED  BY <4>3, RowLength
    <3>3. QED  BY <3>1, <3>2
  <2>7. half >= 1
    <3>1. m >= 1
      BY <2>2
    <3> HIDE DEF m
    <3>2. QED  BY <2>6, <3>1
  <2> HIDE DEF half
  <2>8. QED
    BY <2>3, <2>4, <2>5, <2>7
<1>4. QED
  BY <1>2, <1>3

\* Above a node is the pair of it and its sibling.
LEMMA ParentOf ==
  ASSUME NEW above, NEW below, Len(below) \in Nat, Len(below) >= 1,
         IsAbove(above, below, Len(below)), NEW i \in 0..(Len(below) - 1)
  PROVE  /\ i \div 2 \in 0..(Len(above) - 1)
         /\ Even(i) => above[i \div 2 + 1] = hash_pair(below[i + 1], Sibling(below, i))
         /\ ~Even(i) => above[i \div 2 + 1] = hash_pair(Sibling(below, i), below[i + 1])
<1> DEFINE m == Len(below)  half == (m + 1) \div 2  q == i \div 2
<1>1. IsRow(above, half)
  BY DEF IsAbove
<1>2. Len(above) = half /\ half \in Nat
  BY <1>1, RowLength
<1>3. m \in Nat /\ m >= 1 /\ i \in 0..(m - 1)
  OBVIOUS
<1> HIDE DEF m
<1>4. q \in 0..(half - 1) /\ q + 1 \in 1..half
  BY <1>3
<1>5. above[q + 1] =
        hash_pair(below[2 * (q + 1) - 1],
                  below[IF 2 * (q + 1) <= m THEN 2 * (q + 1) ELSE m])
  BY <1>4 DEF IsAbove, m
<1>6. CASE Even(i)
  <2>1. 2 * (q + 1) - 1 = i + 1 /\ 2 * (q + 1) = i + 2 /\ i \in Nat /\ (~(i + 2 <= m) => m = i + 1)
    BY <1>3, <1>6 DEF Even
  <2>2. Sibling(below, i) = IF i + 1 < m THEN below[i + 2] ELSE below[i + 1]
    <3>1. (i + 1) + 1 = i + 2
      BY <1>3
    <3>2. QED  BY <1>6, <3>1 DEF Sibling, m
  <2> HIDE DEF q, half
  <2>3. below[IF 2 * (q + 1) <= m THEN 2 * (q + 1) ELSE m] = Sibling(below, i)
    <3>1. CASE i + 2 <= m
      BY <1>3, <2>1, <2>2, <3>1
    <3>2. CASE ~(i + 2 <= m)
      BY <1>3, <2>1, <2>2, <3>2
    <3>3. QED  BY <3>1, <3>2
  <2>4. above[q + 1] = hash_pair(below[i + 1], Sibling(below, i))
    BY <1>5, <2>1, <2>3
  <2>5. QED  BY <1>2, <1>4, <1>6, <2>4 DEF q
<1>7. CASE ~Even(i)
  <2>1. 2 * (q + 1) - 1 = i /\ 2 * (q + 1) = i + 1 /\ i + 1 <= m
    BY <1>3, <1>7 DEF Even
  <2>2. Sibling(below, i) = below[i]
    <3>1. i - 1 < m /\ (i - 1) + 1 = i
      BY <1>3
    <3>2. QED  BY <1>7, <3>1 DEF Sibling, m
  <2> HIDE DEF q, half
  <2>3. above[q + 1] = hash_pair(Sibling(below, i), below[i + 1])
    BY <1>5, <2>1, <2>2
  <2>4. QED  BY <1>2, <1>4, <1>7, <2>3 DEF q
<1>8. QED
  BY <1>6, <1>7

\* The nodes on the way from a leaf up, in a tree.
LEMMA WayUpStays ==
  ASSUME NEW tree, NEW leaves, IsTree(tree, leaves), NEW index \in 0..(Len(leaves) - 1),
         NEW idx, IsWayUp(idx, tree, index, Len(tree))
  PROVE  \A k \in 1..Len(tree) : idx[k] \in 0..(Len(tree[k]) - 1)
<1> DEFINE n == Len(tree)
           N == {k \in Nat : k + 1 <= n => idx[k + 1] \in 0..(Len(tree[k + 1]) - 1)}
<1>1. n \in Nat /\ n >= 1 /\ Len(tree[1]) = Len(leaves)
  BY RowLength DEF IsTree
<1>2. 0 \in N
  <2>1. idx[1] = index
    BY <1>1 DEF IsWayUp
  <2>2. QED  BY <1>1, <2>1
<1>3. ASSUME NEW k \in Nat, k \in N
      PROVE  k + 1 \in N
  <2> SUFFICES ASSUME k + 2 <= n
               PROVE  idx[k + 2] \in 0..(Len(tree[k + 2]) - 1)
    BY <1>1
  <2>1. /\ k + 1 \in 1..n /\ k + 2 \in 1..n /\ k + 1 \in 1..(n - 1)
        /\ (k + 1) + 1 = k + 2 /\ (k + 2) - 1 = k + 1 /\ k + 2 # 1
    BY <1>1
  <2>2. idx[k + 2] = idx[k + 1] \div 2
    BY <2>1 DEF IsWayUp
  <2>3. idx[k + 1] \in 0..(Len(tree[k + 1]) - 1)
    BY <1>3, <2>1
  <2>4. /\ Len(tree[k + 1]) \in Nat /\ Len(tree[k + 1]) >= 1
        /\ IsAbove(tree[k + 2], tree[k + 1], Len(tree[k + 1]))
    <3>1. Len(tree[k + 1]) \in Nat /\ Len(tree[k + 1]) >= 1
      BY <2>1, TreeRows
    <3>2. IsAbove(tree[(k + 1) + 1], tree[k + 1], Len(tree[k + 1]))
      BY <2>1 DEF IsTree
    <3>3. QED  BY <2>1, <3>1, <3>2
  <2>5. QED
    BY <2>2, <2>3, <2>4, ParentOf
<1> HIDE DEF N
<1>4. Nat \subseteq N
  BY <1>2, <1>3, Induction
<1>5. ASSUME NEW k \in 1..n PROVE idx[k] \in 0..(Len(tree[k]) - 1)
  <2>1. k - 1 \in Nat /\ (k - 1) + 1 = k /\ k <= n
    BY <1>1
  <2>2. k - 1 \in N
    BY <1>4, <2>1
  <2>3. QED
    BY <2>1, <2>2 DEF N
<1>6. QED
  BY <1>5

\* A path climbs from a leaf to the root of a tree, over digests in the field.
IsProofOf(path, tree, leaf) ==
  /\ IsRow(path, Len(tree) - 1)
  /\ \A k \in 1..(Len(tree) - 1) :
       /\ path[k] = [hash |-> path[k].hash, side |-> path[k].side]
       /\ path[k].side \in BOOLEAN /\ InField(path[k].hash)
  /\ Climb(leaf, path) = RootOf(tree)

\* The proof of a leaf does.
LEMMA ProofClimbs ==
  ASSUME NEW tree, NEW leaves, IsTree(tree, leaves), NEW index \in 0..(Len(leaves) - 1)
  PROVE  IsProofOf(proof(tree, index), tree, hash_leaf(leaves[index + 1]))
<1>0. PICK path : path = proof(tree, index)
  OBVIOUS
<1> DEFINE n == Len(tree)
           idx == WayUp(tree, index)
           leaf == hash_leaf(leaves[index + 1])
           up == HashesUp(leaf, path)
<1>1. n \in Nat /\ n >= 1 /\ Len(tree[1]) = Len(leaves) /\ Len(leaves) \in Nat
  BY RowLength DEF IsTree
<1>2. IsWayUp(idx, tree, index, n)
  BY <1>1, WayUpIs
<1>3. path = [k \in 1..(n - 1) |-> [hash |-> Sibling(tree[k], idx[k]), side |-> ~Even(idx[k])]]
  BY <1>0 DEF proof
<1> HIDE DEF idx
<1>4. \A k \in 1..n : idx[k] \in 0..(Len(tree[k]) - 1)
  BY <1>1, <1>2, WayUpStays
<1>5. IsRow(path, n - 1) /\ Len(path) = n - 1
  <2>1. IsRow(path, n - 1)
    BY <1>1, <1>3 DEF IsRow
  <2>2. QED
    BY <2>1, RowLength
<1>6. ASSUME NEW k \in 1..(n - 1)
      PROVE  /\ path[k] = [hash |-> path[k].hash, side |-> path[k].side]
             /\ path[k].hash = Sibling(tree[k], idx[k])
             /\ path[k].side = ~Even(idx[k]) /\ path[k].side \in BOOLEAN
  <2>1. path[k] = [hash |-> Sibling(tree[k], idx[k]), side |-> ~Even(idx[k])]
    BY <1>3
  <2>2. QED
    BY <2>1
<1>7. ASSUME NEW k \in 1..(n - 1)
      PROVE  InField(Sibling(tree[k], idx[k]))
  <2>1. k \in 1..n
    BY <1>1
  <2>2. Len(tree[k]) \in Nat /\ \A x \in 1..Len(tree[k]) : InField(tree[k][x])
    BY <2>1, TreeRows
  <2>3. idx[k] \in 0..(Len(tree[k]) - 1)
    BY <1>4, <2>1
  <2> DEFINE i == idx[k]  m == Len(tree[k])
  <2> HIDE DEF i, m
  <2>4. m \in Nat /\ i \in 0..(m - 1)
    BY <2>2, <2>3 DEF i, m
  <2>5. CASE Even(i)
    <3>1. Sibling(tree[k], i) = IF i + 1 < m THEN tree[k][(i + 1) + 1] ELSE tree[k][i + 1]
      BY <2>5 DEF Sibling, m
    <3>2. i + 1 \in 1..m /\ (i + 1 < m => (i + 1) + 1 \in 1..m)
      BY <2>4
    <3>3. QED  BY <2>2, <3>1, <3>2 DEF m, i
  <2>6. CASE ~Even(i)
    <3>1. i >= 1
      BY <2>4, <2>6 DEF Even
    <3>2. (i - 1) + 1 = i /\ i - 1 < m /\ i \in 1..m
      BY <2>4, <3>1
    <3>3. Sibling(tree[k], i) = tree[k][i]
      BY <2>6, <3>2 DEF Sibling, m
    <3>4. QED  BY <2>2, <3>2, <3>3 DEF m, i
  <2>7. QED  BY <2>5, <2>6
<1>8. IsClimb(up, leaf, path, n - 1)
  BY <1>1, <1>5, HashesUpAre
<1> HIDE DEF up
<1> DEFINE N == {k \in Nat : k <= n - 1 => up[k] = tree[k + 1][idx[k + 1] + 1]}
<1>9. 0 \in N
  <2>1. up[0] = leaf
    BY <1>1, <1>8 DEF IsClimb
  <2>2. idx[1] = index
    BY <1>1, <1>2 DEF IsWayUp
  <2>3. tree[1][index + 1] = leaf
    BY <1>1 DEF IsTree
  <2>4. QED  BY <2>1, <2>2, <2>3
<1>10. ASSUME NEW k \in Nat, k \in N
       PROVE  k + 1 \in N
  <2> SUFFICES ASSUME k + 1 <= n - 1
               PROVE  up[k + 1] = tree[k + 2][idx[k + 2] + 1]
    BY <1>1
  <2>1. /\ k + 1 \in 1..(n - 1) /\ k + 1 \in 0..(n - 1) /\ k + 1 # 0 /\ (k + 1) - 1 = k
        /\ k + 1 \in 1..n /\ k + 2 \in 1..n /\ k + 2 # 1 /\ (k + 2) - 1 = k + 1 /\ k <= n - 1
        /\ (k + 1) + 1 = k + 2
    BY <1>1
  <2>2. up[k] = tree[k + 1][idx[k + 1] + 1]
    BY <1>10, <2>1
  <2>3. up[k + 1] = IF path[k + 1].side THEN hash_pair(path[k + 1].hash, up[k])
                    ELSE hash_pair(up[k], path[k + 1].hash)
    BY <1>8, <2>1 DEF IsClimb
  <2>4. idx[k + 2] = idx[k + 1] \div 2
    BY <1>2, <2>1 DEF IsWayUp
  <2>5. Len(tree[k + 1]) \in Nat /\ Len(tree[k + 1]) >= 1
    BY <2>1, TreeRows
  <2>6. IsAbove(tree[k + 2], tree[k + 1], Len(tree[k + 1]))
    <3>1. IsAbove(tree[(k + 1) + 1], tree[k + 1], Len(tree[k + 1]))
      BY <2>1 DEF IsTree
    <3>2. QED  BY <2>1, <3>1
  <2>7. idx[k + 1] \in 0..(Len(tree[k + 1]) - 1)
    BY <1>4, <2>1
  <2>8. /\ Even(idx[k + 1]) => tree[k + 2][idx[k + 1] \div 2 + 1]
                               = hash_pair(tree[k + 1][idx[k + 1] + 1], Sibling(tree[k + 1], idx[k + 1]))
        /\ ~Even(idx[k + 1]) => tree[k + 2][idx[k + 1] \div 2 + 1]
                                = hash_pair(Sibling(tree[k + 1], idx[k + 1]), tree[k + 1][idx[k + 1] + 1])
    <3>1. PICK above, below, i : above = tree[k + 2] /\ below = tree[k + 1] /\ i = idx[k + 1]
      OBVIOUS
    <3>2. /\ Len(below) \in Nat /\ Len(below) >= 1
          /\ IsAbove(above, below, Len(below)) /\ i \in 0..(Len(below) - 1)
      BY <2>5, <2>6, <2>7, <3>1
    <3>3. /\ Even(i) => above[i \div 2 + 1] = hash_pair(below[i + 1], Sibling(below, i))
          /\ ~Even(i) => above[i \div 2 + 1] = hash_pair(Sibling(below, i), below[i + 1])
      BY <3>2, ParentOf
    <3>4. QED  BY <3>1, <3>3
  <2>9. path[k + 1].hash = Sibling(tree[k + 1], idx[k + 1]) /\ path[k + 1].side = ~Even(idx[k + 1])
    BY <1>6, <2>1
  <2>10. QED
    BY <2>2, <2>3, <2>4, <2>8, <2>9
<1> HIDE DEF N
<1>11. Nat \subseteq N
  BY <1>9, <1>10, Induction
<1>12. up[n - 1] = tree[n][1]
  <2>1. n - 1 \in N /\ (n - 1) + 1 = n /\ n \in 1..n
    BY <1>1, <1>11
  <2>2. up[n - 1] = tree[n][idx[n] + 1]
    BY <1>1, <2>1 DEF N
  <2>3. idx[n] \in 0..(Len(tree[n]) - 1) /\ Len(tree[n]) = 1
    BY <1>4, <2>1 DEF IsTree
  <2>4. idx[n] + 1 = 1
    BY <2>3
  <2>5. QED  BY <2>2, <2>4
<1>13. Climb(leaf, path) = RootOf(tree)
  BY <1>5, <1>12 DEF Climb, RootOf, Last, up
<1>14. QED
  BY <1>0, <1>5, <1>6, <1>7, <1>13 DEF IsProofOf

-----------------------------------------------------------------------------
(* What is accepted was committed to *)

\* node and its sibling make node i of the level above.
MakeParent(above, below, i, node, sibling, side) ==
  /\ Len(below) \in Nat /\ Len(below) >= 1 /\ IsAbove(above, below, Len(below))
  /\ i \in 0..(Len(above) - 1) /\ side \in BOOLEAN
  /\ above[i + 1] = IF side THEN hash_pair(sibling, node) ELSE hash_pair(node, sibling)

\* Which of the two places below it a side names; the last node also stands for a missing
\* sibling.
PlaceBelow(below, i, side) ==
  LET j == 2 * i + (IF side THEN 1 ELSE 0) IN IF j < Len(below) THEN j ELSE j - 1

\* The node is at that place.
LEMMA ChildOf ==
  ASSUME NEW above, NEW below, NEW i, NEW node, NEW sibling, NEW side,
         MakeParent(above, below, i, node, sibling, side)
  PROVE  /\ PlaceBelow(below, i, side) \in 0..(Len(below) - 1)
         /\ node = below[PlaceBelow(below, i, side) + 1]
<1>0. /\ Len(below) \in Nat /\ Len(below) >= 1 /\ IsAbove(above, below, Len(below))
      /\ i \in 0..(Len(above) - 1) /\ side \in BOOLEAN
      /\ above[i + 1] = IF side THEN hash_pair(sibling, node) ELSE hash_pair(node, sibling)
  BY DEF MakeParent
<1> DEFINE m == Len(below)  half == (m + 1) \div 2  y == PlaceBelow(below, i, side)
<1>1. IsRow(above, half)
  BY <1>0 DEF IsAbove
<1>2. Len(above) = half /\ half \in Nat
  BY <1>1, RowLength
<1>3. i + 1 \in 1..half /\ i \in Nat
  BY <1>0, <1>2
<1>4. above[i + 1] = hash_pair(below[2 * (i + 1) - 1],
                               below[IF 2 * (i + 1) <= m THEN 2 * (i + 1) ELSE m])
  BY <1>0, <1>3 DEF IsAbove
<1>5. m \in Nat /\ 2 * i + 1 <= m
  BY <1>0, <1>2, <1>3
<1> HIDE DEF m, half, y
<1>6. CASE side
  <2>1. above[i + 1] = hash_pair(sibling, node)
    BY <1>0, <1>6
  <2>2. PICK last : last = below[IF 2 * (i + 1) <= m THEN 2 * (i + 1) ELSE m]
    OBVIOUS
  <2>3. node = last
    <3>1. hash_pair(sibling, node) = hash_pair(below[2 * (i + 1) - 1], last)
      BY <1>4, <2>1, <2>2
    <3>2. QED  BY <3>1, HashesDiffer
  <2>4. y = IF 2 * i + 1 < m THEN 2 * i + 1 ELSE (2 * i + 1) - 1
    BY <1>6 DEF PlaceBelow, m, y
  <2>5. CASE 2 * i + 2 <= m
    <3>1. y = 2 * i + 1 /\ y + 1 = 2 * (i + 1) /\ y \in 0..(m - 1)
      BY <1>3, <1>5, <2>4, <2>5
    <3>2. QED  BY <1>3, <2>2, <2>3, <2>5, <3>1 DEF m, y
  <2>6. CASE ~(2 * i + 2 <= m)
    <3>1. y + 1 = m /\ y \in 0..(m - 1) /\ ~(2 * (i + 1) <= m)
      BY <1>3, <1>5, <2>4, <2>6
    <3>2. QED  BY <2>2, <2>3, <3>1 DEF m, y
  <2>7. QED  BY <2>5, <2>6
<1>7. CASE ~side
  <2>1. above[i + 1] = hash_pair(node, sibling)
    BY <1>0, <1>7
  <2>2. node = below[2 * (i + 1) - 1]
    BY <1>4, <2>1, HashesDiffer
  <2>3. y = IF 2 * i < m THEN 2 * i ELSE 2 * i - 1
    <3>1. 2 * i + 0 = 2 * i
      BY <1>3
    <3>2. QED  BY <1>7, <3>1 DEF PlaceBelow, m, y
  <2>4. 2 * (i + 1) - 1 = y + 1 /\ y \in 0..(m - 1)
    BY <1>3, <1>5, <2>3
  <2>5. QED  BY <2>2, <2>4 DEF m, y
<1>8. QED
  BY <1>0, <1>6, <1>7

\* A path that climbs from a leaf to the root of a tree is as long as the tree is high.
LEMMA ClimbsAllLevels ==
  ASSUME NEW tree, NEW leaves, IsTree(tree, leaves), NEW chunk, NEW path, NEW p,
         IsRow(path, p), \A k \in 1..p : path[k].side \in BOOLEAN,
         NEW up, IsClimb(up, hash_leaf(chunk), path, p), up[p] = RootOf(tree)
  PROVE  p = Len(tree) - 1
<1> DEFINE n == Len(tree)
           Meets(j) == j < n /\ \E i \in 0..(Len(tree[n - j]) - 1) : up[p - j] = tree[n - j][i + 1]
           N == {j \in Nat : j <= p => Meets(j)}
<1>1. n \in Nat /\ n >= 1 /\ p \in Nat
  BY DEF IsTree, IsRow
<1>2. 0 \in N
  <2>1. p - 0 = p /\ n - 0 = n
    BY <1>1
  <2>2. up[p] = tree[n][1]
    BY DEF RootOf, Last
  <2>3. Len(tree[n]) = 1
    BY DEF IsTree
  <2>4. 0 \in 0..(Len(tree[n - 0]) - 1) /\ up[p - 0] = tree[n - 0][0 + 1] /\ 0 < n
    BY <1>1, <2>1, <2>2, <2>3
  <2> HIDE DEF n
  <2>5. Meets(0)
    BY <2>4
  <2>6. QED  BY <2>5
<1>3. ASSUME NEW j \in Nat, j \in N, j + 1 <= p
      PROVE  Meets(j + 1)
  <2>1. PICK i \in 0..(Len(tree[n - j]) - 1) : up[p - j] = tree[n - j][i + 1]
    BY <1>1, <1>3
  <2>2. j < n
    BY <1>1, <1>3
  <2> HIDE DEF Meets, N
  <2>3. /\ p - j \in 1..p /\ p - j \in 0..p /\ p - j # 0 /\ (p - j) - 1 = p - (j + 1)
        /\ n - j \in 1..n
    BY <1>1, <1>3, <2>2
  <2> DEFINE node == up[p - (j + 1)]  side == path[p - j].side  sibling == path[p - j].hash
  <2>4. up[p - j] = IF side THEN hash_pair(sibling, node) ELSE hash_pair(node, sibling)
    BY <2>3 DEF IsClimb
  <2>5. side \in BOOLEAN
    BY <2>3
  <2> HIDE DEF node, side, sibling
  <2>6. j + 1 < n
    <3> SUFFICES ASSUME n - j = 1
                 PROVE  FALSE
      BY <1>1, <2>2
    <3>1. Len(tree[1]) = Len(leaves) /\ Len(leaves) \in Nat
      BY RowLength DEF IsTree
    <3>2. i + 1 \in 1..Len(leaves)
      BY <2>1, <3>1
    <3>3. tree[1][i + 1] = hash_leaf(leaves[i + 1])
      BY <3>2 DEF IsTree
    <3>4. hash_leaf(leaves[i + 1]) = IF side THEN hash_pair(sibling, node) ELSE hash_pair(node, sibling)
      BY <2>1, <2>4, <3>3
    <3>5. QED  BY <3>4, HashesDiffer
  <2> DEFINE k == n - (j + 1)
  <2>7. k \in 1..(n - 1) /\ k \in 1..n /\ k + 1 = n - j
    BY <1>1, <2>6
  <2> HIDE DEF k
  <2>8. Len(tree[k]) \in Nat /\ Len(tree[k]) >= 1
    BY <2>7, TreeRows
  <2>9. IsAbove(tree[n - j], tree[k], Len(tree[k]))
    <3>1. IsAbove(tree[k + 1], tree[k], Len(tree[k]))
      BY <2>7 DEF IsTree
    <3>2. QED  BY <2>7, <3>1
  <2>10. MakeParent(tree[n - j], tree[k], i, node, sibling, side)
    <3>1. tree[n - j][i + 1] = IF side THEN hash_pair(sibling, node) ELSE hash_pair(node, sibling)
      BY <2>1, <2>4
    <3>2. QED  BY <2>1, <2>5, <2>8, <2>9, <3>1 DEF MakeParent
  <2>11. PICK x \in 0..(Len(tree[k]) - 1) : node = tree[k][x + 1]
    BY <2>10, ChildOf
  <2>12. QED
    BY <2>6, <2>11 DEF Meets, k, node
<1> HIDE DEF Meets
<1>4. \A j \in Nat : j \in N => j + 1 \in N
  BY <1>3
<1> HIDE DEF N
<1>5. Nat \subseteq N
  BY <1>2, <1>4, Induction
<1>6. Meets(p)
  BY <1>1, <1>5 DEF N
<1>7. PICK i \in 0..(Len(tree[n - p]) - 1) : up[0] = tree[n - p][i + 1]
  <2>1. p - p = 0
    BY <1>1
  <2>2. QED  BY <1>6, <2>1 DEF Meets
<1>8. p < n
  BY <1>6 DEF Meets
<1>9. up[0] = hash_leaf(chunk)
  BY <1>1 DEF IsClimb
<1>10. ASSUME n - p # 1 PROVE FALSE
  <2> DEFINE k == n - p - 1
  <2>1. k \in 1..(n - 1) /\ k \in 1..n /\ k + 1 = n - p /\ n - p \in 1..n
    BY <1>1, <1>8, <1>10
  <2> HIDE DEF k
  <2>2. IsAbove(tree[k + 1], tree[k], Len(tree[k])) /\ Len(tree[k]) \in Nat
    BY <2>1, TreeRows DEF IsTree
  <2> DEFINE half == (Len(tree[k]) + 1) \div 2
  <2>3. IsRow(tree[k + 1], half)
    BY <2>2 DEF IsAbove
  <2>4. Len(tree[n - p]) = half /\ half \in Nat
    BY <2>1, <2>3, RowLength
  <2>5. i + 1 \in 1..half
    <3> HIDE DEF half
    <3>1. QED  BY <1>7, <2>4
  <2>6. PICK l, r : tree[k + 1][i + 1] = hash_pair(l, r)
    BY <2>2, <2>5 DEF IsAbove
  <2>7. QED  BY <1>7, <1>9, <2>1, <2>6, HashesDiffer
<1>11. QED
  BY <1>1, <1>8, <1>10

\* As many sides as a path has nodes.
SidesOf(sides, path, p) ==
  /\ Len(sides) = p
  /\ \A k \in 1..p : path[k].side \in BOOLEAN /\ sides[k].side = path[k].side

\* The sides of such a path lead from the root down to that leaf.
LEMMA LeadsToLeaf ==
  ASSUME NEW tree, NEW leaves, IsTree(tree, leaves), NEW chunk, NEW path, NEW p,
         p = Len(tree) - 1, NEW up, IsClimb(up, hash_leaf(chunk), path, p),
         up[p] = RootOf(tree), NEW sides, SidesOf(sides, path, p),
         NEW down, IsWayDown(down, tree, sides, p)
  PROVE  /\ down[p] \in 0..(Len(leaves) - 1)
         /\ hash_leaf(leaves[down[p] + 1]) = hash_leaf(chunk)
<1>0. /\ Len(sides) = p
      /\ \A k \in 1..p : path[k].side \in BOOLEAN /\ sides[k].side = path[k].side
  BY DEF SidesOf
<1> DEFINE n == Len(tree)
           Meets(j) == /\ down[j] \in 0..(Len(tree[n - j]) - 1)
                       /\ up[p - j] = tree[n - j][down[j] + 1]
           N == {j \in Nat : j <= p => Meets(j)}
<1>1. n \in Nat /\ n >= 1 /\ p \in Nat /\ n = p + 1
  BY DEF IsTree
<1> HIDE DEF n
<1>2. 0 \in N
  <2>1. p - 0 = p /\ n - 0 = n
    BY <1>1
  <2>2. up[p] = tree[n][1]
    BY DEF RootOf, Last, n
  <2>3. Len(tree[n]) = 1
    BY DEF IsTree, n
  <2>4. down[0] = 0
    BY <1>1 DEF IsWayDown
  <2>5. down[0] \in 0..(Len(tree[n - 0]) - 1) /\ up[p - 0] = tree[n - 0][down[0] + 1]
    BY <1>1, <2>1, <2>2, <2>3, <2>4
  <2>6. Meets(0)
    BY <2>5
  <2>7. QED  BY <2>6
<1>3. ASSUME NEW j \in Nat, j \in N, j + 1 <= p
      PROVE  Meets(j + 1)
  <2> DEFINE i == down[j]
  <2>1. i \in 0..(Len(tree[n - j]) - 1) /\ up[p - j] = tree[n - j][i + 1]
    BY <1>1, <1>3
  <2> HIDE DEF Meets, N
  <2> DEFINE k == p - j
  <2>2. /\ k \in 1..p /\ k \in 0..p /\ k # 0 /\ k - 1 = p - (j + 1)
        /\ k \in 1..(n - 1) /\ k \in 1..n /\ k + 1 = n - j /\ k = n - (j + 1)
        /\ j + 1 \in 0..p /\ j + 1 # 0 /\ (j + 1) - 1 = j /\ p + 1 - (j + 1) = k
    <3>1. j \in Nat /\ j + 1 <= p /\ p \in Nat /\ n = p + 1
      BY <1>1, <1>3
    <3> HIDE DEF i
    <3>2. k \in 1..p /\ k \in 0..p /\ k # 0 /\ k - 1 = p - (j + 1)
      BY <3>1
    <3>3. k \in 1..(n - 1) /\ k \in 1..n /\ k + 1 = n - j /\ k = n - (j + 1)
      BY <3>1
    <3>4. j + 1 \in 0..p /\ j + 1 # 0 /\ (j + 1) - 1 = j /\ p + 1 - (j + 1) = k
      BY <3>1
    <3>5. QED  BY <3>2, <3>3, <3>4
  <2> HIDE DEF k
  <2> DEFINE node == up[k - 1]  side == path[k].side  sibling == path[k].hash
  <2>3. up[k] = IF side THEN hash_pair(sibling, node) ELSE hash_pair(node, sibling)
    BY <2>2 DEF IsClimb
  <2>4. side \in BOOLEAN
    BY <1>0, <2>2
  <2>5. up[k] = tree[k + 1][i + 1] /\ i \in 0..(Len(tree[k + 1]) - 1)
    BY <2>1, <2>2 DEF k
  <2>6. Len(tree[k]) \in Nat /\ Len(tree[k]) >= 1
    BY <2>2, TreeRows DEF n
  <2>7. IsAbove(tree[k + 1], tree[k], Len(tree[k]))
    BY <2>2 DEF IsTree, n
  <2> DEFINE y == PlaceBelow(tree[k], i, side)
  <2>8. down[j + 1] = y
    <3>1. sides[k].side = side /\ Len(sides) = p
      BY <1>0, <2>2
    <3>2. down[j + 1] = LET q == Len(sides) + 1 - (j + 1)
                            below == 2 * down[(j + 1) - 1] + (IF sides[q].side THEN 1 ELSE 0)
                        IN  IF below < Len(tree[q]) THEN below ELSE below - 1
      BY <2>2, Zenon DEF IsWayDown
    <3> HIDE DEF side
    <3>3. QED  BY <2>2, <3>1, <3>2 DEF PlaceBelow
  <2> HIDE DEF node, side, sibling, i, y
  <2>9. tree[k + 1][i + 1] = IF side THEN hash_pair(sibling, node) ELSE hash_pair(node, sibling)
    BY <2>3, <2>5
  <2>10. MakeParent(tree[k + 1], tree[k], i, node, sibling, side)
    BY <2>4, <2>5, <2>6, <2>7, <2>9 DEF MakeParent
  <2>11. y \in 0..(Len(tree[k]) - 1) /\ node = tree[k][y + 1]
    BY <2>10, ChildOf DEF y
  <2>12. down[j + 1] \in 0..(Len(tree[k]) - 1) /\ up[k - 1] = tree[k][down[j + 1] + 1]
    BY <2>8, <2>11 DEF node
  <2>13. QED
    BY <2>2, <2>12 DEF Meets
<1> HIDE DEF Meets
<1>4. \A j \in Nat : j \in N => j + 1 \in N
  BY <1>3
<1> HIDE DEF N
<1>5. Nat \subseteq N
  BY <1>2, <1>4, Induction
<1>6. Meets(p)
  BY <1>1, <1>5 DEF N
<1>7. down[p] \in 0..(Len(tree[1]) - 1) /\ up[0] = tree[1][down[p] + 1]
  <2>1. p - p = 0 /\ n - p = 1
    BY <1>1
  <2>2. QED  BY <1>6, <2>1 DEF Meets
<1>8. Len(tree[1]) = Len(leaves) /\ Len(leaves) \in Nat
  <2>1. IsRow(tree[1], Len(leaves))
    BY DEF IsTree
  <2>2. QED  BY <2>1, RowLength
<1>9. up[0] = hash_leaf(chunk)
  BY <1>1 DEF IsClimb
<1>10. down[p] + 1 \in 1..Len(leaves)
  BY <1>7, <1>8
<1>11. tree[1][down[p] + 1] = hash_leaf(leaves[down[p] + 1])
  BY <1>10 DEF IsTree
<1>12. QED
  BY <1>7, <1>8, <1>9, <1>11

-----------------------------------------------------------------------------
(* Claims *)

\* A proof is a list of digests and sides, also one that was altered.
IsPath(path) ==
  \E n \in Nat : /\ IsRow(path, n)
                 /\ \A k \in 1..n : /\ path[k] = [hash |-> path[k].hash, side |-> path[k].side]
                                    /\ path[k].side \in BOOLEAN

IsClaim(c) ==
  /\ c = [chunk |-> c.chunk, proof |-> c.proof, root |-> c.root, honest |-> c.honest]
  /\ IsPath(c.proof)

\* A claim as Mint makes it.
IsMade(c) ==
  \E d \in DataSets : \E index \in 0..(Len(d) - 1) :
    c.chunk = d[index + 1] /\ c.proof = proof(Trees[d], index) /\ c.root = RootOf(Trees[d])

\* The lists have trees.
LEMMA TreesAre ==
  ASSUME NEW d \in DataSets
  PROVE  IsTree(Trees[d], d) /\ Len(d) \in Nat
<1>1. d \in Seq(Bytes) /\ d # << >>
  BY MerkleAssumption
<1>2. Trees[d] = build(d)
  BY DEF Trees
<1>3. QED
  BY <1>1, <1>2, BuildIsTree

\* A root is in the field.
LEMMA RootInField ==
  ASSUME NEW tree, NEW leaves, IsTree(tree, leaves)
  PROVE  InField(RootOf(tree))
<1>1. Len(tree) \in 1..Len(tree) /\ Len(tree[Len(tree)]) = 1
  BY DEF IsTree
<1>2. InField(tree[Len(tree)][1])
  BY <1>1, TreeRows
<1>3. QED
  BY <1>2 DEF RootOf, Last

\* Guard accepts a claim as it was made, but for the root.
LEMMA MadeIsAccepted ==
  ASSUME NEW tree, NEW leaves, IsTree(tree, leaves), Len(tree) - 1 <= DepthCap,
         NEW index \in 0..(Len(leaves) - 1), NEW c, c.chunk = leaves[index + 1],
         c.proof = proof(tree, index), c.root = RootOf(tree)
  PROVE  verify_proof(c) /\ IsPath(c.proof)
<1>1. PICK path : path = proof(tree, index)
  OBVIOUS
<1>2. IsProofOf(path, tree, hash_leaf(leaves[index + 1]))
  BY <1>1, ProofClimbs
<1>3. path = c.proof
  BY <1>1
<1>4. /\ IsRow(c.proof, Len(tree) - 1)
      /\ \A k \in 1..(Len(tree) - 1) : InField(c.proof[k].hash)
      /\ Climb(hash_leaf(leaves[index + 1]), c.proof) = RootOf(tree)
  BY <1>2, <1>3 DEF IsProofOf
<1>5. Len(c.proof) = Len(tree) - 1 /\ DOMAIN c.proof = 1..(Len(tree) - 1)
  BY <1>4, RowLength
<1>6. IsPath(c.proof)
  <2>1. IsRow(path, Len(tree) - 1)
    BY <1>2 DEF IsProofOf
  <2>2. Len(tree) - 1 \in Nat
    BY <2>1 DEF IsRow
  <2>3. QED
    BY <1>2, <1>3, <2>1, <2>2 DEF IsPath, IsProofOf
<1>7. verify_proof(c)
  BY <1>4, <1>5, RootInField DEF verify_proof
<1>8. QED
  BY <1>6, <1>7

\* The digests of a claim in the field are the kernel's atoms: what Guard accepts before
\* a poke, but for the root, the kernel accepts.
LEMMA PreflightForetells ==
  ASSUME NEW c, IsPath(c.proof), verify_proof(c)
  PROVE  verify_chunk(c)
<1> DEFINE path == [k \in DOMAIN c.proof |-> [c.proof[k] EXCEPT !.hash = tip5_to_atom(@)]]
<1>1. PICK n \in Nat : /\ IsRow(c.proof, n)
                       /\ \A k \in 1..n : /\ c.proof[k] = [hash |-> c.proof[k].hash, side |-> c.proof[k].side]
                                          /\ c.proof[k].side \in BOOLEAN
  BY DEF IsPath
<1>2. DOMAIN c.proof = 1..n /\ c.proof = [k \in 1..n |-> c.proof[k]]
  BY <1>1, RowLength DEF IsRow
<1>3. ASSUME NEW k \in 1..n
      PROVE  [c.proof[k] EXCEPT !.hash = tip5_to_atom(@)] = c.proof[k]
  <2>1. InField(c.proof[k].hash)
    BY <1>2 DEF verify_proof
  <2>2. tip5_to_atom(c.proof[k].hash) = c.proof[k].hash
    BY <2>1, HashesInField
  <2> DEFINE h == c.proof[k].hash  s == c.proof[k].side
  <2> HIDE DEF h, s
  <2>3. c.proof[k] = [hash |-> h, side |-> s] /\ tip5_to_atom(h) = h
    BY <1>1, <2>2 DEF h, s
  <2>4. QED
    BY <2>3
<1>4. path = c.proof
  BY <1>2, <1>3
<1>5. tip5_to_atom(c.root) = c.root
  BY HashesInField DEF verify_proof
<1> HIDE DEF path
<1>6. /\ Len(path) <= DepthCap
      /\ \A k \in DOMAIN path : InField(path[k].hash)
      /\ Climb(hash_leaf(c.chunk), path) = tip5_to_atom(c.root)
  BY <1>4, <1>5 DEF verify_proof
<1>7. QED
  BY <1>6 DEF verify_chunk, path

\* What the kernel accepts was committed to in each list that has the root.
LEMMA AcceptedWasCommitted ==
  ASSUME NEW c, IsPath(c.proof), verify_chunk(c), NEW tree, NEW leaves, IsTree(tree, leaves),
         RootOf(tree) = tip5_to_atom(c.root)
  PROVE  /\ Len(c.proof) = Len(tree) - 1
         /\ LeafReached(tree, c.proof) \in 0..(Len(leaves) - 1)
         /\ Atom(leaves[LeafReached(tree, c.proof) + 1]) = Atom(c.chunk)
<1> DEFINE path == [k \in DOMAIN c.proof |-> [c.proof[k] EXCEPT !.hash = tip5_to_atom(@)]]
           leaf == hash_leaf(c.chunk)
           up == HashesUp(leaf, path)
           down == WayDown(tree, c.proof)
<1>1. PICK n \in Nat : /\ IsRow(c.proof, n)
                       /\ \A k \in 1..n : /\ c.proof[k] = [hash |-> c.proof[k].hash, side |-> c.proof[k].side]
                                          /\ c.proof[k].side \in BOOLEAN
  BY DEF IsPath
<1>2. DOMAIN c.proof = 1..n /\ Len(c.proof) = n
  BY <1>1, RowLength
<1>3. IsRow(path, n)
  BY <1>2 DEF IsRow
<1>4. ASSUME NEW k \in 1..n
      PROVE  c.proof[k].side = path[k].side /\ path[k].side \in BOOLEAN
  <2> DEFINE h == c.proof[k].hash  s == c.proof[k].side
  <2>1. path[k] = [c.proof[k] EXCEPT !.hash = tip5_to_atom(h)]
    BY <1>2
  <2> HIDE DEF h, s, path
  <2>2. c.proof[k] = [hash |-> h, side |-> s] /\ s \in BOOLEAN
    BY <1>1 DEF h, s
  <2>3. path[k].side = s
    BY <2>1, <2>2
  <2>4. QED
    BY <2>2, <2>3 DEF s
<1>5. Climb(leaf, path) = RootOf(tree)
  BY DEF verify_chunk
<1> HIDE DEF path, leaf
<1>6. Len(path) = n
  BY <1>3, RowLength
<1>7. IsClimb(up, leaf, path, n)
  BY <1>6, HashesUpAre
<1>8. up[n] = RootOf(tree)
  BY <1>5, <1>6 DEF Climb
<1>10. IsWayDown(down, tree, c.proof, n)
  BY <1>2, WayDownIs
<1> HIDE DEF up, down
<1>11. \A k \in 1..n : path[k].side \in BOOLEAN
  BY <1>4
<1>12. n = Len(tree) - 1
  <2>1. IsClimb(up, hash_leaf(c.chunk), path, n)
    BY <1>7 DEF leaf
  <2>2. QED  BY <1>3, <1>8, <1>11, <2>1, ClimbsAllLevels
<1>13. hash_leaf(leaves[down[n] + 1]) = hash_leaf(c.chunk) /\ down[n] \in 0..(Len(leaves) - 1)
  <2>1. PICK sides, chunk : sides = c.proof /\ chunk = c.chunk
    OBVIOUS
  <2>2. IsClimb(up, hash_leaf(chunk), path, n)
    BY <1>7, <2>1 DEF leaf
  <2>3. SidesOf(sides, path, n) /\ IsWayDown(down, tree, sides, n)
    BY <1>2, <1>4, <1>10, <2>1 DEF SidesOf
  <2>4. hash_leaf(leaves[down[n] + 1]) = hash_leaf(chunk) /\ down[n] \in 0..(Len(leaves) - 1)
    BY <1>8, <1>12, <2>2, <2>3, LeadsToLeaf
  <2>5. QED  BY <2>1, <2>4
<1>14. Atom(leaves[down[n] + 1]) = Atom(c.chunk)
  BY <1>13, HashesDiffer
<1>15. LeafReached(tree, c.proof) = down[n]
  BY <1>2 DEF LeafReached, down
<1>16. QED
  BY <1>2, <1>12, <1>13, <1>14, <1>15

\* A node as a path holds it.
IsStep(x) == x = [hash |-> x.hash, side |-> x.side] /\ x.side \in BOOLEAN

\* A path with one node changed, with one more, or with the first or the last left out.
LEMMA PathsAltered ==
  ASSUME NEW path, IsPath(path), NEW offered, NEW q \in AlteredPaths(path, offered)
  PROVE  IsPath(q)
<1>1. PICK n \in Nat : /\ IsRow(path, n)
                       /\ \A k \in 1..n : /\ path[k] = [hash |-> path[k].hash, side |-> path[k].side]
                                          /\ path[k].side \in BOOLEAN
  BY DEF IsPath
<1>2. /\ Len(path) = n /\ DOMAIN path = 1..n /\ path \in Seq({path[i] : i \in 1..n})
      /\ path = [i \in 1..n |-> path[i]]
  BY <1>1, RowLength DEF IsRow
<1>3. \A k \in 1..n : IsStep(path[k])
  BY <1>1 DEF IsStep
<1>4. ASSUME NEW m \in Nat, NEW p, DOMAIN p = 1..m, p = [i \in 1..m |-> p[i]],
             \A k \in 1..m : IsStep(p[k])
      PROVE  IsPath(p)
  BY <1>4 DEF IsPath, IsRow, IsStep
<1>5. ASSUME NEW k \in 1..n, NEW x, IsStep(x)
      PROVE  IsPath([path EXCEPT ![k] = x])
  <2> DEFINE p == [path EXCEPT ![k] = x]
  <2>1. DOMAIN p = 1..n /\ p = [i \in 1..n |-> p[i]] /\ \A i \in 1..n : p[i] = IF i = k THEN x ELSE path[i]
    BY <1>2
  <2> HIDE DEF p
  <2>2. \A i \in 1..n : IsStep(p[i])
    BY <1>3, <1>5, <2>1
  <2>3. QED
    BY <1>4, <2>1, <2>2 DEF p
<1>6. CASE q \in {[path EXCEPT ![k].hash = h] : k \in DOMAIN path, h \in offered}
  <2>1. PICK k \in DOMAIN path, h \in offered : q = [path EXCEPT ![k].hash = h]
    BY <1>6
  <2>2. k \in 1..n
    BY <1>2
  <2> DEFINE x == [path[k] EXCEPT !.hash = h]
  <2>3. IsStep(x)
    <3>1. PICK g, s : path[k] = [hash |-> g, side |-> s] /\ s \in BOOLEAN
      BY <1>3, <2>2 DEF IsStep
    <3>2. x = [hash |-> h, side |-> s]
      BY <3>1
    <3> HIDE DEF x
    <3>3. QED  BY <3>1, <3>2 DEF IsStep
  <2>4. q = [path EXCEPT ![k] = x]
    BY <1>2, <2>1
  <2> HIDE DEF x
  <2>5. QED
    BY <1>5, <2>2, <2>3, <2>4
<1>7. CASE q \in {[path EXCEPT ![k].side = ~@] : k \in DOMAIN path}
  <2>1. PICK k \in DOMAIN path : q = [path EXCEPT ![k].side = ~@]
    BY <1>7
  <2>2. k \in 1..n
    BY <1>2
  <2> DEFINE x == [path[k] EXCEPT !.side = ~@]
  <2>3. IsStep(x)
    <3>1. PICK h, s : path[k] = [hash |-> h, side |-> s] /\ s \in BOOLEAN
      BY <1>3, <2>2 DEF IsStep
    <3>2. x = [hash |-> h, side |-> ~s]
      BY <3>1
    <3> HIDE DEF x
    <3>3. QED  BY <3>2 DEF IsStep
  <2>4. q = [path EXCEPT ![k] = x]
    BY <1>2, <2>1
  <2> HIDE DEF x
  <2>5. QED
    BY <1>5, <2>2, <2>3, <2>4
<1>8. CASE q \in {Append(path, node) : node \in [hash : offered, side : BOOLEAN]}
  <2>1. PICK x \in [hash : offered, side : BOOLEAN] : q = Append(path, x)
    BY <1>8
  <2>2. IsStep(x)
    BY DEF IsStep
  <2>3. /\ DOMAIN q = 1..(n + 1) /\ q = [i \in 1..(n + 1) |-> q[i]]
        /\ \A i \in 1..(n + 1) : q[i] = IF i = n + 1 THEN x ELSE path[i]
    BY <1>2, <2>1
  <2>4. \A i \in 1..(n + 1) : IsStep(q[i])
    BY <1>3, <2>2, <2>3
  <2>5. QED
    BY <1>4, <2>3, <2>4
<1>9. CASE q \in {SubSeq(path, k, Len(path) + k - 2) : k \in {1, 2} \cap 1 .. Len(path)}
  <2>1. PICK k \in {1, 2} \cap 1 .. Len(path) : q = SubSeq(path, k, Len(path) + k - 2)
    BY <1>9
  <2>2. PICK last : last = Len(path) + k - 2
    OBVIOUS
  <2>3. q = SubSeq(path, k, last) /\ k \in Int /\ last \in Int /\ last - k + 1 = n - 1
        /\ n - 1 \in Nat /\ (k <= last \/ n - 1 = 0)
    <3>1. k = 1 \/ k = 2
      OBVIOUS
    <3>2. k \in 1..n /\ last = n + k - 2
      BY <1>2, <2>2
    <3>3. q = SubSeq(path, k, last)
      BY <2>1, <2>2
    <3>4. QED  BY <3>1, <3>2, <3>3
  <2> DEFINE S == {path[i] : i \in k..last}
  <2>4. /\ q \in Seq(S) /\ Len(q) = n - 1
        /\ \A i \in 1..(n - 1) : i + k - 1 \in 1..n /\ q[i] = path[i + k - 1]
    <3>1. \A i \in k..last : path[i] \in S
      OBVIOUS
    <3> HIDE DEF S
    <3>2. /\ q \in Seq(S) /\ Len(q) = (IF k <= last THEN last - k + 1 ELSE 0)
          /\ \A i \in 1..(last - k + 1) : q[i] = path[k + i - 1]
      BY <2>3, <3>1, SubSeqProperties
    <3>3. k = 1 \/ k = 2
      OBVIOUS
    <3>4. ASSUME NEW i \in 1..(n - 1)
          PROVE  i + k - 1 \in 1..n /\ k + i - 1 = i + k - 1 /\ i \in 1..(last - k + 1)
      BY <2>3, <3>3
    <3>5. \A i \in 1..(n - 1) : q[i] = path[i + k - 1]
      <4> HIDE DEF S
      <4>1. QED  BY <3>2, <3>4
    <3>6. Len(q) = n - 1
      BY <2>3, <3>2
    <3>7. QED
      BY <3>2, <3>4, <3>5, <3>6
  <2> HIDE DEF S
  <2>6. DOMAIN q = 1..(n - 1) /\ q = [i \in 1..(n - 1) |-> q[i]]
    BY <2>4
  <2>5. \A i \in 1..(n - 1) : IsStep(q[i])
    BY <1>3, <2>4
  <2>7. QED
    BY <1>4, <2>3, <2>5, <2>6
<1> DEFINE Hashes == {[path EXCEPT ![k].hash = h] : k \in DOMAIN path, h \in offered}
           Sides == {[path EXCEPT ![k].side = ~@] : k \in DOMAIN path}
           More == {Append(path, node) : node \in [hash : offered, side : BOOLEAN]}
           Less == {SubSeq(path, k, Len(path) + k - 2) : k \in {1, 2} \cap 1 .. Len(path)}
<1>10. AlteredPaths(path, offered) = Hashes \cup Sides \cup More \cup Less
  BY SMT DEF AlteredPaths
<1>11. q \in Hashes \/ q \in Sides \/ q \in More \/ q \in Less
  <2> HIDE DEF Hashes, Sides, More, Less
  <2>1. QED  BY <1>10
<1>12. QED
  BY <1>6, <1>7, <1>8, <1>9, <1>11

\* What a claim is altered into is a claim.
LEMMA AlteredIsClaim ==
  ASSUME NEW c, IsClaim(c), NEW x \in Altered(c)
  PROVE  IsClaim([chunk |-> x.chunk, proof |-> x.proof, root |-> x.root, honest |-> FALSE])
<1>1. IsPath(c.proof)
  BY DEF IsClaim
<1>2. PICK chunk, path, root, honest :
        /\ c = [chunk |-> chunk, proof |-> path, root |-> root, honest |-> honest]
        /\ path = c.proof
  BY DEF IsClaim
<1>3. IsPath(x.proof)
  <2>1. CASE x \in {[c EXCEPT !.chunk = other] : other \in Chunks}
    <3>1. PICK other : x = [c EXCEPT !.chunk = other]
      BY <2>1
    <3>2. QED  BY <1>1, <1>2, <3>1
  <2>2. CASE x \in {[c EXCEPT !.root = h] : h \in Offered(c)}
    <3>1. PICK h : x = [c EXCEPT !.root = h]
      BY <2>2
    <3>2. QED  BY <1>1, <1>2, <3>1
  <2>3. CASE x \in {[c EXCEPT !.proof = p] : p \in AlteredPaths(c.proof, Offered(c))}
    <3>1. PICK p \in AlteredPaths(c.proof, Offered(c)) : x = [c EXCEPT !.proof = p]
      BY <2>3
    <3>2. IsPath(p)
      BY <1>1, PathsAltered
    <3>3. x.proof = p
      BY <1>2, <3>1
    <3>4. QED  BY <3>2, <3>3
  <2>4. QED
    BY <2>1, <2>2, <2>3 DEF Altered
<1> DEFINE y == [chunk |-> x.chunk, proof |-> x.proof, root |-> x.root, honest |-> FALSE]
<1>4. y = [chunk |-> y.chunk, proof |-> y.proof, root |-> y.root, honest |-> y.honest] /\ y.proof = x.proof
  OBVIOUS
<1> HIDE DEF y
<1>5. IsClaim(y)
  BY <1>3, <1>4 DEF IsClaim
<1>6. QED
  BY <1>5 DEF y

-----------------------------------------------------------------------------
(* The theorem *)

\* The list that is committed to is one of the lists, and the claim is one of Mint's or
\* has its shape.
MerkleInv ==
  /\ data \in DataSets \cup {NoTree}
  /\ claim # NoClaim => IsClaim(claim) /\ (claim.honest => IsMade(claim))

\* The honest claim of a step is as it was made.
LEMMA ProveMakes ==
  ASSUME NEW d \in DataSets, NEW index \in 0..(Len(d) - 1), NEW c,
         c = [chunk |-> d[index + 1], proof |-> proof(Trees[d], index),
              root |-> RootOf(Trees[d]), honest |-> TRUE]
  PROVE  IsClaim(c) /\ IsMade(c)
<1> DEFINE tree == Trees[d]
<1>1. IsTree(tree, d) /\ Len(tree) - 1 <= DepthCap
  BY TreesAre, DepthAssumption
<1>2. c.chunk = d[index + 1] /\ c.proof = proof(tree, index) /\ c.root = RootOf(tree)
  OBVIOUS
<1> HIDE DEF tree
<1>3. IsPath(c.proof)
  BY <1>1, <1>2, MadeIsAccepted
<1>4. c = [chunk |-> c.chunk, proof |-> c.proof, root |-> c.root, honest |-> c.honest]
  OBVIOUS
<1>5. IsClaim(c)
  BY <1>3, <1>4 DEF IsClaim
<1>6. IsMade(c)
  BY <1>2 DEF IsMade, tree
<1>7. QED
  BY <1>5, <1>6

LEMMA MerkleInvHolds == MerkleSpec => []MerkleInv
<1>1. MerkleInit => MerkleInv
  BY DEF MerkleInit, MerkleInv
<1>2. MerkleInv /\ [MerkleNext]_merkleVars => MerkleInv'
  <2> SUFFICES ASSUME MerkleInv, [MerkleNext]_merkleVars
               PROVE  MerkleInv'
    OBVIOUS
  <2>1. ASSUME NEW d \in DataSets, commit(d)
        PROVE  MerkleInv'
    BY <2>1 DEF commit, MerkleInv, IsMade
  <2>2. ASSUME NEW index, Prove(index)
        PROVE  MerkleInv'
    <3>1. data \in DataSets /\ index \in 0..(Len(data) - 1) /\ data' = data
      BY <2>2 DEF Prove, MerkleInv
    <3>2. claim' = [chunk |-> data[index + 1], proof |-> proof(Trees[data], index),
                    root |-> RootOf(Trees[data]), honest |-> TRUE]
      BY <2>2 DEF Prove
    <3>3. IsClaim(claim') /\ IsMade(claim')
      BY <3>1, <3>2, ProveMakes
    <3>4. QED
      BY <3>1, <3>3 DEF MerkleInv
  <2>3. ASSUME NEW root, register_root(root) \/ revoke_root(root)
        PROVE  MerkleInv'
    BY <2>3 DEF register_root, revoke_root, MerkleInv, IsMade
  <2>4. CASE Alter
    <3>1. PICK c \in Altered(claim) :
            claim' = [chunk |-> c.chunk, proof |-> c.proof, root |-> c.root, honest |-> FALSE]
      BY <2>4 DEF Alter
    <3>2. IsClaim(claim) /\ data' = data
      BY <2>4 DEF Alter, MerkleInv
    <3>3. IsClaim(claim')
      BY <3>1, <3>2, AlteredIsClaim
    <3>4. ~claim'.honest
      BY <3>1
    <3>5. QED
      BY <3>2, <3>3, <3>4 DEF MerkleInv
  <2>5. CASE UNCHANGED merkleVars
    BY <2>5 DEF merkleVars, MerkleInv, IsMade
  <2>6. QED
    BY <2>1, <2>2, <2>3, <2>4, <2>5, Zenon DEF MerkleNext
<1>3. QED
  BY <1>1, <1>2, PTL DEF MerkleSpec

\* ProofsTell: for lists of chunks of every length, what Mint proves the kernel accepts,
\* and Guard while it trusts the root; what Guard accepts the kernel accepts; and what
\* either accepts was committed to at the place the proof leads to, in every list that
\* has the root.
THEOREM ProofsTellCorrect == MerkleSpec => []ProofsTell
<1>1. MerkleInv => ProofsTell
  <2> SUFFICES ASSUME MerkleInv, claim # NoClaim
               PROVE  /\ claim.honest => verify_chunk(claim) /\ (claim.root \in roots => check(claim))
                      /\ check(claim) => verify_chunk(claim)
                      /\ verify_chunk(claim) =>
                           \A d \in DataSets :
                             RootOf(Trees[d]) = tip5_to_atom(claim.root) =>
                               /\ Len(claim.proof) = Len(Trees[d]) - 1
                               /\ Atom(d[LeafReached(Trees[d], claim.proof) + 1]) = Atom(claim.chunk)
    BY DEF ProofsTell
  <2>1. IsClaim(claim) /\ (claim.honest => IsMade(claim))
    BY DEF MerkleInv
  <2>2. ASSUME claim.honest PROVE verify_proof(claim)
    <3>1. PICK d \in DataSets : \E index \in 0..(Len(d) - 1) :
            claim.chunk = d[index + 1] /\ claim.proof = proof(Trees[d], index)
            /\ claim.root = RootOf(Trees[d])
      BY <2>1, <2>2 DEF IsMade
    <3>2. PICK index \in 0..(Len(d) - 1) :
            claim.chunk = d[index + 1] /\ claim.proof = proof(Trees[d], index)
            /\ claim.root = RootOf(Trees[d])
      BY <3>1
    <3>3. PICK tree : tree = Trees[d]
      OBVIOUS
    <3>4. IsTree(tree, d) /\ Len(tree) - 1 <= DepthCap
      BY <3>3, TreesAre, DepthAssumption
    <3>5. claim.proof = proof(tree, index) /\ claim.root = RootOf(tree)
      BY <3>2, <3>3
    <3>6. QED
      BY <3>2, <3>4, <3>5, MadeIsAccepted
  <2>3. verify_proof(claim) => verify_chunk(claim)
    BY <2>1, PreflightForetells DEF IsClaim
  <2>4. ASSUME verify_chunk(claim), NEW d \in DataSets, RootOf(Trees[d]) = tip5_to_atom(claim.root)
        PROVE  /\ Len(claim.proof) = Len(Trees[d]) - 1
               /\ Atom(d[LeafReached(Trees[d], claim.proof) + 1]) = Atom(claim.chunk)
    <3>1. IsTree(Trees[d], d) /\ IsPath(claim.proof)
      BY <2>1, TreesAre DEF IsClaim
    <3>2. QED
      BY <2>4, <3>1, AcceptedWasCommitted
  <2>5. QED
    BY <2>2, <2>3, <2>4 DEF check
<1>2. QED
  BY <1>1, MerkleInvHolds, PTL

-----------------------------------------------------------------------------
(* Gates: what is committed *)

\* Whether the bytes are among the chunks, up to trailing zeros.
IsAmong(bytes, chunks) == \E i \in DOMAIN chunks : Atom(chunks[i]) = Atom(bytes)

\* The kernel's root is that of a list there is a tree of; the fields of the hull, if it
\* has any, are those of that list.
GatesInv ==
  /\ committed = <<>> \/ committed \in DOMAIN CommittedTrees
  /\ fields = <<>> \/ (fields \in FieldLists /\ committed = LeavesOf(fields))

\* A field's leaf is a list of bytes.
LEMMA LeavesAreBytes ==
  ASSUME NEW list, list \in Seq([key : Bytes, value : Bytes]), list # << >>
  PROVE  LeavesOf(list) \in Seq(Bytes) \ {<< >>} /\ DOMAIN LeavesOf(list) = DOMAIN list
<1>1. ASSUME NEW i \in DOMAIN list
      PROVE  field_to_leaf_bytes(list[i]) \in Bytes
  <2>1. list[i] \in [key : Bytes, value : Bytes]
    <3>1. PICK S : S = [key : Bytes, value : Bytes]
      OBVIOUS
    <3>2. list \in Seq(S)
      BY <3>1
    <3>3. list[i] \in S
      BY <3>2
    <3>4. QED  BY <3>1, <3>3
  <2>2. PICK key \in Bytes, value \in Bytes : key = list[i].key /\ value = list[i].value
    BY <2>1
  <2>3. <<Colon>> \in Bytes
    BY GatesAssumption DEF Bytes
  <2>4. key \o <<Colon>> \in Bytes
    BY <2>3, ConcatProperties DEF Bytes
  <2>5. (key \o <<Colon>>) \o value \in Bytes
    BY <2>4, ConcatProperties DEF Bytes
  <2>6. QED
    BY <2>2, <2>5 DEF field_to_leaf_bytes
<1>2. Len(list) \in Nat /\ Len(list) # 0 /\ DOMAIN list = 1..Len(list)
  OBVIOUS
<1>3. LeavesOf(list) \in [1..Len(list) -> Bytes]
  BY <1>1, <1>2 DEF LeavesOf
<1>4. LeavesOf(list) \in Seq(Bytes) /\ DOMAIN LeavesOf(list) = 1..Len(list)
  BY <1>2, <1>3
<1>5. QED
  BY <1>2, <1>4

\* The lists have trees.
LEMMA CommittedIsTree ==
  ASSUME NEW chunks \in DOMAIN CommittedTrees
  PROVE  /\ IsTree(CommittedTrees[chunks], chunks)
         /\ Len(CommittedTrees[chunks]) - 1 <= DepthCap
         /\ Len(chunks) \in Nat /\ DOMAIN chunks = 1..Len(chunks) /\ chunks # << >>
<1>1. chunks \in Seq(Bytes) /\ chunks # << >>
  <2>1. CASE chunks \in KeyCommits
    BY <2>1, GatesAssumption
  <2>2. CASE chunks \in {LeavesOf(list) : list \in FieldLists}
    <3>1. PICK list \in FieldLists : chunks = LeavesOf(list)
      BY <2>2
    <3>2. list \in Seq([key : Bytes, value : Bytes]) /\ list # << >>
      BY GatesAssumption
    <3>3. QED
      BY <3>1, <3>2, LeavesAreBytes
  <2>3. QED
    BY <2>1, <2>2 DEF CommittedTrees
<1>2. CommittedTrees[chunks] = build(chunks)
  BY DEF CommittedTrees
<1>3. IsTree(CommittedTrees[chunks], chunks)
  BY <1>1, <1>2, BuildIsTree
<1>4. QED
  BY <1>1, <1>3, CommittedDepth

\* A leaf that is the root of a tree is the only one.
LEMMA RootIsLeaf ==
  ASSUME NEW tree, NEW leaves, IsTree(tree, leaves), NEW bytes, hash_leaf(bytes) = RootOf(tree)
  PROVE  Len(leaves) = 1 /\ Atom(leaves[1]) = Atom(bytes)
<1> DEFINE n == Len(tree)
<1>1. n \in Nat /\ n >= 1 /\ Len(tree[n]) = 1 /\ RootOf(tree) = tree[n][1]
  BY DEF IsTree, RootOf, Last
<1>2. ASSUME n # 1 PROVE FALSE
  <2> DEFINE k == n - 1
  <2>1. k \in 1..(n - 1) /\ k \in 1..n /\ k + 1 = n
    BY <1>1, <1>2
  <2> HIDE DEF k
  <2>2. IsAbove(tree[k + 1], tree[k], Len(tree[k])) /\ Len(tree[k]) \in Nat
    BY <2>1, TreeRows DEF IsTree
  <2> DEFINE half == (Len(tree[k]) + 1) \div 2
  <2>3. IsRow(tree[k + 1], half)
    BY <2>2 DEF IsAbove
  <2>4. Len(tree[n]) = half
    BY <2>1, <2>3, RowLength
  <2>5. 1 \in 1..half
    <3> HIDE DEF half
    <3>1. QED  BY <1>1, <2>4
  <2>6. PICK l, r : tree[k + 1][1] = hash_pair(l, r)
    BY <2>2, <2>5 DEF IsAbove
  <2>7. QED
    BY <1>1, <2>1, <2>6, HashesDiffer
<1>3. IsRow(tree[1], Len(leaves)) /\ \A i \in 1..Len(leaves) : tree[1][i] = hash_leaf(leaves[i])
  BY DEF IsTree
<1>4. Len(leaves) = 1
  BY <1>1, <1>2, <1>3, RowLength
<1>5. hash_leaf(leaves[1]) = hash_leaf(bytes)
  BY <1>1, <1>2, <1>3, <1>4
<1>6. QED
  BY <1>4, <1>5, HashesDiffer

\* And the root of a tree of one leaf is that leaf.
LEMMA LeafIsRoot ==
  ASSUME NEW tree, NEW leaves, IsTree(tree, leaves), Len(leaves) = 1
  PROVE  RootOf(tree) = hash_leaf(leaves[1])
<1> DEFINE n == Len(tree)
<1>1. n \in Nat /\ n >= 1 /\ Len(tree[n]) = 1 /\ RootOf(tree) = tree[n][1]
  BY DEF IsTree, RootOf, Last
<1>2. IsRow(tree[1], 1) /\ tree[1][1] = hash_leaf(leaves[1])
  BY DEF IsTree
<1>3. Len(tree[1]) = 1
  BY <1>2, RowLength
<1>4. ASSUME n # 1 PROVE FALSE
  <2>1. 1 \in 1..(n - 1)
    BY <1>1, <1>4
  <2>2. Len(tree[1]) >= 2
    BY <2>1 DEF IsTree
  <2>3. QED
    BY <1>3, <2>2
<1>5. QED
  BY <1>1, <1>2, <1>4

\* What has a proof under the root was committed to.
LEMMA ProvenIsAmong ==
  ASSUME NEW tree, NEW leaves, IsTree(tree, leaves), DOMAIN leaves = 1..Len(leaves),
         NEW chunk, NEW path, IsPath(path), Proves(chunk, path, RootOf(tree))
  PROVE  IsAmong(chunk, leaves)
<1>1. PICK c : c = [chunk |-> chunk, proof |-> path, root |-> RootOf(tree)]
  OBVIOUS
<1>2. c.chunk = chunk /\ c.proof = path /\ c.root = RootOf(tree) /\ verify_chunk(c)
  BY <1>1 DEF Proves
<1>3. RootOf(tree) = tip5_to_atom(c.root)
  BY <1>2, RootInField, HashesInField
<1> DEFINE at == LeafReached(tree, c.proof)
<1>4. at \in 0..(Len(leaves) - 1) /\ Atom(leaves[at + 1]) = Atom(chunk)
  BY <1>2, <1>3, AcceptedWasCommitted
<1> HIDE DEF at
<1>5. Len(leaves) \in Nat
  <2>1. IsRow(tree[1], Len(leaves))
    BY DEF IsTree
  <2>2. QED  BY <2>1 DEF IsRow
<1>6. at + 1 \in DOMAIN leaves
  BY <1>4, <1>5
<1>7. QED
  BY <1>4, <1>6 DEF IsAmong

\* The proof of a chunk that was committed to is accepted, by the kernel and by Guard.
LEMMA AmongIsProven ==
  ASSUME NEW tree, NEW leaves, IsTree(tree, leaves), Len(tree) - 1 <= DepthCap,
         NEW index \in 0..(Len(leaves) - 1)
  PROVE  /\ IsPath(proof(tree, index))
         /\ Proves(leaves[index + 1], proof(tree, index), RootOf(tree))
         /\ verify_proof([chunk |-> leaves[index + 1], proof |-> proof(tree, index),
                          root |-> RootOf(tree)])
<1>1. PICK c : c = [chunk |-> leaves[index + 1], proof |-> proof(tree, index), root |-> RootOf(tree)]
  OBVIOUS
<1>2. c.chunk = leaves[index + 1] /\ c.proof = proof(tree, index) /\ c.root = RootOf(tree)
  BY <1>1
<1>3. verify_proof(c) /\ IsPath(c.proof)
  BY <1>2, MadeIsAccepted
<1>4. verify_chunk(c)
  BY <1>3, PreflightForetells
<1>5. QED
  BY <1>1, <1>2, <1>3, <1>4 DEF Proves

-----------------------------------------------------------------------------
(* Gates: the theorems *)

LEMMA GatesInvHolds == GatesSpec => []GatesInv
<1>1. GatesInit => GatesInv
  BY DEF GatesInit, GatesInv
<1>2. GatesInv /\ [GatesNext]_gateVars => GatesInv'
  <2> SUFFICES ASSUME GatesInv, [GatesNext]_gateVars
               PROVE  GatesInv'
    OBVIOUS
  <2>1. CASE UNCHANGED <<fields, committed>>
    BY <2>1 DEF GatesInv, LeavesOf, field_to_leaf_bytes
  <2>2. CASE \E sel \in GateTables : SelectGate(sel)
    BY <2>1, <2>2 DEF SelectGate
  <2>3. CASE ComposeAndBoot
    BY <2>3 DEF ComposeAndBoot, GatesInv
  <2>4. CASE Reboot
    BY <2>4 DEF Reboot, GatesInv
  <2>5. ASSUME NEW list \in FieldLists, Commit(list)
        PROVE  GatesInv'
    <3>1. fields' = list /\ committed' = LeavesOf(list)
      BY <2>5 DEF Commit
    <3>2. LeavesOf(list) \in DOMAIN CommittedTrees
      BY DEF CommittedTrees
    <3>3. PICK chunks : chunks = LeavesOf(list)
      OBVIOUS
    <3>4. QED
      BY <3>1, <3>2 DEF GatesInv
  <2>6. ASSUME NEW chunks \in KeyCommits, CommitKeys(chunks)
        PROVE  GatesInv'
    <3>1. committed = <<>> /\ committed' = chunks /\ fields' = fields
      BY <2>6 DEF CommitKeys
    <3>2. fields = <<>>
      <4> SUFFICES ASSUME fields \in FieldLists, LeavesOf(fields) = <<>>
                   PROVE  FALSE
        BY <3>1 DEF GatesInv
      <4>1. fields \in Seq([key : Bytes, value : Bytes]) /\ fields # << >>
        BY GatesAssumption
      <4>2. LeavesOf(fields) # << >>
        BY <4>1, LeavesAreBytes
      <4>3. QED  BY <4>2
    <3>3. chunks \in DOMAIN CommittedTrees
      BY DEF CommittedTrees
    <3>4. QED
      BY <3>1, <3>2, <3>3 DEF GatesInv
  <2>7. CASE \/ SettleDefault
             \/ \E c \in CommittedChunks : SettleData(c)
             \/ \E named \in ClientLists(AllFields) : SettleManifest(named) \/ SettleBadRequest(named)
             \/ \E field \in AllFields : verify_handler(field)
             \/ committed # <<>> /\ \E p \in ClientPayloads : SettleDirectly(p)
             \/ Understood
    BY <2>1, <2>7 DEF SettleDefault, SettleData, SettleManifest, SettleBadRequest,
       verify_handler, SettleDirectly, Understood, Pokes, Says
  <2>8. CASE UNCHANGED gateVars
    BY <2>1, <2>8 DEF gateVars
  <2>9. QED
    BY <2>2, <2>3, <2>4, <2>5, <2>6, <2>7, <2>8, Zenon DEF GatesNext
<1>3. QED
  BY <1>1, <1>2, PTL DEF GatesSpec

\* What a gate says yes to, it says yes to for its shape.
LEMMA YesOfAGate ==
  ASSUME NEW p, NEW root, GateVerdict(p, root) = "yes"
  PROVE  \/ p.shape = "atom" /\ hash_leaf(p.bytes) = root
         \/ SignatureGate(p, root) \/ manifest_verify(p, root)
         \/ set_membership_verify(p, root) \/ bounded_value_verify(p, root)
<1>1. CASE kernelGates = {}
  <2>1. hash_gate(p, root) = "yes"
    BY <1>1 DEF GateVerdict
  <2>2. QED
    BY <2>1 DEF hash_gate
<1>2. CASE kernelGates # {}
  <2>1. PICK gate \in kernelGates : CatalogGate(gate, p, root)
    BY <1>2 DEF GateVerdict
  <2>2. QED
    BY <2>1 DEF CatalogGate
<1>3. QED
  BY <1>1, <1>2

\* What an accepted payload is bound to.
IsBound(p, chunks) ==
  /\ p.shape = "atom" => Len(chunks) = 1 /\ IsAmong(p.bytes, chunks)
  /\ p.shape = "member" => IsAmong(p.elem, chunks)
  /\ p.shape = "signed" =>
       /\ Len(chunks) = 1 /\ IsAmong(p.pubkey, chunks)
       /\ [by |-> p.pubkey, over |-> Atom(p.bytes)] \in Attestations
  /\ p.shape = "bounded" => IsAmong(Jam(p.range), chunks) /\ p.range[1] \in p.range[2]..p.range[3]
  /\ p.shape = "manifest" => \A i \in DOMAIN p.values : IsAmong(p.values[i], chunks)

\* The payload of each shape that is accepted is bound.
LEMMA AcceptedPayloads ==
  ASSUME GatesInv, committed # <<>>, NEW p \in ClientPayloads,
         GateVerdict(p, CommittedRoot) = "yes"
  PROVE  IsBound(p, committed)
<1> DEFINE tree == CommittedTree
<1>1. /\ IsTree(tree, committed) /\ Len(tree) - 1 <= DepthCap
      /\ Len(committed) \in Nat /\ DOMAIN committed = 1..Len(committed)
  BY CommittedIsTree DEF GatesInv, CommittedTree
<1>2. CommittedRoot = RootOf(tree)
  BY DEF CommittedRoot
<1>3. ASSUME NEW path \in Paths PROVE IsPath(path)
  <2>1. PICK i \in DOMAIN committed : path = proof(tree, i - 1)
    BY DEF Paths
  <2>2. i - 1 \in 0..(Len(committed) - 1)
    BY <1>1
  <2> HIDE DEF tree
  <2>3. QED
    BY <1>1, <2>1, <2>2, AmongIsProven
<1> HIDE DEF tree
<1>4. ASSUME NEW bytes, hash_leaf(bytes) = CommittedRoot
      PROVE  Len(committed) = 1 /\ IsAmong(bytes, committed)
  <2>1. Len(committed) = 1 /\ Atom(committed[1]) = Atom(bytes)
    BY <1>1, <1>2, <1>4, RootIsLeaf
  <2>2. 1 \in DOMAIN committed
    BY <1>1, <2>1
  <2>3. QED
    BY <2>1, <2>2 DEF IsAmong
<1>5. ASSUME NEW chunk, NEW path \in Paths, Proves(chunk, path, CommittedRoot)
      PROVE  IsAmong(chunk, committed)
  <2>1. IsPath(path) /\ Proves(chunk, path, RootOf(tree))
    BY <1>2, <1>3, <1>5
  <2>2. QED
    BY <1>1, <2>1, ProvenIsAmong
<1>6. \/ p.shape = "atom" /\ hash_leaf(p.bytes) = CommittedRoot
      \/ SignatureGate(p, CommittedRoot) \/ manifest_verify(p, CommittedRoot)
      \/ set_membership_verify(p, CommittedRoot) \/ bounded_value_verify(p, CommittedRoot)
  BY YesOfAGate
<1> DEFINE root == CommittedRoot
<1> HIDE DEF root
<1>7. CASE p \in { AtomPayload(c) : c \in CommittedChunks }
  <2>1. p.shape = "atom"
    BY <1>7 DEF AtomPayload
  <2>2. hash_leaf(p.bytes) = CommittedRoot
    BY <1>6, <2>1 DEF SignatureGate, manifest_verify, set_membership_verify, bounded_value_verify
  <2>3. QED
    BY <1>4, <2>1, <2>2 DEF IsBound
<1>8. CASE p \in { MemberPayload(c, path) : c \in CommittedChunks, path \in Paths }
  <2>1. p.shape = "member" /\ p.proof \in Paths
    BY <1>8 DEF MemberPayload
  <2>2. Proves(p.elem, p.proof, CommittedRoot)
    BY <1>6, <2>1 DEF SignatureGate, manifest_verify, set_membership_verify, bounded_value_verify
  <2>3. IsAmong(p.elem, committed)
    BY <1>5, <2>1, <2>2
  <2>4. QED
    BY <2>1, <2>3 DEF IsBound
<1>9. CASE p \in { SignedPayload(c, sig, c2) : c, c2 \in CommittedChunks, sig \in Attestations }
  <2>1. p.shape = "signed" /\ p.sig \in Attestations
    BY <1>9 DEF SignedPayload
  <2>2. SignatureGate(p, CommittedRoot)
    BY <1>6, <2>1 DEF manifest_verify, set_membership_verify, bounded_value_verify
  <2>3. hash_leaf(p.pubkey) = CommittedRoot /\ p.sig = [by |-> p.pubkey, over |-> Atom(p.bytes)]
    BY <2>2 DEF SignatureGate
  <2>4. Len(committed) = 1 /\ IsAmong(p.pubkey, committed)
    BY <1>4, <2>3
  <2>5. QED
    BY <2>1, <2>3, <2>4 DEF IsBound
<1>10. CASE p \in { BoundedPayload(range, path) : range \in Ranges, path \in Paths }
  <2>1. p.shape = "bounded" /\ p.proof \in Paths /\ p.range \in Ranges
    BY <1>10 DEF BoundedPayload
  <2>2. bounded_value_verify(p, CommittedRoot)
    BY <1>6, <2>1 DEF SignatureGate, manifest_verify, set_membership_verify
  <2>3. /\ p.range[2] <= p.range[1] /\ p.range[1] <= p.range[3]
        /\ Proves(Jam(p.range), p.proof, CommittedRoot)
    BY <2>2 DEF bounded_value_verify
  <2>4. IsAmong(Jam(p.range), committed)
    BY <1>5, <2>1, <2>3
  <2>5. p.range[1] \in Nat /\ p.range[2] \in Nat /\ p.range[3] \in Nat
    BY <2>1, GatesAssumption
  <2>6. p.range[1] \in p.range[2]..p.range[3]
    BY <2>3, <2>5
  <2>7. QED
    BY <2>1, <2>4, <2>6 DEF IsBound
<1>11. CASE p \in { ManifestPayload(values, paths) :
                      values \in ClientLists(CommittedChunks), paths \in ClientLists(Paths) }
  <2>1. p.shape = "manifest" /\ p.values \in ClientLists(CommittedChunks) /\ p.proofs \in ClientLists(Paths)
    BY <1>11 DEF ManifestPayload
  <2>2. manifest_verify(p, CommittedRoot)
    BY <1>6, <2>1 DEF SignatureGate, set_membership_verify, bounded_value_verify
  <2>3. PICK n \in 0..2 : p.values \in [1..n -> CommittedChunks]
    BY <2>1 DEF ClientLists
  <2>4. PICK m \in 0..2 : p.proofs \in [1..m -> Paths]
    BY <2>1 DEF ClientLists
  <2>5. Len(p.values) = n /\ Len(p.proofs) = m
    BY <2>3, <2>4
  <2>6. n = m
    BY <2>2, <2>5 DEF manifest_verify
  <2>7. ASSUME NEW i \in DOMAIN p.values
        PROVE  IsAmong(p.values[i], committed)
    <3>1. i \in 1..n
      BY <2>3
    <3>2. p.proofs[i] \in Paths
      BY <2>4, <2>6, <3>1
    <3>3. Proves(p.values[i], p.proofs[i], CommittedRoot)
      BY <2>2 DEF manifest_verify
    <3>4. QED
      BY <1>5, <3>2, <3>3
  <2>8. QED
    BY <2>1, <2>7 DEF IsBound
<1>12. QED
  BY <1>7, <1>8, <1>9, <1>10, <1>11 DEF ClientPayloads

\* An answer tells the request it is to.
LEMMA SaysTold ==
  ASSUME NEW request, NEW answer, Says(request, answer)
  PROVE  told'.request = request /\ told'.answer = answer
BY DEF Says

\* AcceptedIsBound: whatever a gate accepts of any client was committed to under the root,
\* for lists of every length.
THEOREM AcceptedIsBoundCorrect == GatesSpec => []AcceptedIsBound
<1> DEFINE B == told.answer = "yes" /\ told.request.route = "sdk" => IsBound(told.request.payload, committed)
<1>1. GatesInit => B
  BY DEF GatesInit, NothingTold
<1>2. GatesInv /\ B /\ [GatesNext]_gateVars => B'
  <2> SUFFICES ASSUME GatesInv, B, [GatesNext]_gateVars
               PROVE  B'
    OBVIOUS
  <2>1. CASE UNCHANGED <<told, committed>>
    BY <2>1 DEF IsBound, IsAmong
  <2>2. CASE told' = NothingTold
    BY <2>2 DEF NothingTold
  <2>3. ASSUME NEW p \in ClientPayloads, committed # <<>>, SettleDirectly(p)
        PROVE  B'
    <3>1. told' = [request |-> [route |-> "sdk", payload |-> p], answer |-> GateVerdict(p, CommittedRoot)]
      BY <2>3 DEF SettleDirectly, Pokes, Says
    <3>2. committed' = committed
      BY <2>3 DEF SettleDirectly, Pokes, Says
    <3>3. GateVerdict(p, CommittedRoot) = "yes" => IsBound(p, committed)
      BY <2>3, AcceptedPayloads
    <3>4. told'.request.payload = p /\ told'.answer = GateVerdict(p, CommittedRoot)
      BY <3>1
    <3>5. QED
      BY <3>2, <3>3, <3>4 DEF IsBound, IsAmong
  <2>4. CASE \/ \E sel \in GateTables : SelectGate(sel)
             \/ ComposeAndBoot \/ Reboot
             \/ \E list \in FieldLists : Commit(list)
             \/ \E chunks \in KeyCommits : CommitKeys(chunks)
             \/ Understood
    BY <2>2, <2>4 DEF SelectGate, ComposeAndBoot, Reboot, Commit, CommitKeys, Understood
  <2>5. CASE \/ SettleDefault
             \/ \E c \in CommittedChunks : SettleData(c)
             \/ \E named \in ClientLists(AllFields) : SettleManifest(named) \/ SettleBadRequest(named)
             \/ \E field \in AllFields : verify_handler(field)
    <3>1. ASSUME NEW request, NEW answer, Says(request, answer), request.route # "sdk"
          PROVE  B'
      BY <3>1, SaysTold
    <3>2. CASE SettleDefault
      <4> DEFINE request == [route |-> "default", named |-> <<fields[1]>>]
      <4>1. request.route # "sdk"
        OBVIOUS
      <4> HIDE DEF request, B
      <4>2. Says(request, GateVerdict(AtomPayload(field_to_leaf_bytes(fields[1])), CommittedRoot))
        BY <3>2, Zenon DEF SettleDefault, Pokes, request
      <4>3. QED
        BY <3>1, <4>1, <4>2
    <3>3. ASSUME NEW c, SettleData(c) PROVE B'
      <4> DEFINE request == [route |-> "data", bytes |-> c]
      <4>1. request.route # "sdk"
        OBVIOUS
      <4> HIDE DEF request, B
      <4>2. Says(request, GateVerdict(AtomPayload(c), CommittedRoot))
        BY <3>3, Zenon DEF SettleData, Pokes, request
      <4>3. QED
        BY <3>1, <4>1, <4>2
    <3>4. ASSUME NEW named, SettleManifest(named) \/ SettleBadRequest(named) PROVE B'
      <4> DEFINE request == [route |-> "fields", named |-> named]
      <4>1. request.route # "sdk"
        OBVIOUS
      <4> HIDE DEF request, B
      <4>2. \E answer : Says(request, answer)
        BY <3>4, Zenon DEF SettleManifest, SettleBadRequest, Pokes, request
      <4>3. QED
        BY <3>1, <4>1, <4>2
    <3>5. ASSUME NEW field, verify_handler(field) PROVE B'
      <4> DEFINE request == [route |-> "verify", named |-> <<field>>]
      <4>1. request.route # "sdk"
        OBVIOUS
      <4> HIDE DEF request, B
      <4>2. \E answer : Says(request, answer)
        BY <3>5, Zenon DEF verify_handler, request
      <4>3. QED
        BY <3>1, <4>1, <4>2
    <3> HIDE DEF B
    <3>6. QED
      BY <2>5, <3>2, <3>3, <3>4, <3>5, Zenon
  <2>6. CASE UNCHANGED gateVars
    BY <2>1, <2>6 DEF gateVars
  <2> HIDE DEF B
  <2>7. QED
    BY <2>3, <2>4, <2>5, <2>6, Zenon DEF GatesNext
<1>3. B => AcceptedIsBound
  BY DEF AcceptedIsBound, IsBound, IsAmong, IsCommitted
<1> HIDE DEF B
<1>4. QED
  BY <1>1, <1>2, <1>3, GatesInvHolds, PTL DEF GatesSpec

-----------------------------------------------------------------------------
(* Gates: what the hull settles *)

\* What HullSettlesFields says of a request and its answer.
IsGood(request, answer) ==
  request.route \in {"default", "fields", "verify"} =>
    LET named == request.named
        known == \A i \in DOMAIN named : named[i] \in Range(fields) IN
      /\ answer \in {"yes", "valid"} => known /\ named # <<>>
      /\ request.route = "verify" /\ known => answer = "valid"
      /\ request.route = "fields" /\ known /\ named # <<>>
           /\ kernelGates = {"manifest-verify"} => answer = "yes"
      /\ request.route = "default" /\ kernelGates = {} /\ Len(fields) = 1 => answer = "yes"

LEMMA SaysGood ==
  ASSUME NEW request, NEW answer, Says(request, answer), IsGood(request, answer)
  PROVE  HullSettlesFields'
<1>1. told'.request = request /\ told'.answer = answer
  BY SaysTold
<1>2. fields' = fields /\ kernelGates' = kernelGates
  BY DEF Says
<1>3. QED
  BY <1>1, <1>2 DEF IsGood, HullSettlesFields, Range

\* The tree that the fields of the hull are in.
LEMMA FieldsTree ==
  ASSUME GatesInv, fields # <<>>
  PROVE  /\ fields \in Seq([key : Bytes, value : Bytes]) /\ Len(fields) # 0
         /\ IsTree(CommittedTree, committed) /\ Len(CommittedTree) - 1 <= DepthCap
         /\ Len(committed) = Len(fields) /\ Len(fields) \in Nat /\ DOMAIN fields = 1..Len(fields)
         /\ \A i \in DOMAIN fields : committed[i] = field_to_leaf_bytes(fields[i])
<1>1. fields \in FieldLists /\ committed = LeavesOf(fields)
  BY DEF GatesInv
<1>2. fields \in Seq([key : Bytes, value : Bytes])
  BY <1>1, GatesAssumption
<1>3. Len(fields) \in Nat /\ DOMAIN fields = 1..Len(fields) /\ Len(fields) # 0
  <2>1. PICK S : S = [key : Bytes, value : Bytes]
    OBVIOUS
  <2>2. fields \in Seq(S)
    BY <1>2, <2>1
  <2>3. QED  BY <2>2
<1>4. DOMAIN LeavesOf(fields) = DOMAIN fields
  BY <1>2, LeavesAreBytes
<1>5. committed \in DOMAIN CommittedTrees
  BY <1>1 DEF CommittedTrees
<1>6. /\ IsTree(CommittedTree, committed) /\ Len(CommittedTree) - 1 <= DepthCap
      /\ Len(committed) \in Nat /\ DOMAIN committed = 1..Len(committed)
  BY <1>5, CommittedIsTree DEF CommittedTree
<1>7. 1..Len(committed) = 1..Len(fields)
  BY <1>1, <1>3, <1>4, <1>6
<1>8. Len(committed) = Len(fields)
  <2>1. PICK m \in Nat, n \in Nat : m = Len(committed) /\ n = Len(fields)
    BY <1>3, <1>6
  <2>2. 1..m = 1..n
    BY <1>7, <2>1
  <2>3. n \in 1..n /\ (m = 0 \/ m \in 1..m)
    BY <1>3, <2>1
  <2>4. n \in 1..m /\ (m = 0 \/ m \in 1..n)
    BY <2>2, <2>3
  <2>5. QED
    BY <2>1, <2>4
<1>9. \A i \in DOMAIN fields : committed[i] = field_to_leaf_bytes(fields[i])
  BY <1>1 DEF LeavesOf
<1>10. QED
  BY <1>2, <1>3, <1>6, <1>8, <1>9

\* The proof the hull makes of a field that it has is accepted.
LEMMA FieldIsProven ==
  ASSUME GatesInv, NEW field, Position(field) # {}
  PROVE  /\ Proves(field_to_leaf_bytes(field), ProofAt(field), CommittedRoot)
         /\ verify_proof([chunk |-> field_to_leaf_bytes(field), proof |-> ProofAt(field),
                          root |-> CommittedRoot])
<1>1. fields # <<>>
  BY DEF Position
<1>2. /\ IsTree(CommittedTree, committed) /\ Len(CommittedTree) - 1 <= DepthCap
      /\ Len(committed) = Len(fields) /\ Len(fields) \in Nat /\ DOMAIN fields = 1..Len(fields)
      /\ \A i \in DOMAIN fields : committed[i] = field_to_leaf_bytes(fields[i])
  BY <1>1, FieldsTree
<1> DEFINE at == Min(Position(field))
<1>3. at \in Position(field)
  <2>1. Position(field) \subseteq Nat
    BY <1>2 DEF Position
  <2>2. \E x \in Position(field) : \A y \in Position(field) : x <= y
    BY <2>1, Least
  <2>3. QED
    BY <2>2, Zenon DEF Min
<1> HIDE DEF at
<1>4. at \in 1..Len(fields) /\ fields[at] = field
  BY <1>2, <1>3 DEF Position
<1>5. PICK index : index = at - 1
  OBVIOUS
<1>6. index \in 0..(Len(committed) - 1) /\ index + 1 = at
  BY <1>2, <1>4, <1>5
<1>7. committed[index + 1] = field_to_leaf_bytes(field)
  BY <1>2, <1>4, <1>6
<1>8. ProofAt(field) = proof(CommittedTree, index)
  BY <1>5 DEF ProofAt, at
<1>9. PICK tree : tree = CommittedTree
  OBVIOUS
<1>10. /\ Proves(committed[index + 1], proof(tree, index), RootOf(tree))
       /\ verify_proof([chunk |-> committed[index + 1], proof |-> proof(tree, index),
                        root |-> RootOf(tree)])
  BY <1>2, <1>6, <1>9, AmongIsProven
<1>11. QED
  BY <1>7, <1>8, <1>9, <1>10 DEF CommittedRoot

\* A client's list has a length, and none of its members if that is 0.
LEMMA ListIs ==
  ASSUME NEW S, NEW list \in ClientLists(S)
  PROVE  /\ Len(list) \in Nat /\ DOMAIN list = 1..Len(list)
         /\ list # <<>> => 1 \in DOMAIN list
<1>1. PICK n \in 0..2 : list \in [1..n -> S]
  BY DEF ClientLists
<1>2. list \in Seq(S) /\ Len(list) = n
  BY <1>1
<1>3. QED
  BY <1>2

\* Settling the first field.
LEMMA DefaultIsGood ==
  ASSUME GatesInv, SettleDefault
  PROVE  HullSettlesFields'
<1> DEFINE request == [route |-> "default", named |-> <<fields[1]>>]
           p == AtomPayload(field_to_leaf_bytes(fields[1]))
           answer == GateVerdict(p, CommittedRoot)
<1>1. Says(request, answer) /\ fields # <<>>
  BY Zenon DEF SettleDefault, Pokes
<1>2. request.route = "default" /\ request.named = <<fields[1]>>
  OBVIOUS
<1>3. /\ Len(fields) \in Nat /\ Len(fields) # 0 /\ DOMAIN fields = 1..Len(fields)
      /\ IsTree(CommittedTree, committed) /\ Len(committed) = Len(fields)
      /\ \A i \in DOMAIN fields : committed[i] = field_to_leaf_bytes(fields[i])
  BY <1>1, FieldsTree
<1>4. fields[1] \in Range(fields)
  BY <1>3 DEF Range
<1>5. ASSUME kernelGates = {}, Len(fields) = 1
      PROVE  answer = "yes"
  <2>1. CommittedRoot = hash_leaf(committed[1])
    BY <1>3, <1>5, LeafIsRoot DEF CommittedRoot
  <2>2. committed[1] = field_to_leaf_bytes(fields[1])
    BY <1>3, <1>5
  <2>3. p.shape = "atom" /\ p.bytes = field_to_leaf_bytes(fields[1])
    BY DEF AtomPayload
  <2> HIDE DEF p
  <2>4. hash_gate(p, CommittedRoot) = "yes"
    BY <2>1, <2>2, <2>3 DEF hash_gate
  <2>5. QED
    BY <1>5, <2>4 DEF GateVerdict
<1> HIDE DEF request, answer
<1>6. IsGood(request, answer)
  BY <1>2, <1>4, <1>5 DEF IsGood
<1>7. QED
  BY <1>1, <1>6, SaysGood

\* Settling the fields a request names.
LEMMA ManifestIsGood ==
  ASSUME GatesInv, NEW named \in ClientLists(AllFields), SettleManifest(named)
  PROVE  HullSettlesFields'
<1> DEFINE request == [route |-> "fields", named |-> named]
           values == LeavesOf(named)
           paths == [i \in DOMAIN named |-> ProofAt(named[i])]
           p == ManifestPayload(values, paths)
           answer == GateVerdict(p, CommittedRoot)
<1>1. /\ Says(request, answer)
      /\ named # <<>> /\ \A i \in DOMAIN named : Position(named[i]) # {}
  BY Zenon DEF SettleManifest, Pokes
<1>2. request.route = "fields" /\ request.named = named
  OBVIOUS
<1>3. \A i \in DOMAIN named : named[i] \in Range(fields)
  BY <1>1 DEF Position, Range
<1>4. ASSUME kernelGates = {"manifest-verify"}
      PROVE  answer = "yes"
  <2>1. p.shape = "manifest" /\ p.values = values /\ p.proofs = paths
    BY DEF ManifestPayload
  <2> HIDE DEF p
  <2>2. /\ DOMAIN values = DOMAIN named /\ DOMAIN paths = DOMAIN named
        /\ \A i \in DOMAIN named : values[i] = field_to_leaf_bytes(named[i])
                                   /\ paths[i] = ProofAt(named[i])
    BY DEF LeavesOf
  <2>3. Len(values) = Len(named) /\ Len(paths) = Len(named)
    <3>1. PICK n \in Nat : n = Len(named) /\ DOMAIN named = 1..n
      BY ListIs
    <3>2. values = [i \in 1..n |-> field_to_leaf_bytes(named[i])]
      BY <3>1 DEF LeavesOf
    <3>3. paths = [i \in 1..n |-> ProofAt(named[i])]
      BY <3>1
    <3> HIDE DEF values, paths
    <3>4. QED
      BY <3>1, <3>2, <3>3
  <2> HIDE DEF values, paths
  <2>4. ASSUME NEW i \in DOMAIN values
        PROVE  Proves(values[i], paths[i], CommittedRoot)
    <3>1. Proves(field_to_leaf_bytes(named[i]), ProofAt(named[i]), CommittedRoot)
      BY <1>1, <2>2, FieldIsProven
    <3>2. QED
      BY <2>2, <3>1
  <2>5. manifest_verify(p, CommittedRoot)
    BY <2>1, <2>3, <2>4 DEF manifest_verify
  <2>6. CatalogGate("manifest-verify", p, CommittedRoot)
    BY <2>5 DEF CatalogGate
  <2>7. QED
    BY <1>4, <2>6 DEF GateVerdict
<1> HIDE DEF request, answer
<1>5. IsGood(request, answer)
  BY <1>1, <1>2, <1>3, <1>4 DEF IsGood
<1>6. QED
  BY <1>1, <1>5, SaysGood

\* A request that names no field, or one that is not there.
LEMMA BadRequestIsGood ==
  ASSUME NEW named \in ClientLists(AllFields), SettleBadRequest(named)
  PROVE  HullSettlesFields'
<1> DEFINE request == [route |-> "fields", named |-> named]
<1>1. /\ Says(request, "bad-request")
      /\ fields = <<>> \/ named = <<>> \/ \E i \in DOMAIN named : Position(named[i]) = {}
  BY Zenon DEF SettleBadRequest
<1>2. request.route = "fields" /\ request.named = named
  OBVIOUS
<1>3. ASSUME named # <<>>
      PROVE  \E i \in DOMAIN named : named[i] \notin Range(fields)
  <2>1. 1 \in DOMAIN named
    BY <1>3, ListIs
  <2>2. CASE fields = <<>>
    BY <2>1, <2>2 DEF Range
  <2>3. ASSUME NEW i \in DOMAIN named, Position(named[i]) = {}
        PROVE  named[i] \notin Range(fields)
    BY <2>3 DEF Position, Range
  <2>4. QED
    BY <1>1, <1>3, <2>2, <2>3
<1> HIDE DEF request
<1>4. IsGood(request, "bad-request")
  BY <1>2, <1>3 DEF IsGood
<1>5. QED
  BY <1>1, <1>4, SaysGood

\* /verify of a field.
LEMMA VerifyIsGood ==
  ASSUME GatesInv, NEW field, verify_handler(field)
  PROVE  HullSettlesFields'
<1> DEFINE request == [route |-> "verify", named |-> <<field>>]
           c == [chunk |-> field_to_leaf_bytes(field), proof |-> ProofAt(field), root |-> CommittedRoot]
           answer == IF Position(field) # {} /\ verify_proof(c) THEN "valid" ELSE "invalid"
<1>1. Says(request, answer)
  BY Zenon DEF verify_handler
<1>2. request.route = "verify" /\ request.named = <<field>>
  OBVIOUS
<1>3. Position(field) # {} => verify_proof(c)
  BY FieldIsProven
<1>4. Position(field) # {} <=> field \in Range(fields)
  BY DEF Position, Range
<1> HIDE DEF request, c
<1>5. IsGood(request, answer)
  BY <1>2, <1>3, <1>4 DEF IsGood
<1> HIDE DEF answer
<1>6. QED
  BY <1>1, <1>5, SaysGood

\* HullSettlesFields: through the hull only fields that were committed are settled or called
\* valid, and with the manifest of the kernel all of them are, for lists of every length.
THEOREM HullSettlesFieldsCorrect == GatesSpec => []HullSettlesFields
<1>1. GatesInit => HullSettlesFields
  BY DEF GatesInit, HullSettlesFields
<1>2. GatesInv /\ HullSettlesFields /\ [GatesNext]_gateVars => HullSettlesFields'
  <2> SUFFICES ASSUME GatesInv, HullSettlesFields, [GatesNext]_gateVars
               PROVE  HullSettlesFields'
    OBVIOUS
  <2>1. CASE told' = NothingTold
    BY <2>1 DEF HullSettlesFields
  <2>2. CASE \/ \E sel \in GateTables : SelectGate(sel)
             \/ ComposeAndBoot \/ Reboot
             \/ \E list \in FieldLists : Commit(list)
             \/ \E chunks \in KeyCommits : CommitKeys(chunks)
             \/ Understood
    BY <2>1, <2>2 DEF SelectGate, ComposeAndBoot, Reboot, Commit, CommitKeys, Understood
  <2>3. ASSUME NEW route, route \in {"data", "sdk"}, NEW request, NEW answer, Says(request, answer),
               request.route = route
        PROVE  HullSettlesFields'
    BY <2>3, SaysGood DEF IsGood
  <2>4. ASSUME NEW c, SettleData(c) PROVE HullSettlesFields'
    <3> DEFINE request == [route |-> "data", bytes |-> c]
    <3>1. request.route = "data"
      OBVIOUS
    <3>2. Says(request, GateVerdict(AtomPayload(c), CommittedRoot))
      BY <2>4, Zenon DEF SettleData, Pokes
    <3> HIDE DEF request
    <3>3. QED
      BY <2>3, <3>1, <3>2
  <2>5. ASSUME NEW p, SettleDirectly(p) PROVE HullSettlesFields'
    <3> DEFINE request == [route |-> "sdk", payload |-> p]
    <3>1. request.route = "sdk"
      OBVIOUS
    <3>2. Says(request, GateVerdict(p, CommittedRoot))
      BY <2>5, Zenon DEF SettleDirectly, Pokes
    <3> HIDE DEF request
    <3>3. QED
      BY <2>3, <3>1, <3>2
  <2>6. CASE UNCHANGED gateVars
    BY <2>6 DEF gateVars, HullSettlesFields, Range
  <2>7. QED
    BY <2>2, <2>4, <2>5, <2>6, DefaultIsGood, ManifestIsGood, BadRequestIsGood, VerifyIsGood,
       Zenon DEF GatesNext
<1>3. QED
  BY <1>1, <1>2, GatesInvHolds, PTL DEF GatesSpec

\* GatesBind: by hand or through the hull, only what was committed to is settled.
THEOREM GatesBindCorrect == GatesSpec => []GatesBind
<1>1. AcceptedIsBound /\ HullSettlesFields => GatesBind
  BY DEF GatesBind
<1>2. QED
  BY <1>1, AcceptedIsBoundCorrect, HullSettlesFieldsCorrect, PTL

=============================================================================
