----------------------------- MODULE MerkleTree -----------------------------
(* Commitment to a list of chunks (Mint, over nockchain-tip5-rs), proofs that a *)
(* chunk is among them, and the two checks of a proof: Guard's, in Rust, and    *)
(* verify-chunk, in the kernel.                                                 *)
(*                                                                              *)
(* A digest is the term that was hashed: tip5 is taken to have no collisions. A *)
(* caller may also give digests that no hash yields, with a limb outside of the *)
(* field (`off`, where the limb is not the top one, `above`, where it is).      *)
EXTENDS Integers, Sequences, FiniteSetsExt, SequencesExt

CONSTANTS
  DataSets,     \* the lists of chunks that are committed to
  DepthCap,     \* the longest proof: 64
  GuardRoots,   \* MAX_ROOTS
  NoTree, NoClaim

Bytes == Seq(0 .. 255)

ASSUME MerkleAssumption ==
  /\ DataSets \subseteq Seq(Bytes) \ {<< >>}
  /\ DepthCap \in Nat /\ GuardRoots \in Nat
  /\ NoTree \notin DataSets

VARIABLES
  data,         \* what Mint last committed to, from which its tree is built
  roots,        \* Guard: the roots it trusts
  claim         \* what a client would have checked: a chunk, a proof and a root

merkleVars == <<data, roots, claim>>

Chunks == UNION {Range(d) : d \in DataSets}

-----------------------------------------------------------------------------
(* Hashes *)

\* The bytes as an atom, little-endian: trailing zeros do not count.
Atom(bytes) == SubSeq(bytes, 1, Max({0} \cup {i \in DOMAIN bytes : bytes[i] # 0}))

hash_leaf(bytes) == [leaf |-> Atom(bytes)]

\* Wrong variant: the side of a sibling makes no difference.
hash_pair_sorted(l, r) == [pair |-> {l, r}]

hash_pair(l, r) == [left |-> l, right |-> r]

InField(digest) == DOMAIN digest \cap {"off", "above"} = {}

\* A digest as an atom: a limb too large carries into the next.
tip5_to_atom(digest) == IF "off" \in DOMAIN digest THEN digest.off ELSE digest

-----------------------------------------------------------------------------
(* Trees and proofs *)

\* The level above: pairs, the last node twice where it has none to pair with.
Paired(level) ==
  LET even == IF Len(level) % 2 = 0 THEN level ELSE Append(level, Last(level))
  IN [i \in 1 .. Len(even) \div 2 |-> hash_pair(even[2 * i - 1], even[2 * i])]

\* The levels, from the leaves up, and no fewer than a tree has.
LevelsOf(leaves) ==
  LET level[k \in 0 .. Len(leaves)] ==
        IF k = 0 THEN [i \in DOMAIN leaves |-> hash_leaf(leaves[i])] ELSE Paired(level[k - 1])
  IN level

build(leaves) ==
  LET level == LevelsOf(leaves)
      top == Min({k \in 0 .. Len(leaves) : Len(level[k]) = 1})
  IN [k \in 1 .. top + 1 |-> level[k - 1]]

Trees == [d \in DataSets |-> build(d)]
RootOf(tree) == Last(tree)[1]

Even(i) == i % 2 = 0

\* The sibling of node i of a level, counted from 0; itself where it has none.
Sibling(level, i) ==
  LET sibling == IF Even(i) THEN i + 1 ELSE i - 1
  IN IF sibling < Len(level) THEN level[sibling + 1] ELSE level[i + 1]

\* Where the way from a leaf to the root meets each level, counted from 0.
WayUp(tree, index) ==
  LET idx[k \in 1 .. Len(tree)] == IF k = 1 THEN index ELSE idx[k - 1] \div 2
  IN idx

proof(tree, index) ==
  LET idx == WayUp(tree, index)
  IN [k \in 1 .. Len(tree) - 1 |->
        [hash |-> Sibling(tree[k], idx[k]), side |-> ~Even(idx[k])]]

\* As many chunks as an index can count have no deeper tree than a proof may be long.
ASSUME DepthAssumption == \A d \in DataSets : Len(Trees[d]) - 1 <= DepthCap

-----------------------------------------------------------------------------
(* The two checks *)

\* The hashes from the leaf up, one for each node of the path after it.
HashesUp(leaf, path) ==
  LET cur[k \in 0 .. Len(path)] ==
        IF k = 0 THEN leaf
        ELSE IF path[k].side THEN hash_pair(path[k].hash, cur[k - 1])
        ELSE hash_pair(cur[k - 1], path[k].hash)
  IN cur

Climb(leaf, path) == HashesUp(leaf, path)[Len(path)]

verify_proof(c) ==
  /\ Len(c.proof) <= DepthCap
  /\ InField(c.root) /\ \A k \in DOMAIN c.proof : InField(c.proof[k].hash)
  /\ Climb(hash_leaf(c.chunk), c.proof) = c.root

check(c) == c.root \in roots /\ verify_proof(c)

\* In the kernel, which is given atoms. A sibling above the field stops the walk.
verify_chunk(c) ==
  LET path == [k \in DOMAIN c.proof |-> [c.proof[k] EXCEPT !.hash = tip5_to_atom(@)]]
  IN /\ Len(path) <= DepthCap
     /\ \A k \in DOMAIN path : InField(path[k].hash)
     /\ Climb(hash_leaf(c.chunk), path) = tip5_to_atom(c.root)

-----------------------------------------------------------------------------
(* Mint, Guard, and the client *)

MerkleInit == data = NoTree /\ roots = {} /\ claim = NoClaim

commit(d) == data' = d /\ UNCHANGED <<roots, claim>>

\* The client keeps the chunk, its proof and the root it was made under.
Prove(index) ==
  /\ data # NoTree
  /\ index \in 0 .. Len(data) - 1
  /\ claim' = [chunk |-> data[index + 1], proof |-> proof(Trees[data], index),
               root |-> RootOf(Trees[data]), honest |-> TRUE]
  /\ UNCHANGED <<data, roots>>

register_root(root) ==
  /\ Cardinality(roots) >= GuardRoots => root \in roots
  /\ roots' = roots \cup {root}
  /\ UNCHANGED <<data, claim>>

revoke_root(root) == roots' = roots \ {root} /\ UNCHANGED <<data, claim>>

\* What a client may give for a digest of a claim: external.
Offered(c) ==
  LET nodes == {c.proof[k].hash : k \in DOMAIN c.proof} \cup {c.root, hash_leaf(c.chunk)}
  IN nodes \cup {[off |-> h] : h \in nodes} \cup {[above |-> h] : h \in nodes}

\* A proof with a node changed, one more, or the first or the last left out: external.
AlteredPaths(path, offered) ==
  {[path EXCEPT ![k].hash = h] : k \in DOMAIN path, h \in offered}
  \cup {[path EXCEPT ![k].side = ~@] : k \in DOMAIN path}
  \cup {Append(path, node) : node \in [hash : offered, side : BOOLEAN]}
  \cup {SubSeq(path, k, Len(path) + k - 2) : k \in {1, 2} \cap 1 .. Len(path)}

\* One thing of a claim is changed on its way: external.
Altered(c) ==
  {[c EXCEPT !.chunk = other] : other \in Chunks}
  \cup {[c EXCEPT !.root = h] : h \in Offered(c)}
  \cup {[c EXCEPT !.proof = path] : path \in AlteredPaths(c.proof, Offered(c))}

Alter ==
  /\ claim # NoClaim /\ claim.honest
  /\ \E c \in Altered(claim) :
       claim' = [chunk |-> c.chunk, proof |-> c.proof, root |-> c.root, honest |-> FALSE]
  /\ UNCHANGED <<data, roots>>

MerkleNext ==
  \/ \E d \in DataSets : commit(d)
  \/ \E index \in 0 .. Max({Len(d) : d \in DataSets}) : Prove(index)
  \/ data # NoTree /\ register_root(RootOf(Trees[data]))
  \/ \E root \in roots : revoke_root(root)
  \/ Alter

MerkleSpec == MerkleInit /\ [][MerkleNext]_merkleVars

-----------------------------------------------------------------------------
(* Properties *)

\* Where a proof leads from the root down, in a tree: the sides are the digits of
\* the index, and a node that stands for its missing sibling is met again.
WayDown(tree, path) ==
  LET down[j \in 0 .. Len(path)] ==
        IF j = 0 THEN 0
        ELSE LET k == Len(path) + 1 - j
                 below == 2 * down[j - 1] + (IF path[k].side THEN 1 ELSE 0)
             IN IF below < Len(tree[k]) THEN below ELSE below - 1
  IN down

LeafReached(tree, path) == WayDown(tree, path)[Len(path)]

\* What Mint proves, the kernel accepts, and Guard while it trusts the root,
\* whatever Mint has committed to since; what Guard accepts before a poke the
\* kernel accepts (guard.rs: check_with_reason, "pre-flight"); and a proof that
\* either accepts binds its chunk, up to trailing zeros, to the place the proof
\* leads to, in every list that has this root: one padded at any level, or one
\* committed to before (MerkleTree::proof, verify_proof, verify-chunk).
ProofsTell ==
  claim # NoClaim =>
    /\ claim.honest => verify_chunk(claim) /\ (claim.root \in roots => check(claim))
    /\ check(claim) => verify_chunk(claim)
    /\ verify_chunk(claim) =>
         \A d \in DataSets :
           RootOf(Trees[d]) = tip5_to_atom(claim.root) =>
             /\ Len(claim.proof) = Len(Trees[d]) - 1
             /\ Atom(d[LeafReached(Trees[d], claim.proof) + 1]) = Atom(claim.chunk)

=============================================================================
