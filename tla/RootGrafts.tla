----------------------------- MODULE RootGrafts -----------------------------
(***************************************************************************)
(* hoon/lib/mint-graft.hoon and guard-graft.hoon: each keeps one root for  *)
(* each hull, given once.  Mint announces it; guard checks data against it.*)
(*                                                                         *)
(* announced and checked are ghosts: the roots in the effects of mint and  *)
(* the verdicts in those of guard.                                         *)
(***************************************************************************)
EXTENDS Integers, FiniteSets

CONSTANTS RootHulls, Data,
          HashLeaf(_), \* hash-leaf of vesl-merkle: the root of one datum
          RootsCap     \* commits-cap and roots-cap, which are equal

ASSUME RootsAssumption == IsFiniteSet(RootHulls) /\ RootsCap \in Nat

VARIABLES commits, announced,      \* mint
          guardRoots, checked,     \* guard
          rootEffect

rootVars == <<commits, announced, guardRoots, checked, rootEffect>>

\* A root that some datum hashes to.
LeafRoots == { HashLeaf(d) : d \in Data }

RootsInit ==
  /\ commits = [h \in {} |-> {}] /\ announced = {}
  /\ guardRoots = [h \in {} |-> {}] /\ checked = {}
  /\ rootEffect = "none"

\* A second root for a hull is refused, and so is a new hull at the cap.
RootRefused(table, hull) == hull \in DOMAIN table \/ Cardinality(DOMAIN table) >= RootsCap

\* put of a map.
WithRoot(table, hull, root) ==
  [h \in DOMAIN table \cup {hull} |-> IF h = hull THEN root ELSE table[h]]

MintCommit(hull, root) ==
  /\ ~RootRefused(commits, hull)
  /\ commits' = WithRoot(commits, hull, root)
  /\ announced' = announced \cup {<<hull, root>>}
  /\ rootEffect' = "mint-committed"
  /\ UNCHANGED <<guardRoots, checked>>

MintCommitRefused(hull) ==
  /\ RootRefused(commits, hull)
  /\ rootEffect' = "mint-error"
  /\ UNCHANGED <<commits, announced, guardRoots, checked>>

\* Wrong variant of GuardRegister: a root is replaced.
GuardRegisterAgain(hull, root) ==
  /\ Cardinality(DOMAIN guardRoots) < RootsCap \/ hull \in DOMAIN guardRoots
  /\ guardRoots' = WithRoot(guardRoots, hull, root)
  /\ rootEffect' = "guard-registered"
  /\ UNCHANGED <<commits, announced, checked>>

GuardRegister(hull, root) ==
  /\ ~RootRefused(guardRoots, hull)
  /\ guardRoots' = WithRoot(guardRoots, hull, root)
  /\ rootEffect' = "guard-registered"
  /\ UNCHANGED <<commits, announced, checked>>

GuardRegisterRefused(hull) ==
  /\ RootRefused(guardRoots, hull)
  /\ rootEffect' = "guard-error"
  /\ UNCHANGED <<commits, announced, guardRoots, checked>>

\* A hull that is not registered is an error, not a no.
GuardCheck(hull, datum) ==
  /\ hull \in DOMAIN guardRoots
  /\ checked' = checked \cup {<<hull, datum, HashLeaf(datum) = guardRoots[hull]>>}
  /\ rootEffect' = "guard-checked"
  /\ UNCHANGED <<commits, announced, guardRoots>>

GuardCheckRefused(hull) ==
  /\ hull \notin DOMAIN guardRoots
  /\ rootEffect' = "guard-error"
  /\ UNCHANGED <<commits, announced, guardRoots, checked>>

RootsNext ==
  \E hull \in RootHulls :
    \/ \E root \in LeafRoots : MintCommit(hull, root) \/ GuardRegister(hull, root)
    \/ MintCommitRefused(hull) \/ GuardRegisterRefused(hull)
    \/ \E datum \in Data : GuardCheck(hull, datum)
    \/ GuardCheckRefused(hull)

RootsSpec == RootsInit /\ [][RootsNext]_rootVars

-----------------------------------------------------------------------------
(* Properties *)

RootsTypeOK ==
  /\ DOMAIN commits \subseteq RootHulls /\ Cardinality(DOMAIN commits) <= RootsCap
  /\ DOMAIN guardRoots \subseteq RootHulls /\ Cardinality(DOMAIN guardRoots) <= RootsCap
  /\ rootEffect \in {"none", "mint-committed", "mint-error", "guard-registered",
                     "guard-checked", "guard-error"}

\* What a client was told stays true: each root that mint announced is still the
\* root of its hull, each verdict of guard would be given again today, and so no two
\* data with different leaves were ever both accepted for one hull.
ToldStaysTrue ==
  /\ \A a \in announced : a[1] \in DOMAIN commits /\ commits[a[1]] = a[2]
  /\ \A c \in checked :
       c[1] \in DOMAIN guardRoots /\ c[3] = (HashLeaf(c[2]) = guardRoots[c[1]])
  /\ \A c, d \in checked : c[1] = d[1] /\ c[3] /\ d[3] => HashLeaf(c[2]) = HashLeaf(d[2])

=============================================================================
