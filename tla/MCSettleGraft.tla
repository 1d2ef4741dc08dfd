--------------------------- MODULE MCSettleGraft ---------------------------
(* A small settle graft: an epoch of two notes, three hulls of which two fit. *)
EXTENDS SettleGraft, TLC

CONSTANTS i1, i2, i3, i4, i5, h1, h2, h3, r1, r2, goodData, badData, crashData

MCIds == {i1, i2, i3, i4, i5}
MCHulls == {h1, h2, h3}
MCRoots == {r1, r2}
MCData == {goodData, badData, crashData}

\* The hash gate of settle-graft.toml: it ignores the id, and data is good for
\* every root but r2, whose preimage nobody holds.
MCGate(id, d, r) ==
  CASE d = crashData -> "crash"
    [] d = goodData /\ r = r1 -> "yes"
    [] OTHER -> "no"

MCSymmetry == Permutations(Ids) \cup Permutations(Hulls)

=============================================================================
