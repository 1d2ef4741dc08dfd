------------------------------- MODULE MCHull -------------------------------
(* A hull over a settle graft with epochs of two notes and up to four notes:  *)
(* the third and no other rotates.  Ids are numbers: the counter names them.  *)
EXTENDS Hull

CONSTANTS h1, h2, r1, r2

MCIds == 1..(MaxSettles + 1)
MCHulls == {h1, h2}
MCRoots == {r1, r2}

\* The data of a single-leaf commit hash to its root; here a root is its data.
MCData == MCRoots
MCGate(id, d, r) == IF d = r THEN "yes" ELSE "no"

=============================================================================
