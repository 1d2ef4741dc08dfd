---------------------------- MODULE LoadOverlay ----------------------------
(***************************************************************************)
(* The overlay of ++load that graft-inject generates (codegen/mod.rs): the *)
(* noun saved by one kernel is loaded by another, which may be composed of *)
(* other grafts.  A kernel finds its fields by their places in its own     *)
(* state type, in the noun as it was saved.                                *)
(*                                                                         *)
(* Nouns are data here.  An atom is told from its cell by its fields.      *)
(***************************************************************************)
EXTENDS Integers, Sequences

CONSTANTS Compositions, \* the sequences of grafts that kernels are composed of
          HeldNouns(_), \* states that the pokes of a graft lead to
          Fits(_, _),   \* ;;: the graft's state type has the noun
          Default(_)    \* ^*: the default of the graft's state type

ASSUME OverlayAssumption ==
  \A sel \in Compositions :
    /\ sel \in Seq(STRING)
    /\ \A i \in 1 .. Len(sel) :
         /\ Fits(sel[i], Default(sel[i]))
         /\ \A x \in HeldNouns(sel[i]) : Fits(sel[i], x)

VARIABLES composed,     \* the grafts of the running kernel, in their order
          graftNouns    \* the noun of each, at the same index

overlayVars == <<composed, graftNouns>>

-----------------------------------------------------------------------------
(* Nouns *)

AtomNoun(n) == [atom |-> n]
Cell(p, q) == [head |-> p, tail |-> q]
IsAtom(x) == "atom" \in DOMAIN x
Null == AtomNoun(0)

None == [some |-> FALSE]
Some(v) == [some |-> TRUE, is |-> v]

-----------------------------------------------------------------------------
(* ++load *)

\* The last fields of a list of them, the very last one as the tail.
Nested(nouns) ==
  LET last[k \in 1 .. Len(nouns)] ==
        IF k = 1 THEN nouns[Len(nouns)] ELSE Cell(nouns[Len(nouns) - k + 1], last[k - 1])
  IN last

\* versioned-state: the version and then the fields.
versioned_state(nouns) == Nested(<<AtomNoun("v1")>> \o nouns)[Len(nouns) + 1]

\* What is left of a noun after so many tails, up to n.
TailOf(x, n) ==
  LET down[k \in 0 .. n] ==
        IF k = 0 THEN Some(x)
        ELSE IF ~down[k - 1].some THEN None
        ELSE IF IsAtom(down[k - 1].is) THEN None ELSE Some(down[k - 1].is.tail)
  IN down

\* The i-th of n fields, by its axis.
Slot(x, i, n) ==
  LET at == TailOf(x, i - 1)[i - 1] IN
    IF i = n \/ ~at.some THEN at
    ELSE IF IsAtom(at.is) THEN None ELSE Some(at.is.head)

\* Wrong variant of Probe: takes what is at the axis.
ProbeUnchecked(sel, i, saved) == Slot(saved, i + 1, Len(sel) + 1)

\* One line of the overlay: the field at its axis, if it can be reached and is of the
\* graft's type.
Probe(sel, i, saved) ==
  LET found == Slot(saved, i + 1, Len(sel) + 1) IN
    IF found.some /\ Fits(sel[i], found.is) THEN found ELSE None

render_load_defaults_block(sel, saved) ==
  [i \in DOMAIN sel |->
     IF Probe(sel, i, saved).some THEN Probe(sel, i, saved).is ELSE Default(sel[i])]

FreshNouns(sel) == [i \in DOMAIN sel |-> Default(sel[i])]

OverlayInit == composed \in Compositions /\ graftNouns = FreshNouns(composed)

OverlayPoke(i) ==
  /\ \E x \in HeldNouns(composed[i]) : graftNouns' = [graftNouns EXCEPT ![i] = x]
  /\ UNCHANGED composed

\* A snapshot, a kernel composed anew, and a resume.
OverlayResume(sel) ==
  /\ composed' = sel
  /\ graftNouns' = render_load_defaults_block(sel, versioned_state(graftNouns))

OverlayNext ==
  \/ \E i \in DOMAIN composed : OverlayPoke(i)
  \/ \E sel \in Compositions : OverlayResume(sel)

OverlaySpec == OverlayInit /\ [][OverlayNext]_overlayVars

-----------------------------------------------------------------------------
(* Properties *)

\* Whatever kernels the state came through, each field is of its graft's type, and
\* a resume into the same composition would keep them all: what a first resume took
\* for a field is never lost or taken for something else by the next one.
ResumesKeepTypes ==
  /\ \A i \in DOMAIN composed : Fits(composed[i], graftNouns[i])
  /\ render_load_defaults_block(composed, versioned_state(graftNouns)) = graftNouns

\* marker.rs:49: a smaller-shape snapshot resuming into a larger kernel gets defaults
\* at the new axes.  So a graft that is added to those of the snapshot, which keep
\* their order, starts from its default.
Newcomers(old, new) ==
  { g \in { new[i] : i \in DOMAIN new } : \A j \in DOMAIN old : old[j] # g }

NewGraftsGetDefaults ==
  [][SelectSeq(composed', LAMBDA g : g \notin Newcomers(composed, composed')) = composed =>
       \A i \in DOMAIN composed' : composed'[i] \in Newcomers(composed, composed') =>
         graftNouns'[i] = Default(composed'[i])]_overlayVars

=============================================================================
