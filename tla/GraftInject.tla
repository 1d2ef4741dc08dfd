---------------------------- MODULE GraftInject -----------------------------
(***************************************************************************)
(* nockup-graft (tools/graft-inject): composes grafts into a kernel source *)
(* by keeping, under each marker of the file, one bannered block for each  *)
(* active graft, while developers edit the file and the manifests change.  *)
(*                                                                         *)
(* A block is its graft, the manifest version whose hash its banner has    *)
(* (zero for an old banner without one), the version its body is of (zero  *)
(* once it was edited by hand), and the libraries an import block imports. *)
(***************************************************************************)
EXTENDS ListFilters, SequencesExt

CONSTANTS GraftNames,       \* in canonical order: a sequence
          Versions,         \* of a manifest
          BlockMarkers,     \* markers at which grafts contribute blocks
          HandEditMarkers,  \* HAND_EDIT_MARKERS: the ones that doctor compares
          Contributes(_, _),\* the markers of a graft's manifest, by version
          ImportsOf(_),     \* the libraries that a graft's import block names
          HasEffect(_),     \* whether a graft's manifest names an effect type
          Libs,
          NoFile,           \* no preview is pending
          MaxEdits          \* bound of the model: changes of the file or library
                            \* between runs

ASSUME InjectAssumption ==
  /\ GraftNames \in Seq(STRING) /\ IsInjective(GraftNames)
  /\ {"domain-effect", "effect-placeholder"} \cap Range(GraftNames) = {}
  /\ Versions \subseteq Nat \ {0} /\ 1 \in Versions
  /\ "imports" \in BlockMarkers
  /\ HandEditMarkers \subseteq BlockMarkers \ {"imports", "peek"}
  /\ \A g \in Range(GraftNames) : ImportsOf(g) \subseteq Libs
  /\ MaxEdits \in Nat

VARIABLES manifests, \* the library: the version of each graft's manifest
          kernel,    \* app.hoon
          preview,   \* what update showed and will write once confirmed
          applied,   \* ghost: the active set of the run that has just written the file
          edits      \* ghost: how many changes of the file or library came so far

injectVars == <<manifests, kernel, preview, applied, edits>>

Grafts == Range(GraftNames)

\* sections: the blocks under each marker.  union, overlay: what the codegen wrote.
\* present: the markers in the file.  own: the libraries the developer's lines import.
Kernel(sections, union, overlay, present, own) ==
  [sections |-> sections, union |-> union, overlay |-> overlay, present |-> present, own |-> own]

CodegenMarkers == {"effect-union", "domain-effect", "load-defaults"}
Markers == BlockMarkers \cup CodegenMarkers

\* The template, or a kernel that a tool without hashes composed.
Fresh == Kernel([m \in BlockMarkers |-> <<>>], <<>>, <<>>, Markers, {})
Legacy ==
  LET old(m) == Only(Reverse(GraftNames), {g \in Grafts : m \in Contributes(g, 1)}) IN
    [Fresh EXCEPT !.sections = [m \in BlockMarkers |->
      [i \in DOMAIN old(m) |-> [graft |-> old(m)[i], sha |-> 0, body |-> 1,
                         libs |-> IF m = "imports" THEN ImportsOf(old(m)[i]) ELSE {}]]]]

InjectInit ==
  /\ manifests = [g \in Grafts |-> 1]
  /\ kernel \in {Fresh, Legacy}
  /\ preview = NoFile /\ applied = <<>> /\ edits = 0

\* select_grafts: what is discovered, less what is excluded, or an explicit list, which
\* keeps the order of the command line.
Discovered == GraftNames
Selections ==
  { s \in UNION { [1..n -> Grafts] : n \in 0..Len(GraftNames) } : IsInjective(s) }

\* The active grafts that have a block at m, in their order.
GraftsAt(m, sel, lib) == Only(sel, {g \in Grafts : m \in Contributes(g, lib[g])})

BlocksOf(blocks, names) == Only(blocks, {b \in Range(blocks) : b.graft \in names})
Without(blocks, names) == Only(blocks, {b \in Range(blocks) : b.graft \notin names})

\* orphan_graft_names: blocks of grafts that are not active go first, everywhere.
Pruned(k, sel) ==
  Kernel([m \in BlockMarkers |-> BlocksOf(k.sections[m], Range(sel))],
         k.union, k.overlay, k.present, k.own)

LibsOf(blocks) == UNION { blocks[i].libs : i \in DOMAIN blocks }

\* emit_imports_block: a library that is imported anywhere before is left out.
Emitted(m, at, rest, own, lib) ==
  [i \in DOMAIN at |->
     [graft |-> at[i], sha |-> lib[at[i]], body |-> lib[at[i]],
      libs |-> IF m = "imports"
               THEN ImportsOf(at[i]) \ (own \cup LibsOf(rest)
                                        \cup UNION { ImportsOf(at[j]) : j \in 1..(i - 1) })
               ELSE {}]]

\* Wrong variant of Canonicalized: looks for imports before it takes the blocks out.
CanonicalizedUnstripped(k, m, sel, lib) ==
  LET at   == GraftsAt(m, sel, lib)
      rest == Without(k.sections[m], Range(at))
      new  == Emitted(m, at, k.sections[m], k.own, lib)
  IN  IF at = <<>> \/ m \notin k.present THEN k.sections[m]
      ELSE IF m = "peek" THEN rest \o new
      ELSE new \o rest

\* canonicalize_marker_section: the blocks of the grafts at m are taken out and written
\* anew, after the marker or, in the peek chain, before its end.
Canonicalized(k, m, sel, lib) ==
  LET at   == GraftsAt(m, sel, lib)
      rest == Without(k.sections[m], Range(at))
      new  == Emitted(m, at, rest, k.own, lib)
  IN  IF at = <<>> \/ m \notin k.present THEN k.sections[m]
      ELSE IF m = "peek" THEN rest \o new
      ELSE new \o rest

\* emit_effect_union: the union of the active grafts' effects and of the application's
\* own, written whole in place of the banner pair or of the open type.
emit_effect_union(k, sel) ==
  LET variants == Only(sel, {g \in Grafts : HasEffect(g)})
                  \o (IF "domain-effect" \in k.present THEN <<"domain-effect">> ELSE <<>>)
  IN  IF "effect-union" \notin k.present THEN k.union
      ELSE IF variants = <<>> THEN <<"effect-placeholder">> ELSE variants

\* emit_load_defaults: one line for each graft with a state block.
emit_load_defaults(k, sel, lib) ==
  IF "load-defaults" \in k.present THEN GraftsAt("state", sel, lib) ELSE k.overlay

\* inject: prune, then each marker, then the codegen of the union and of the overlay.
Injected(k, sel, lib) ==
  LET p == Pruned(k, sel) IN
    Kernel([m \in BlockMarkers |-> Canonicalized(p, m, sel, lib)],
           emit_effect_union(p, sel), emit_load_defaults(p, sel, lib), k.present, k.own)

\* enforce_markers_placeable
Placeable(k, sel, lib) == \A g \in Range(sel) : Contributes(g, lib[g]) \subseteq k.present

\* check_hand_edits: current by its banner, other by its body.  A block whose manifest
\* has changed, or of a graft that is dropped, is not looked at.
HandEdits(k, sel, lib) ==
  { m \in HandEditMarkers : \E i \in DOMAIN k.sections[m] :
      LET b == k.sections[m][i] IN
        /\ b.graft \in Range(sel) /\ m \in Contributes(b.graft, lib[b.graft])
        /\ b.sha = lib[b.graft] /\ b.body # b.sha }

\* inject --apply; a refusal, by either check or by a lint, writes nothing.
Apply(sel, force) ==
  /\ HandEdits(kernel, sel, manifests) = {} \/ force
  /\ Placeable(kernel, sel, manifests)
  /\ kernel' = Injected(kernel, sel, manifests)
  /\ applied' = <<sel>>
  /\ UNCHANGED <<manifests, preview, edits>>

Counted == edits < MaxEdits /\ edits' = edits + 1

\* update: installs the library, composes, and asks.  Hand edits are shown, not checked.
UpdatePreviews(lib) ==
  /\ preview = NoFile
  /\ manifests' = lib
  /\ Placeable(kernel, Discovered, lib)
  /\ preview' = Injected(kernel, Discovered, lib)
  /\ applied' = <<>> /\ Counted
  /\ UNCHANGED kernel

\* What is written was composed before the question was asked.
UpdateConfirmed ==
  /\ preview # NoFile
  /\ kernel' = preview /\ preview' = NoFile
  /\ applied' = <<>>
  /\ UNCHANGED <<manifests, edits>>

UpdateAborted ==
  /\ preview # NoFile
  /\ preview' = NoFile
  /\ UNCHANGED <<manifests, kernel, applied, edits>>

-----------------------------------------------------------------------------
(* The developer and the library *)

Edited(k) ==
  /\ kernel' = k
  /\ applied' = <<>> /\ Counted
  /\ UNCHANGED <<manifests, preview>>

EditBlock(m, i) ==
  /\ kernel.sections[m][i].body # 0
  /\ Edited([kernel EXCEPT !.sections[m][i].body = 0])

ToggleMarker(m) ==
  Edited([kernel EXCEPT !.present = IF m \in @ THEN @ \ {m} ELSE @ \cup {m}])

ToggleImport(l) ==
  Edited([kernel EXCEPT !.own = IF l \in @ THEN @ \ {l} ELSE @ \cup {l}])

ManifestChanges(g, v) ==
  /\ manifests[g] # v
  /\ manifests' = [manifests EXCEPT ![g] = v]
  /\ applied' = <<>> /\ Counted
  /\ UNCHANGED <<kernel, preview>>

InjectNext ==
  \/ \E sel \in Selections, force \in BOOLEAN : Apply(sel, force)
  \/ \E lib \in [Grafts -> Versions] : UpdatePreviews(lib)
  \/ UpdateConfirmed \/ UpdateAborted
  \/ \E m \in BlockMarkers : \E i \in DOMAIN kernel.sections[m] : EditBlock(m, i)
  \/ \E m \in Markers : ToggleMarker(m)
  \/ \E l \in Libs : ToggleImport(l)
  \/ \E g \in Grafts, v \in Versions : ManifestChanges(g, v)

InjectSpec == InjectInit /\ [][InjectNext]_injectVars

-----------------------------------------------------------------------------
(* Properties *)

BlockType == [graft : Grafts, sha : Versions \cup {0}, body : Versions \cup {0}, libs : SUBSET Libs]

InjectTypeOK ==
  /\ manifests \in [Grafts -> Versions]
  /\ \A m \in BlockMarkers : \A i \in DOMAIN kernel.sections[m] : kernel.sections[m][i] \in BlockType
  /\ kernel.present \subseteq Markers /\ kernel.own \subseteq Libs

\* The blocks that the active set sel should have at m: current and unedited.
Expected(m, sel) ==
  LET at == GraftsAt(m, sel, manifests) IN
    [i \in DOMAIN at |-> [graft |-> at[i], sha |-> manifests[at[i]], body |-> manifests[at[i]]]]

Found(blocks) ==
  [i \in DOMAIN blocks |->
     [graft |-> blocks[i].graft, sha |-> blocks[i].sha, body |-> blocks[i].body]]

\* After a run the file is that of its active set, whatever runs, edits and manifests
\* came before: under each marker the blocks of the grafts that have one there, in
\* order, current and once each; no block of a graft that is not active; each library
\* they need imported, by one line of theirs or by the developer; and the union and
\* the overlay of ++load as the active set has them. And a second run changes nothing
\* and is not refused for hand edits: what the tool writes is what it would write, and
\* what its hand-edit check expects.
AppliedLayout ==
  \A n \in DOMAIN applied : LET sel == applied[n] IN
    /\ \A m \in BlockMarkers \cap kernel.present :
         LET at == Range(GraftsAt(m, sel, manifests)) IN
           Found(BlocksOf(kernel.sections[m], at)) = Expected(m, sel)
    /\ \A m \in BlockMarkers : \A i \in DOMAIN kernel.sections[m] :
         kernel.sections[m][i].graft \in Range(sel)
    /\ \A g \in Range(GraftsAt("imports", sel, manifests)), l \in Libs :
         l \in ImportsOf(g) => l \in kernel.own \cup LibsOf(kernel.sections["imports"])
    /\ \A i, j \in DOMAIN kernel.sections["imports"] :
         i # j /\ kernel.sections["imports"][i].graft \in Range(GraftsAt("imports", sel, manifests))
         => kernel.sections["imports"][i].libs \cap kernel.sections["imports"][j].libs = {}
    /\ "effect-union" \in kernel.present =>
         /\ kernel.union # <<>>
         /\ Only(kernel.union, Grafts) = Only(sel, {g \in Grafts : HasEffect(g)})
         /\ "domain-effect" \in Range(kernel.union) <=> "domain-effect" \in kernel.present
    /\ "load-defaults" \in kernel.present => kernel.overlay = GraftsAt("state", sel, manifests)
    /\ Injected(kernel, sel, manifests) = kernel
    /\ HandEdits(kernel, sel, manifests) = {}

\* What canonicalize_marker_section promises: after a run the blocks under a marker are
\* a pure function of the active set.
PureLayout ==
  \A n \in DOMAIN applied : \A m \in BlockMarkers \cap kernel.present :
    Found(kernel.sections[m]) = Expected(m, applied[n])

=============================================================================
