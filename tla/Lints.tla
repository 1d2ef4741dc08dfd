------------------------------- MODULE Lints --------------------------------
(* The lints of nockup-graft (tools/graft-inject/src/lint), the policy that gives  *)
(* each its severity, and the gate that they are for `inject --apply`, on a kernel *)
(* that a developer edits and a library of grafts that changes.                    *)
(*                                                                                 *)
(* A line of app.hoon is its kind, the name in it, and the graft whose banners it  *)
(* is between (Own for the developer's).  Three stretches of the file are kept:    *)
(* the state record, the cause union, and the arms from ++peek on.                 *)
EXTENDS Integers, SequencesExt

CONSTANTS
  LintGrafts,        \* in canonical order: a sequence
  PokeTags(_),       \* of a graft's manifest: the arms of its poke block,
  StateFields(_),    \* the fields of its state block,
  CauseType(_),      \* the type that its cause block names,
  HasPeek(_),        \* whether it has a peek block,
  GraftLibs(_),      \* the libraries that its imports block names
  CommonFiles,       \* what hoon/common holds, parsed whether imported or not
  LibImports(_),     \* the imports of a file of the library or of hoon/common
  LocalTypes,        \* cause types that the developer defines in the file
  OwnTags, OwnFields, OwnRefs, \* what the developer may write
  Own,
  LintTomls,             \* nockapp.toml: not there or malformed, or its [lint] table
  LintOverrides,     \* the values of --lint-override
  MaxLintEdits       \* bound of the model: changes of the file and the library

VARIABLES
  app_hoon,        \* app.hoon
  toml_lint,
  installed,  \* the manifests in the library
  libs,       \* the .hoon files of the library
  run,        \* ghost: the last `lint` or `inject --apply`, until something changes
  lint_edits  \* ghost: how many changes there were

lintVars == <<app_hoon, toml_lint, installed, libs, run, lint_edits>>

ASSUME LintsAssumption ==
  /\ IsInjective(LintGrafts) /\ MaxLintEdits \in Nat
  \* validate_unique_type_names
  /\ \A g, h \in Range(LintGrafts) : g # h => CauseType(g) # CauseType(h)

NoRun == [verdict |-> "none"]

Line(kind, name, of) == [kind |-> kind, name |-> name, of |-> of]
OwnLine(kind, name) == Line(kind, name, Own)

\* The template; ++peek ends with a bare ~ or, with ==, in a switch of its own.
Template(peek) ==
  [imports |-> {},
   state |-> <<OwnLine("marker", "state")>>,
   cause |-> <<OwnLine("tag", "cause"), OwnLine("marker", "cause")>>,
   body |-> <<OwnLine("marker", "peek"), OwnLine(peek, "peek"), OwnLine("switch", "poke"),
              OwnLine("arm", "cause"), OwnLine("code", "cause"), OwnLine("marker", "poke"),
              OwnLine("close", "poke")>>]

MarkerAt(lines, m) == SelectInSeq(lines, LAMBDA l : l.kind = "marker" /\ l.name = m)
SwitchAt(lines) == SelectInSeq(lines, LAMBDA l : l.kind = "switch")
\* The first == after line i.
CloseAfter(lines, i) ==
  i + SelectInSeq(SubSeq(lines, i + 1, Len(lines)), LAMBDA l : l.kind = "close")

Spliced(lines, i, new) == SubSeq(lines, 1, i) \o new \o SubSeq(lines, i + 1, Len(lines))
AfterMarker(lines, m, new) == Spliced(lines, MarkerAt(lines, m), new)

NamesOf(lines, kind) ==
  LET found == SelectSeq(lines, LAMBDA l : l.kind = kind) IN [i \in DOMAIN found |-> found[i].name]
Twice(names) == { names[i] : i \in { j \in DOMAIN names : \E k \in DOMAIN names \ {j} : names[k] = names[j] } }

-----------------------------------------------------------------------------
(* inject, line by line *)

StateBlock(g) == [i \in DOMAIN StateFields(g) |-> Line("field", StateFields(g)[i], g)]
CauseBlock(g) == <<Line("ref", CauseType(g), g)>>
PokeBlock(g) ==
  FlattenSeq([i \in DOMAIN PokeTags(g) |->
                <<Line("arm", PokeTags(g)[i], g), Line("code", PokeTags(g)[i], g)>>])
Blocks(sel, block(_)) == FlattenSeq([i \in DOMAIN sel |-> block(sel[i])])

\* Blocks of grafts that are active or not go before the active ones are written anew.
Unbannered(lines) == SelectSeq(lines, LAMBDA l : l.of = Own)

find_last_bare_tilde(lines, i) ==
  SelectLastInSeq(SubSeq(lines, 1, CloseAfter(lines, i) - 1), LAMBDA l : l.kind = "tilde")

\* The chain goes before the last bare ~ up to the next ==, or brings a ~ of its own.
EmitPeekChain(lines, sel) ==
  LET chain == Blocks(SelectSeq(sel, HasPeek), LAMBDA g : <<Line("chain", "peek", g)>>)
      at == MarkerAt(lines, "peek")
      tilde == find_last_bare_tilde(lines, at)
  IN IF chain = << >> THEN lines
     ELSE IF tilde > at THEN Spliced(lines, tilde - 1, chain)
     ELSE Spliced(lines, at, Append(chain, OwnLine("tilde", "peek")))

ComposedFile(file, sel) ==
  [imports |-> file.imports,
   state |-> AfterMarker(Unbannered(file.state), "state", Blocks(sel, StateBlock)),
   cause |-> AfterMarker(Unbannered(file.cause), "cause", Blocks(sel, CauseBlock)),
   body |-> EmitPeekChain(AfterMarker(Unbannered(file.body), "poke", Blocks(sel, PokeBlock)), sel)]

-----------------------------------------------------------------------------
(* The lints: the names that each finds *)

\* A bare ~ in an own arm of the switch, up to the first ==.
BareTildes(file) ==
  LET from == SwitchAt(file.body)
      own(i) == file.body[i].of = Own
      lines == from + 1 .. CloseAfter(file.body, from) - 1
      arms == { i \in lines : own(i) /\ file.body[i].kind = "arm" }
  IN { file.body[i].name : i \in
         { a \in arms : \E j \in lines : /\ j > a /\ own(j) /\ file.body[j].kind = "tilde"
                                         /\ ~ \E b \in arms : a < b /\ b < j } }

\* The developer's names above a marker.
AboveMarker(lines, m) == Unbannered(SubSeq(lines, 1, MarkerAt(lines, m)))

Manifested(sel, names(_)) == FlattenSeq([i \in DOMAIN sel |-> names(sel[i])])

\* Wrong variant of Collisions: the grafts are compared with each other only.
CollisionsOfGrafts(file, sel) ==
  Twice(Manifested(sel, PokeTags)) \cup Twice(Manifested(sel, StateFields))

Collisions(file, sel) ==
  Twice(Manifested(sel, PokeTags) \o NamesOf(AboveMarker(file.cause, "cause"), "tag"))
  \cup Twice(Manifested(sel, StateFields) \o NamesOf(AboveMarker(file.state, "state"), "field"))

Unresolved(file, sel) ==
  Range(NamesOf(Unbannered(file.cause), "ref")) \ { CauseType(g) : g \in Range(sel) }

InternalDupes(file) == Twice(NamesOf(file.cause, "tag")) \cup Twice(NamesOf(file.state, "field"))

\* The imports of the file, at the active grafts that it was composed of, and of all
\* that is reached, without an end.
RECURSIVE ReachedFrom(_)
ReachedFrom(names) ==
  LET more == names \cup UNION { LibImports(n) : n \in names \cap (libs \cup CommonFiles) }
  IN IF more = names THEN names ELSE ReachedFrom(more)

ImportsIn(file) == file.imports \cup UNION { GraftLibs(l.of) : l \in { b \in Range(file.cause) : b.of # Own } }

MissingImports(file) == ReachedFrom(ImportsIn(file) \cup CommonFiles) \ (libs \cup CommonFiles)

-----------------------------------------------------------------------------
(* The policy *)

KIND_ORDER == {"weld-friction", "bare-tilde-ambiguity", "collision", "transitive-imports",
               "internal-dupes", "unresolved-cause-reference"}
LintSeverities == {"error", "warn", "note"}

default_severity(kind) == IF kind = "weld-friction" THEN "warn" ELSE "error"

\* A name or a severity that is none is refused, and a file that is no table is not.
PolicyRefused(toml, cli) ==
  \E table \in {toml, cli} :
    ~(DOMAIN table \subseteq KIND_ORDER /\ Range(table) \subseteq LintSeverities)

effective(toml, cli, kind) ==
  IF kind \in DOMAIN cli THEN cli[kind]
  ELSE IF kind \in DOMAIN toml THEN toml[kind] ELSE default_severity(kind)

Findings(bare, colliding, missing, dupes, unresolved) ==
  { k \in KIND_ORDER :
      \/ k = "bare-tilde-ambiguity" /\ bare # {}
      \/ k = "collision" /\ colliding # {}
      \/ k = "transitive-imports" /\ missing # {}
      \/ k = "internal-dupes" /\ dupes # {}
      \/ k = "unresolved-cause-reference" /\ unresolved # {} }

\* inject: the first four on the file as it is, and the dupes on what is composed of it.
InjectFinds(file, sel) ==
  Findings(BareTildes(file), Collisions(file, sel), MissingImports(file),
           InternalDupes(ComposedFile(file, sel)), Unresolved(file, sel))

\* lint: all on the file as it is, with every manifest of the library.
LintFinds(file, all) ==
  Findings(BareTildes(file), Collisions(file, all), MissingImports(file),
           InternalDupes(file), Unresolved(file, all))

Errors(kinds, toml, cli) == { k \in kinds : effective(toml, cli, k) = "error" }

-----------------------------------------------------------------------------
(* Steps *)

LintsInit ==
  /\ app_hoon \in { Template(peek) : peek \in {"tilde", "close"} }
  /\ toml_lint = << >> /\ installed = Range(LintGrafts)
  /\ libs = UNION { GraftLibs(g) : g \in installed }
  /\ run = NoRun /\ lint_edits = 0

DiscoveredGrafts == SelectSeq(LintGrafts, LAMBDA g : g \in installed)

\* select_grafts: those discovered, less what is excluded.
Selected == { SelectSeq(DiscoveredGrafts, LAMBDA g : g \in s) : s \in SUBSET installed }

\* What was refused is not asked again before something changes: a bound of the model.
InjectApplies(sel, cli) ==
  /\ run.verdict \in {"none", "clean", "written"}
  /\ LET found == InjectFinds(app_hoon, sel)
         verdict == IF PolicyRefused(toml_lint, cli) THEN "typo"
                    ELSE IF Errors(found, toml_lint, cli) # {} THEN "refused" ELSE "written"
     IN /\ run' = [verdict |-> verdict, sel |-> sel, cli |-> cli, lacked |-> MissingImports(app_hoon)]
        /\ app_hoon' = IF verdict = "written" THEN ComposedFile(app_hoon, sel) ELSE app_hoon
  /\ UNCHANGED <<toml_lint, installed, libs, lint_edits>>

\* lint, which exits with an error if it finds one.
LintCommand(cli) ==
  /\ run = NoRun
  /\ run' = [verdict |-> IF PolicyRefused(toml_lint, cli) THEN "typo"
                         ELSE IF Errors(LintFinds(app_hoon, DiscoveredGrafts), toml_lint, cli) # {}
                         THEN "errors" ELSE "clean",
             sel |-> DiscoveredGrafts, cli |-> cli]
  /\ UNCHANGED <<app_hoon, toml_lint, installed, libs, lint_edits>>

LintEdit == lint_edits < MaxLintEdits /\ lint_edits' = lint_edits + 1 /\ run' = NoRun

EditApp(file) == LintEdit /\ app_hoon' = file /\ UNCHANGED <<toml_lint, installed, libs>>

\* A cause of the application and its arm, whose body may have a bare ~ or an ==.
AddTag(tag, above, ends) ==
  LET at == MarkerAt(app_hoon.cause, "cause") - (IF above THEN 1 ELSE 0)
      arm == MarkerAt(app_hoon.body, "poke") - 1
  IN EditApp([app_hoon EXCEPT
       !.cause = Spliced(@, IF above THEN at ELSE Len(@), <<OwnLine("tag", tag)>>),
       !.body = Spliced(@, arm, <<OwnLine("arm", tag)>>
                                \o [i \in DOMAIN ends |-> OwnLine(ends[i], tag)])])

AddField(field) ==
  EditApp([app_hoon EXCEPT !.state =
    Spliced(@, MarkerAt(@, "state") - 1, <<OwnLine("field", field)>>)])

AddReference(name) == EditApp([app_hoon EXCEPT !.cause = Spliced(@, 1, <<OwnLine("ref", name)>>)])

AddImport(lib) == lib \notin app_hoon.imports /\ EditApp([app_hoon EXCEPT !.imports = @ \cup {lib}])

ProjectChanges(toml, grafts, files) ==
  /\ LintEdit /\ <<toml, grafts, files>> # <<toml_lint, installed, libs>>
  /\ toml_lint' = toml /\ installed' = grafts /\ libs' = files
  /\ UNCHANGED app_hoon

ArmEnds == { <<"code">>, <<"tilde">>, <<"close", "code", "tilde">> }
AllLibs == UNION { GraftLibs(g) : g \in Range(LintGrafts) }

LintsNext ==
  \/ \E cli \in LintOverrides : LintCommand(cli) \/ \E sel \in Selected : InjectApplies(sel, cli)
  \/ \E tag \in OwnTags, above \in BOOLEAN, ends \in ArmEnds : AddTag(tag, above, ends)
  \/ \E field \in OwnFields : AddField(field)
  \/ \E name \in OwnRefs : AddReference(name)
  \/ \E lib \in AllLibs : AddImport(lib)
  \/ \E toml \in LintTomls : ProjectChanges(toml, installed, libs)
  \/ \E g \in Range(LintGrafts) :
       ProjectChanges(toml_lint, IF g \in installed THEN installed \ {g} ELSE installed \cup {g}, libs)
  \/ \E lib \in AllLibs :
       ProjectChanges(toml_lint, installed, IF lib \in libs THEN libs \ {lib} ELSE libs \cup {lib})

-----------------------------------------------------------------------------
(* Properties *)

\* codegen kernel-cause-tags: the literal tags, and those of the grafts that are named.
KERNEL_CAUSE_TAGS(file) ==
  (Range(NamesOf(file.cause, "tag")) \ {"cause"})
  \cup UNION { Range(PokeTags(g)) : g \in
                 { h \in installed : CauseType(h) \in Range(NamesOf(file.cause, "ref")) } }

\* The chain of peeks is inside ++peek.
ChainInPeek(file) ==
  \A i \in DOMAIN file.body :
    file.body[i].kind = "chain" => MarkerAt(file.body, "peek") < i /\ i < SwitchAt(file.body)

\* Each reference of the union names a type that is there.
NoneDangles(file, sel) ==
  Range(NamesOf(file.cause, "ref")) \subseteq { CauseType(g) : g \in Range(sel) } \cup LocalTypes

\* The developer's tags below the marker: extract_domain_cause_tags stops there, so they
\* are compared with no graft's, whatever collision.rs:47-48 says of every source.
BelowMarker(file) ==
  Range(NamesOf(SubSeq(file.cause, MarkerAt(file.cause, "cause"), Len(file.cause)), "tag"))

ArmsDistinct(file) == Twice(NamesOf(file.body, "arm")) \subseteq BelowMarker(file)
FieldsDistinct(file) == Twice(NamesOf(file.state, "field")) = {}
ImportsFound(file) == ReachedFrom(file.imports \cup CommonFiles) \subseteq libs \cup CommonFiles

Enforced(kind) == effective(toml_lint, run.cli, kind) = "error"

\* In what inject --apply writes, but for what the policy in force lets pass, there are
\* one arm for each cause, one field for each name, the peeks in ++peek, no type of a
\* cause that is not there, and no import of the developer's without a file.  The same
\* command then finds nothing to change and nothing to refuse, but for files that the
\* grafts it has added import; and the tags generated for drivers are the arms there are.
WrittenStands ==
  run.verdict = "written" =>
    /\ Enforced("bare-tilde-ambiguity") => ChainInPeek(app_hoon)
    /\ Enforced("collision") /\ Enforced("internal-dupes") => ArmsDistinct(app_hoon)
    /\ Enforced("internal-dupes") => FieldsDistinct(app_hoon)
    /\ Enforced("transitive-imports") => ImportsFound(app_hoon)
    /\ Enforced("unresolved-cause-reference") =>
         /\ NoneDangles(app_hoon, run.sel)
         /\ KERNEL_CAUSE_TAGS(app_hoon) = Range(NamesOf(app_hoon.body, "arm")) \ {"cause"}
    /\ ComposedFile(app_hoon, run.sel) = app_hoon
    /\ Errors(InjectFinds(app_hoon, run.sel), toml_lint, run.cli) \subseteq {"transitive-imports"}
    /\ MissingImports(app_hoon) \subseteq
         ReachedFrom(UNION { GraftLibs(g) : g \in Range(run.sel) })
         \cup (IF Enforced("transitive-imports") THEN {} ELSE run.lacked)

\* A kernel that would not compile as the developer meant it.
Broken(file, sel) ==
  \/ ~ChainInPeek(file) \/ Twice(NamesOf(file.body, "arm")) # {} \/ ~FieldsDistinct(file)
  \/ ~NoneDangles(file, sel) \/ MissingImports(file) # {}

\* Refused although no harm would be done: a bare ~ that no chain would be put before, a
\* type of the file's own, and an import of a graft that is not active any more.
Cautious(file, sel) ==
  \/ /\ BareTildes(file) # {}
     /\ \/ SelectSeq(sel, HasPeek) = << >>
        \/ CloseAfter(file.body, MarkerAt(file.body, "peek")) < SwitchAt(file.body)
  \/ LocalTypes \cap Range(NamesOf(file.cause, "ref")) # {}
  \/ /\ MissingImports(file) # {}
     /\ \E l \in Range(file.cause) : l.of \notin Range(sel) \cup {Own}

\* Without an override what is refused would be broken, or is one of three cautious cases.
RefusedForCause ==
  run.verdict = "refused" /\ toml_lint = << >> /\ run.cli = << >> =>
    Broken(ComposedFile(app_hoon, run.sel), run.sel) \/ Cautious(app_hoon, run.sel)

\* Where lint finds no error, inject of all there is in the library is not refused, as
\* long as collisions are errors (internal-dupes would then find them in what is composed).
LintForetells ==
  run.verdict = "clean" /\ Enforced("collision") =>
    Errors(InjectFinds(app_hoon, run.sel), toml_lint, run.cli) = {}

\* The gate decides well both ways: what it lets through is in order, what it refuses has
\* a cause, and the lint command tells beforehand.
LintsDecide == WrittenStands /\ RefusedForCause /\ LintForetells

=============================================================================
