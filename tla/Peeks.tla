-------------------------------- MODULE Peeks --------------------------------
(***************************************************************************)
(* What a driver reads of the grafts' state: the peek arm of each graft,   *)
(* the chain of them that graft-inject puts in the kernel's ++peek, and    *)
(* the decoders of vesl-core (peek.rs), which know nothing of the noun but *)
(* its layers of units; and the permission check of a hull, built on them. *)
(*                                                                         *)
(* Data abstracted: a map or a set is read by its items, since the order   *)
(* of its treap is left out; bytes are the atom they stand for.            *)
(***************************************************************************)
EXTENDS LoadOverlay, FiniteSets

CONSTANTS
  Asked,    \* the atoms that paths ask for
  U64Cap    \* 2^64

-----------------------------------------------------------------------------
(* Molds: what a noun is of (Fits of LoadOverlay) and what it is by default.   *)
(* The order of the treap of a map is left out, so that a mold of a map asks   *)
(* for its shape alone.                                                        *)

AtomMold == [kind |-> "atom"]
AnyMold == [kind |-> "any"]
PairMold(p, q) == [kind |-> "pair", left |-> p, right |-> q]
ListMold(of) == [kind |-> "list", of |-> of]
SetMold(of) == [kind |-> "tree", of |-> of]
MapMold(key, value) == SetMold(PairMold(key, value))

RECURSIVE Molds(_, _)
\* ;;(mold noun) does not crash.
Molds(mold, x) ==
  CASE mold.kind = "any"  -> TRUE
    [] mold.kind = "atom" -> IsAtom(x)
    [] mold.kind = "pair" -> ~IsAtom(x) /\ Molds(mold.left, x.head) /\ Molds(mold.right, x.tail)
    [] mold.kind = "list" ->
         IF IsAtom(x) THEN x = Null ELSE Molds(mold.of, x.head) /\ Molds(mold, x.tail)
    [] mold.kind = "tree" ->
         IF IsAtom(x) THEN x = Null
         ELSE /\ Molds(mold.of, x.head) /\ ~IsAtom(x.tail)
              /\ Molds(mold, x.tail.head) /\ Molds(mold, x.tail.tail)

RECURSIVE Bunt(_)
\* The default of a type.
Bunt(mold) == IF mold.kind = "pair" THEN Cell(Bunt(mold.left), Bunt(mold.right)) ELSE Null

-----------------------------------------------------------------------------
(* The state types of the grafts *)

settle_state ==
  PairMold(AtomMold, PairMold(MapMold(AtomMold, AtomMold),
           PairMold(SetMold(AtomMold), PairMold(AtomMold, SetMold(AtomMold)))))
mint_state == MapMold(AtomMold, AtomMold)
guard_state == MapMold(AtomMold, AtomMold)
kv_state == MapMold(AtomMold, AtomMold)
counter_state == MapMold(AtomMold, AtomMold)
queue_state == PairMold(ListMold(PairMold(AtomMold, AnyMold)), AtomMold)
rbac_state == MapMold(AtomMold, SetMold(AtomMold))
registry_state == MapMold(AtomMold, AnyMold)
validate_state == MapMold(AtomMold, ListMold(PairMold(AtomMold, AtomMold)))
log_state == PairMold(ListMold(PairMold(AtomMold, PairMold(AtomMold, AnyMold))), AtomMold)
clock_state == AtomMold
batch_state == PairMold(ListMold(AnyMold), PairMold(AtomMold, AtomMold))

StateMold ==
  [settle |-> settle_state, mint |-> mint_state, guard |-> guard_state, kv |-> kv_state,
   counter |-> counter_state, queue |-> queue_state, rbac |-> rbac_state,
   registry |-> registry_state, validate |-> validate_state, log |-> log_state,
   clock |-> clock_state, batch |-> batch_state]

GraftFits(g, x) == Molds(StateMold[g], x)
GraftDefault(g) == Bunt(StateMold[g])

-----------------------------------------------------------------------------
(* Nouns read by the arms *)

Unit(x) == Cell(Null, x)
Loobean(b) == IF b THEN AtomNoun(0) ELSE AtomNoun(1)

\* ``x: the envelope of what an arm answers.
Answer(x) == Unit(Unit(x))

RECURSIVE Items(_), Listed(_)
\* What a map or a set holds, and a list.
Items(x) == IF IsAtom(x) THEN {} ELSE {x.head} \cup Items(x.tail.head) \cup Items(x.tail.tail)
Listed(x) == IF IsAtom(x) THEN << >> ELSE <<x.head>> \o Listed(x.tail)

Binds(map, key) == \E e \in Items(map) : e.head = key
Bound(map, key) == (CHOOSE e \in Items(map) : e.head = key).tail
GetBy(map, key) == IF Binds(map, key) THEN Unit(Bound(map, key)) ELSE Null
HasIn(set, x) == x \in Items(set)
Lent(list) == AtomNoun(Len(Listed(list)))
Held(roles, pubkey) == IF Binds(roles, pubkey) THEN Bound(roles, pubkey) ELSE Null

\* The state of settle: [epoch registered settled settle-count prior-settled].
Registered(x) == x.tail.head
Settled(x) == x.tail.tail.head
SettleCount(x) == x.tail.tail.tail.head
PriorSettled(x) == x.tail.tail.tail.tail

-----------------------------------------------------------------------------
(* Paths, arms and the chain *)

build_keyless_peek_path(tag) == <<tag>>
build_keyed_peek_path(tag, key) == <<tag, key>>
build_rbac_has_perm_peek_path(pubkey, perm) == <<"rbac-has-perm", pubkey, perm>>

\* The tag of the paths that look a key up in the map of a graft, and of those that
\* tell a count.
KeyedTag ==
  [settle |-> "settle-root", mint |-> "mint-commit", guard |-> "guard-root", kv |-> "kv-value",
   counter |-> "counter-value", registry |-> "registry-entry", validate |-> "validate-rules"]
CountTags ==
  [settle |-> {"settle-epoch", "settle-count"}, queue |-> {"queue-len"}, log |-> {"log-len"},
   clock |-> {"clock-now"}, batch |-> {"batch-pending-len", "batch-threshold"}]

MapOf(g, x) == IF g = "settle" THEN Registered(x) ELSE x

Count(tag, x) ==
  CASE tag \in {"queue-len", "log-len", "batch-pending-len"} -> Lent(x.head)
    [] tag = "batch-threshold" -> x.tail.tail
    [] tag = "clock-now" -> x
    [] tag = "settle-epoch" -> x.head
    [] tag = "settle-count" -> SettleCount(x)

IsKeyed(g, path) == Len(path) = 2 /\ g \in DOMAIN KeyedTag /\ path[1] = KeyedTag[g]
IsCount(g, path) == Len(path) = 1 /\ g \in DOMAIN CountTags /\ path[1] \in CountTags[g]

Entries(x, seq) == SelectSeq(Listed(x.head), LAMBDA entry : entry.head = seq)
Scag(list, n) == SubSeq(list, 1, IF n < Len(list) THEN n ELSE Len(list))

RECURSIVE AsList(_)
AsList(items) == IF items = << >> THEN Null ELSE Cell(items[1], AsList(Tail(items)))

\* Wrong variant of RbacPeek: the loobean is not put in a unit.
RbacPeekBare(x, path) ==
  IF path[1] = "rbac-has-perm" THEN Answer(Loobean(HasIn(Held(x, path[2]), path[3])))
  ELSE Answer(Unit(AtomNoun(Cardinality(Items(Held(x, path[2]))))))

RbacPeek(x, path) ==
  IF path[1] = "rbac-has-perm" THEN Answer(Unit(Loobean(HasIn(Held(x, path[2]), path[3]))))
  ELSE Answer(Unit(AtomNoun(Cardinality(Items(Held(x, path[2]))))))

SettlePeek(x, path) ==
  IF path[1] = "settle-registered" THEN Answer(Loobean(Binds(Registered(x), path[2])))
  ELSE Answer(Loobean(HasIn(Settled(x), path[2]) \/ HasIn(PriorSettled(x), path[2])))

LogPeek(x, path) ==
  IF path[1] = "log-tail" THEN Answer(Unit(AsList(Scag(Listed(x.head), path[2].atom))))
  ELSE LET found == Entries(x, path[2]) IN Answer(IF found = << >> THEN Null ELSE Unit(found[1]))

\* The peek arm of a graft: ~ to a path of another.
GraftPeek(g, x, path) ==
  CASE IsKeyed(g, path) -> Answer(GetBy(MapOf(g, x), path[2]))
    [] IsCount(g, path) ->
         Answer(IF g = "settle" THEN Count(path[1], x) ELSE Unit(Count(path[1], x)))
    [] g = "settle" /\ path[1] \in {"settle-registered", "settle-noted"} -> SettlePeek(x, path)
    [] g = "rbac" /\ path[1] \in {"rbac-perm-count", "rbac-has-perm"} -> RbacPeek(x, path)
    [] g = "log" /\ path[1] \in {"log-tail", "log-by-seq"} -> LogPeek(x, path)
    [] OTHER -> Null

RECURSIVE emit_peek_chain(_, _)
\* The first arm that does not answer ~.
emit_peek_chain(i, path) ==
  IF i > Len(composed) THEN Null
  ELSE LET res == GraftPeek(composed[i], graftNouns[i], path) IN
         IF res # Null THEN res ELSE emit_peek_chain(i + 1, path)

peek(path) == emit_peek_chain(1, path)

-----------------------------------------------------------------------------
(* Decoders *)

PeekError(kind) == [error |-> kind]

\* Two layers off, whatever their heads.
strip_triple_unit_envelope(x) ==
  IF IsAtom(x) \/ IsAtom(x.tail) THEN None ELSE Some(x.tail.tail)

unwrap_triple_unit_atom(x) ==
  LET inner == strip_triple_unit_envelope(x) IN
  CASE inner = None -> None
    [] inner # None /\ IsAtom(inner.is) ->
         IF inner.is = Null THEN None ELSE Some(inner.is.atom)
    [] inner # None /\ ~IsAtom(inner.is) ->
         IF IsAtom(inner.is.tail) THEN Some(inner.is.tail.atom) ELSE None

peek_loobean(x) ==
  LET inner == strip_triple_unit_envelope(x) IN
  IF /\ inner # None /\ ~IsAtom(inner.is)
     /\ inner.is.tail \in {Loobean(TRUE), Loobean(FALSE)}
  THEN Some(inner.is.tail = Loobean(TRUE))
  ELSE None

Word(x) == IF x.atom < U64Cap THEN Some(x.atom) ELSE None

RECURSIVE peek_atom_u64(_)
peek_atom_u64(x) ==
  CASE IsAtom(x) -> Word(x)
    [] ~IsAtom(x) /\ x.head = Null -> peek_atom_u64(x.tail)
    [] OTHER -> None

RECURSIVE peek_unit_atom_strict(_, _)
\* As many layers off as the caller names, and then a unit.
peek_unit_atom_strict(x, wraps) ==
  CASE wraps > 0 /\ (IsAtom(x) \/ x.head # Null) -> PeekError("BadWrapper")
    [] wraps > 0 /\ ~IsAtom(x) /\ x.head = Null -> peek_unit_atom_strict(x.tail, wraps - 1)
    [] wraps = 0 /\ x = Null -> None
    [] wraps = 0 /\ ~IsAtom(x) /\ x.head = Null /\ IsAtom(x.tail) -> Some(x.tail.atom)
    [] OTHER -> PeekError("BadUnit")

peek_atom_u64_strict(x, wraps) ==
  LET found == peek_unit_atom_strict(x, wraps) IN
    IF "is" \in DOMAIN found /\ found.is >= U64Cap THEN PeekError("ValueTooLarge") ELSE found

IsList(x) == Molds(ListMold(AnyMold), x)

peek_unit_list(x) ==
  LET inner == strip_triple_unit_envelope(x) IN
  CASE inner = None -> None
    [] inner # None /\ IsAtom(inner.is) -> IF inner.is = Null THEN Some(<< >>) ELSE None
    [] inner # None /\ ~IsAtom(inner.is) ->
         IF IsList(inner.is.tail) THEN Some(Listed(inner.is.tail)) ELSE None

-----------------------------------------------------------------------------
(* The permission check of a hull *)

\* NockApp::peek_handle, as GraftTestHarness describes it: the path is not known, there
\* is no value, or the value, without its envelope.
peek_handle(x) ==
  CASE IsAtom(x) -> PeekError("PeekFailed")
    [] ~IsAtom(x) /\ IsAtom(x.tail) -> None
    [] ~IsAtom(x) /\ ~IsAtom(x.tail) -> Some(x.tail.tail)

check_rbac_perm(pubkey, perm) ==
  LET outcome == peek_handle(peek(build_rbac_has_perm_peek_path(pubkey, perm))) IN
  CASE "error" \in DOMAIN outcome -> "crashed"
    [] outcome = None -> "denied"
    [] "is" \in DOMAIN outcome ->
         LET verdict == peek_loobean(outcome.is) IN
           IF verdict = None THEN "crashed" ELSE IF verdict.is THEN "accepted" ELSE "denied"

-----------------------------------------------------------------------------
(* Properties *)

Composed(g) == \E i \in DOMAIN composed : composed[i] = g
NounOf(g) == graftNouns[CHOOSE i \in DOMAIN composed : composed[i] = g]

\* What a map has at a key, if that is an atom.
AtomAt(map, key) ==
  IF Binds(map, key) /\ IsAtom(Bound(map, key)) THEN Some(Bound(map, key).atom) ELSE None

\* The same, of an atom for which anything else is a fault.
AtomOnlyAt(map, key) ==
  IF Binds(map, key) /\ ~IsAtom(Bound(map, key)) THEN PeekError("BadUnit") ELSE AtomAt(map, key)

\* The layers that an arm puts around its answer, and those that peek.rs:148-150 and
\* 201-203 give to log, rbac and validate.
Layers == 2
LayersDocumented == 3

\* A key that is absent is told from one that is bound, to 0 as well, by the strict decoder
\* and by the other: peek.rs:84-92 and 249-252 have it take a bound 0 for absent.
KeyedPeeksTell ==
  \A g \in DOMAIN KeyedTag, key \in Asked :
    LET res == peek(build_keyed_peek_path(KeyedTag[g], key)) IN
    /\ ~Composed(g) =>
         unwrap_triple_unit_atom(res) = None /\ peek_unit_list(res) = None
           /\ peek_unit_atom_strict(res, Layers) = PeekError("BadWrapper")
    /\ Composed(g) /\ g # "validate" =>
         LET map == MapOf(g, NounOf(g))
             held == AtomOnlyAt(map, key) IN
         /\ unwrap_triple_unit_atom(res) = AtomAt(map, key)
         /\ peek_unit_atom_strict(res, Layers) = held
         /\ peek_atom_u64_strict(res, Layers) =
              IF "is" \in DOMAIN held /\ held.is >= U64Cap THEN PeekError("ValueTooLarge") ELSE held
    /\ Composed(g) /\ g = "validate" =>
         peek_unit_list(res) =
           Some(IF Binds(NounOf(g), key) THEN Listed(Bound(NounOf(g), key)) ELSE << >>)

\* That a 0 is taken for absent is true of the arms that answer no unit, those of settle's
\* loobeans: a hull that is registered reads as None, by peek_loobean too.
SettlePeeksTell ==
  Composed("settle") =>
    \A hull \in Asked :
      LET x == NounOf("settle")
          registered == peek(build_keyed_peek_path("settle-registered", hull))
          noted == peek(build_keyed_peek_path("settle-noted", hull)) IN
      /\ peek_atom_u64(registered) = Some(Loobean(Binds(Registered(x), hull)).atom)
      /\ peek_atom_u64(noted) =
           Some(Loobean(HasIn(Settled(x), hull) \/ HasIn(PriorSettled(x), hull)).atom)
      /\ unwrap_triple_unit_atom(registered) =
           IF Binds(Registered(x), hull) THEN None ELSE Some(Loobean(FALSE).atom)
      /\ peek_loobean(registered) = None /\ peek_loobean(noted) = None

\* What a strict decoder makes of a count with the layers of the document: 0 is taken
\* for absent, and any other count is refused.
TooManyLayers(res, n) ==
  peek_atom_u64_strict(res, LayersDocumented) = IF n = 0 THEN None ELSE PeekError("BadUnit")

CountPeeksTell ==
  \A g \in DOMAIN CountTags : \A tag \in CountTags[g] :
    Composed(g) =>
      LET res == peek(build_keyless_peek_path(tag))
          count == Count(tag, NounOf(g)) IN
      /\ peek_atom_u64(res) = Word(count)
      /\ g # "settle" => peek_unit_atom_strict(res, Layers) = Some(count.atom)
      /\ g = "log" => TooManyLayers(res, count.atom)

\* An absent permission is told from one held, though %.y, 0 and ~ are one atom.
RbacPeeksTell ==
  Composed("rbac") =>
    \A pubkey, perm \in Asked :
      LET held == Items(Held(NounOf("rbac"), pubkey))
          count == peek(build_keyed_peek_path("rbac-perm-count", pubkey)) IN
      /\ peek_loobean(peek(build_rbac_has_perm_peek_path(pubkey, perm))) = Some(perm \in held)
      /\ peek_atom_u64_strict(count, Layers) = Some(Cardinality(held))
      /\ TooManyLayers(count, Cardinality(held))

\* All of a list that is short.
LogPeeksTell ==
  Composed("log") =>
    \A n \in Asked :
      peek_unit_list(peek(build_keyed_peek_path("log-tail", n))) =
        Some(Scag(Listed(NounOf("log").head), n.atom))

\* Whatever grafts stand before it in the chain, and of a graft that is not composed: what
\* decoding a peek tells a driver is what the graft holds, where the decoder counts the
\* layers and units of the arm, and where it counts those of peek.rs, what it mistakes.
PeeksTell ==
  KeyedPeeksTell /\ SettlePeeksTell /\ CountPeeksTell /\ RbacPeeksTell /\ LogPeeksTell

\* rbac.rs:51-56: the check is Accepted when the peek returns %.y.  So whom the graft
\* has granted a permission is let pass.
RbacCheckDecides ==
  Composed("rbac") =>
    \A pubkey, perm \in Asked :
      HasIn(Held(NounOf("rbac"), pubkey), perm) => check_rbac_perm(pubkey, perm) = "accepted"

=============================================================================
