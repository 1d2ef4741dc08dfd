-------------------------------- MODULE Gates --------------------------------
(***************************************************************************)
(* The verify gate of the settle graft and those who meet it: the manifest *)
(* that selects it, graft-inject, which composes the kernel with it, the   *)
(* hull, which reads the manifest at boot to pick the builder of its       *)
(* payloads, and clients that build payloads with the SDK.                 *)
(*                                                                         *)
(* Data abstracted: a payload is told by its shape.  (Two nouns have two   *)
(* shapes, and are left out: a range whose upper end is a loobean reads as *)
(* a node of a proof, and [0 0] as no field or as element 0 and no proof.) *)
(* A signature is its key and the atom it was made over.  Roots are        *)
(* registered, and notes new: SettleGraft has the other checks of          *)
(* %settle-note.                                                           *)
(***************************************************************************)
EXTENDS MerkleTree

CONSTANTS
  FieldLists,   \* what clients commit to by /commit, lists of [key, value]
  KeyCommits,   \* keys and ranges that are committed to by the SDK, lists of chunks
  Colon,        \* the byte between key and value in a leaf
  GateTables,   \* [graft.gates] tables that a manifest may hold
  NoneSet,      \* a field of the table that is not there
  Attestations, \* signatures there are: [by, over], a key and an atom
  Ranges        \* <<value, lo, hi>> that clients ask about

ASSUME GatesAssumption ==
  /\ FieldLists \subseteq Seq([key : Bytes, value : Bytes]) \ {<< >>}
  /\ KeyCommits \subseteq Seq(Bytes) \ {<< >>}
  /\ Colon \in 0 .. 255
  /\ Ranges \subseteq Nat \X Nat \X Nat

VARIABLES
  selection,    \* [graft.gates] of the manifest in hoon/lib
  kernelGates,  \* gates of the kernel that runs, all of which must agree; none: default
  builder,      \* settle_builder of AppState
  fields,       \* fields of AppState
  committed,    \* the chunks under the registered root
  told          \* the last request, and how it was answered

gateVars == <<selection, kernelGates, builder, fields, committed, told>>

NothingTold == [answer |-> "none"]
TIER_1A_GATES ==
  { "sig-verify-ed25519", "sig-verify-schnorr", "manifest-verify", "set-membership-verify",
    "bounded-value-verify" }

-----------------------------------------------------------------------------
(* Payloads and gates *)

field_to_leaf_bytes(field) == field.key \o <<Colon>> \o field.value

\* jam of [value lo hi]: no two are one atom.
Jam(range) == range \o <<1>>

AtomPayload(bytes) == [shape |-> "atom", bytes |-> bytes]
MemberPayload(elem, path) == [shape |-> "member", elem |-> elem, proof |-> path]
SignedPayload(bytes, sig, pubkey) ==
  [shape |-> "signed", bytes |-> bytes, sig |-> sig, pubkey |-> pubkey]
BoundedPayload(range, path) == [shape |-> "bounded", range |-> range, proof |-> path]
ManifestPayload(values, paths) == [shape |-> "manifest", values |-> values, proofs |-> paths]

Proves(chunk, path, root) == verify_chunk([chunk |-> chunk, proof |-> path, root |-> root])

hash_gate(p, root) ==
  IF p.shape # "atom" THEN "crash" ELSE IF hash_leaf(p.bytes) = root THEN "yes" ELSE "no"

SignatureGate(p, root) ==
  /\ p.shape = "signed"
  /\ hash_leaf(p.pubkey) = root
  /\ p.sig = [by |-> p.pubkey, over |-> Atom(p.bytes)]

\* Wrong variant of manifest_verify: it stops at the end of the shorter list.
ManifestVerifyZipped(p, root) ==
  /\ p.shape = "manifest"
  /\ \A i \in DOMAIN p.values \cap DOMAIN p.proofs : Proves(p.values[i], p.proofs[i], root)

manifest_verify(p, root) ==
  /\ p.shape = "manifest"
  /\ Len(p.values) = Len(p.proofs)
  /\ \A i \in DOMAIN p.values : Proves(p.values[i], p.proofs[i], root)

set_membership_verify(p, root) == p.shape = "member" /\ Proves(p.elem, p.proof, root)

bounded_value_verify(p, root) ==
  /\ p.shape = "bounded"
  /\ p.range[2] <= p.range[1] /\ p.range[1] <= p.range[3]
  /\ Proves(Jam(p.range), p.proof, root)

CatalogGate(gate, p, root) ==
  \/ gate \in {"sig-verify-ed25519", "sig-verify-schnorr"} /\ SignatureGate(p, root)
  \/ gate = "manifest-verify" /\ manifest_verify(p, root)
  \/ gate = "set-membership-verify" /\ set_membership_verify(p, root)
  \/ gate = "bounded-value-verify" /\ bounded_value_verify(p, root)

\* What the kernel answers to a payload under a root.
GateVerdict(p, root) ==
  IF kernelGates = {} THEN hash_gate(p, root)
  ELSE IF \A gate \in kernelGates : CatalogGate(gate, p, root) THEN "yes" ELSE "no"

-----------------------------------------------------------------------------
(* The manifest, graft-inject and the boot of a hull *)

\* What graft-inject refuses to compose.
SelectionRefused(sel) ==
  \/ sel.gate # NoneSet /\ sel.chain # NoneSet
  \/ sel.gate \notin TIER_1A_GATES \cup {NoneSet}
  \/ sel.chain # NoneSet /\ (sel.chain = <<>> \/ ~(Range(sel.chain) \subseteq TIER_1A_GATES))

apply_gate_selection(sel) ==
  CASE sel.gate # NoneSet -> {sel.gate}
    [] sel.gate = NoneSet /\ sel.chain # NoneSet -> Range(sel.chain)
    [] OTHER -> {}

\* ManifestSummary: the names of a longer chain are joined to one.
SummaryGate(sel) ==
  CASE sel.gate # NoneSet -> sel.gate
    [] sel.gate = NoneSet /\ sel.chain \notin {NoneSet, <<>>} ->
         IF Len(sel.chain) = 1 THEN sel.chain[1] ELSE "joined"
    [] OTHER -> "default-hash"

payload_builder_for_gate(name) ==
  IF name = "manifest-verify" THEN "manifest-verify" ELSE "default-hash"

SelectGate(sel) ==
  /\ told = NothingTold
  /\ selection' = sel
  /\ UNCHANGED <<kernelGates, builder, fields, committed, told>>

\* The kernel is composed, compiled and started from nothing, with its hull.
ComposeAndBoot ==
  /\ told = NothingTold
  /\ ~SelectionRefused(selection)
  /\ kernelGates' = apply_gate_selection(selection)
  /\ builder' = payload_builder_for_gate(SummaryGate(selection))
  /\ fields' = <<>> /\ committed' = <<>>
  /\ UNCHANGED <<selection, told>>

\* The hull alone starts again: it reads the manifest of now.
Reboot ==
  /\ told = NothingTold
  /\ builder' = payload_builder_for_gate(SummaryGate(selection))
  /\ fields' = <<>>
  /\ UNCHANGED <<selection, kernelGates, committed, told>>

-----------------------------------------------------------------------------
(* /commit, /settle and /verify of the hull *)

LeavesOf(list) == [i \in DOMAIN list |-> field_to_leaf_bytes(list[i])]
CommittedTrees ==
  [d \in {LeavesOf(list) : list \in FieldLists} \cup KeyCommits |-> build(d)]
CommittedTree == CommittedTrees[committed]

\* As for the trees of Mint.
ASSUME CommittedDepth == \A d \in DOMAIN CommittedTrees : Len(CommittedTrees[d]) - 1 <= DepthCap

CommittedRoot == RootOf(CommittedTree)

Commit(list) ==
  /\ told = NothingTold /\ committed = <<>>
  /\ fields' = list /\ committed' = LeavesOf(list)
  /\ UNCHANGED <<selection, kernelGates, builder, told>>

Says(request, answer) ==
  /\ told' = [request |-> request, answer |-> answer]
  /\ UNCHANGED <<selection, kernelGates, builder, fields, committed>>

\* A settle request of the hull, or of a client of the kernel.
Pokes(request, payload) ==
  /\ told = NothingTold /\ committed # <<>>
  /\ Says(request, GateVerdict(payload, CommittedRoot))

\* Where a field is in the list that was committed.
Position(field) == { i \in DOMAIN fields : fields[i] = field }

ProofAt(field) == proof(CommittedTree, Min(Position(field)) - 1)

\* DefaultHashPayloadBuilder: the first field, or what the body has.
SettleDefault ==
  /\ builder = "default-hash" /\ fields # <<>>
  /\ Pokes([route |-> "default", named |-> <<fields[1]>>],
           AtomPayload(field_to_leaf_bytes(fields[1])))

SettleData(bytes) ==
  /\ builder = "default-hash" /\ fields # <<>>
  /\ Pokes([route |-> "data", bytes |-> bytes], AtomPayload(bytes))

\* ManifestVerifyPayloadBuilder: the fields the body names.
SettleManifest(named) ==
  /\ builder = "manifest-verify" /\ fields # <<>>
  /\ named # <<>> /\ \A i \in DOMAIN named : Position(named[i]) # {}
  /\ Pokes([route |-> "fields", named |-> named],
           ManifestPayload(LeavesOf(named), [i \in DOMAIN named |-> ProofAt(named[i])]))

SettleBadRequest(named) ==
  /\ told = NothingTold /\ builder = "manifest-verify"
  /\ fields = <<>> \/ named = <<>> \/ \E i \in DOMAIN named : Position(named[i]) = {}
  /\ Says([route |-> "fields", named |-> named], "bad-request")

verify_handler(field) ==
  /\ told = NothingTold /\ fields # <<>>
  /\ Says([route |-> "verify", named |-> <<field>>],
          IF Position(field) # {} /\ verify_proof([chunk |-> field_to_leaf_bytes(field),
                                                   proof |-> ProofAt(field), root |-> CommittedRoot])
          THEN "valid" ELSE "invalid")

-----------------------------------------------------------------------------
(* Clients of the kernel, and the specification *)

CommitKeys(chunks) ==
  /\ told = NothingTold /\ committed = <<>>
  /\ committed' = chunks
  /\ UNCHANGED <<selection, kernelGates, builder, fields, told>>

\* Proofs a client has: those of what is committed to.
Paths == { proof(CommittedTree, i - 1) : i \in DOMAIN committed }
CommittedChunks == UNION { Range(d) : d \in DOMAIN CommittedTrees }
ClientLists(S) == UNION { [1..n -> S] : n \in 0..2 }

ClientPayloads ==
  { AtomPayload(c) : c \in CommittedChunks }
  \cup { MemberPayload(c, path) : c \in CommittedChunks, path \in Paths }
  \cup { SignedPayload(c, sig, c2) : c, c2 \in CommittedChunks, sig \in Attestations }
  \cup { BoundedPayload(range, path) : range \in Ranges, path \in Paths }
  \cup { ManifestPayload(values, paths) :
           values \in ClientLists(CommittedChunks), paths \in ClientLists(Paths) }

SettleDirectly(p) == Pokes([route |-> "sdk", payload |-> p], p)

Understood == told # NothingTold /\ told' = NothingTold
              /\ UNCHANGED <<selection, kernelGates, builder, fields, committed>>

AllFields == UNION { Range(list) : list \in FieldLists }

GatesInit ==
  /\ selection = [gate |-> NoneSet, chain |-> NoneSet]
  /\ kernelGates = {} /\ builder = "default-hash"
  /\ fields = <<>> /\ committed = <<>>
  /\ told = NothingTold

GatesNext ==
  \/ \E sel \in GateTables : SelectGate(sel)
  \/ ComposeAndBoot \/ Reboot
  \/ \E list \in FieldLists : Commit(list)
  \/ \E chunks \in KeyCommits : CommitKeys(chunks)
  \/ SettleDefault
  \/ \E c \in CommittedChunks : SettleData(c)
  \/ \E named \in ClientLists(AllFields) : SettleManifest(named) \/ SettleBadRequest(named)
  \/ \E field \in AllFields : verify_handler(field)
  \/ committed # <<>> /\ \E p \in ClientPayloads : SettleDirectly(p)
  \/ Understood

GatesSpec == GatesInit /\ [][GatesNext]_gateVars

-----------------------------------------------------------------------------
(* Properties *)

IsCommitted(bytes) == \E i \in DOMAIN committed : Atom(committed[i]) = Atom(bytes)

\* What a gate accepts from anybody is bound to the root: each value of it was
\* committed to, a range holds its value, a signature is of the committed key, and
\* a manifest has a proof for each of its fields (vesl-gates.hoon, "Binding").
AcceptedIsBound ==
  told.answer = "yes" /\ told.request.route = "sdk" =>
    LET p == told.request.payload IN
      /\ p.shape = "atom" => Len(committed) = 1 /\ IsCommitted(p.bytes)
      /\ p.shape = "member" => IsCommitted(p.elem)
      /\ p.shape = "signed" =>
           /\ Len(committed) = 1 /\ IsCommitted(p.pubkey)
           /\ [by |-> p.pubkey, over |-> Atom(p.bytes)] \in Attestations
      /\ p.shape = "bounded" =>
           IsCommitted(Jam(p.range)) /\ p.range[1] \in p.range[2]..p.range[3]
      /\ p.shape = "manifest" => \A i \in DOMAIN p.values : IsCommitted(p.values[i])

\* Through the hull, only fields that were committed, key and value, are settled or
\* called valid, though two of them may have one leaf; and where the manifest is that
\* of the kernel, the gate accepts whatever the builder built of them, the default
\* gate if there is just one.
HullSettlesFields ==
  told # NothingTold /\ told.request.route \in {"default", "fields", "verify"} =>
    LET named == told.request.named
        known == \A i \in DOMAIN named : named[i] \in Range(fields) IN
      /\ told.answer \in {"yes", "valid"} => known /\ named # <<>>
      /\ told.request.route = "verify" /\ known => told.answer = "valid"
      /\ told.request.route = "fields" /\ known /\ named # <<>>
           /\ kernelGates = {"manifest-verify"} => told.answer = "yes"
      /\ told.request.route = "default" /\ kernelGates = {} /\ Len(fields) = 1 =>
           told.answer = "yes"

\* The gates as clients meet them: by hand and through the hull.
GatesBind == AcceptedIsBound /\ HullSettlesFields

=============================================================================
