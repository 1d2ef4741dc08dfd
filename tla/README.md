# Verification of vesl-nockup

TLA+ models of the stateful parts of this repository, TLC runs on small
instances, and TLAPS proofs of the properties that matter most.
`PROJECT.json` holds the manifest: components, runs, mutants, the map from
definitions to source lines, findings, hazards and theorems.

    tlc -workers 2 -config MCHull.cfg MCHull      # one run
    tlapm HullProofs.tla                          # one proof module

## 1. The system

A *graft* is a Hoon library that adds one state fragment and some pokes to a
NockApp kernel. A poke is atomic: it computes `[effects new-state]`, and the
kernel swaps the new state in or, if the computation crashes, keeps the old one.
A *hull* is a Rust process that boots such a kernel and serves it over HTTP. The
SDK (`vesl-core`) builds pokes, transactions and spend locks; `graft-inject`
composes grafts into a kernel source; `vesl-test` drives a kernel by hand.

| component | state | operations | what is hard | modelled |
|---|---|---|---|---|
| settle-graft | epoch, roots, settled and prior-settled ids, count | register, note, verify | replay protection across rotation; one-shot roots | `SettleGraft` |
| hull | local tree, note counter and its file, one mutex over them and the kernel | /commit, /settle | late pokes, dropped handlers, restarts, peeks without a timer | `Hull`; payloads and /verify in `Gates` |
| hull configuration | none: flags, environment, vesl.toml | resolve at boot | four sources of a key; defaults that pick the mode | `SettlementConfig` |
| SIWN replay cache | first-seen time of each message | verify (sweep, look up, insert) | two locks per call, one cache for many windows | `SiwnReplay` |
| queue, batch, log | pending jobs, ids, threshold, retention | push/pop/clear; init/add/flush; append | ids across clears, threshold against cap | `QueueGraft`, `BatchGraft`, `LogGraft` |
| rbac | key to set of perms | grant, revoke | two caps, auto-clear of empty rows | `RbacGraft` |
| kv, registry, counter | one table each | set/delete; put/update/del; increment/set/reset | caps on new keys only, the 2^64 bound | `KvGraft`, `RegistryGraft`, `CounterGraft` |
| mint, guard | hull to root | commit; register, check | roots are given once | `RootGrafts` |
| validate, clock | rules by cause tag; a tick | init, clear, the prelude; tick | rules on the tags of the graft itself | `ValidateGraft` |
| domain patterns | none of its own | audit-write: a store, then the log | one half refuses and the other does not | `AuditedWrites` |
| SDK settlement | roots, ids seen, queue of ids | register, settle | set and queue evicted together | `SdkSettle` |
| SDK locks (job, check, bond) | none: branches of a lock | who may spend, and when | time windows that meet and do not overlap | `EscrowLocks` |
| SDK spends | none: proof, witness, fee | price, sign, build a witness | two forms of proof, before and after bythos; what consensus drops without a word | `BranchSpends` |
| SDK payments | none: seeds with pins | build, pin, sign | pins per spend, groups per transaction | `OutputPins` |
| Merkle trees and proofs | Mint's tree, Guard's roots | commit, prove, check | odd levels, two implementations of a check | `MerkleTree` |
| verify gates and who meets them | the manifest's choice, the kernel's gates, the hull's builder and fields | select, compose, boot; commit, settle, verify | three readers of one choice at three times; fields with one leaf | `Gates` |
| checkpoint | state.jam, meta.toml | snapshot, resume | a crash between two writes | `Checkpoint` |
| graft-inject | kernel source, manifests | inject, update | old blocks, hand edits, changed manifests | `GraftInject` |
| lints of graft-inject | kernel source, nockapp.toml | lint, and the gate of inject | five scans that each leave something to the others; a policy that turns them off | `Lints` |
| ++load of a composed kernel | the saved noun | resume into a kernel of other grafts | fields found by their place in another layout | `LoadOverlay` |
| peeks and their decoders | none: the grafts' nouns | peek, decode, RBAC check | layers of units, where ~, 0 and %.y are one atom | `Peeks` |
| rename-kernel | file, nockapp.toml, README | rename | three writes, each of which may be the last | `RenameKernel` |
| chain client | one deadline; half of an answer | submit and wait; receipts and balances, note data | deadline against interval, late inclusion; a node that moves on between two calls | `ChainClient` |
| watch REPL | numbered rows, a broadcast channel | poke, peek, drain, quit | effects that come late, a kernel that dies | `Watch` |
| Schnorr signatures | none | sign, encode, decode, verify | wrapping arithmetic; three readers with code of their own | `Cheetah`, `Signatures` |
| wallet keys | the master key | derive a path | retries in one level of two; the chain derives alike | `WalletKeys` |
| forge, intent, prover, lowering, templates, vendored Hoon | none | pure functions, or a dispatch | | see section 6 |

How they interact: a client calls the hull; the hull's handler takes the mutex,
perhaps peeks rbac-graft, pokes the kernel through a FIFO inbox, reads the first
effect of the answer, and updates its own tree or counter. The kernel's state is
persisted by NockApp, the counter by the hull, the tree by nobody. The SDK's
checks come before a poke and are repeated by the kernel. A kernel hands one cause
to one graft, but for audit-write, which hands it to two, and the prelude of
validate-graft, which looks at each cause first.

## 2. Modules

| module | models | extends / instantiates |
|---|---|---|
| `SettlementLedger` | abstract: what settlement promises | |
| `SettleGraft` | settle-graft, one action per cause and outcome | refines `SettlementLedger` |
| `Hull` | /commit and /settle over the kernel | `Graft == INSTANCE SettleGraft`, on the hull's variables |
| `SiwnReplay` | verify and the replay cache | |
| `EscrowLocks` | one note under each lock of the SDK: construction, landing, signatures, spending | |
| `BranchSpends` | one spend of one branch: proof, witness and fee, and what consensus makes of them | |
| `QueueGraft`, `BatchGraft`, `LogGraft`, `RegistryGraft` | each graft, one action per cause and outcome | `JammedPayloads` |
| `RbacGraft`, `KvGraft`, `CounterGraft`, `RootGrafts` | the same, of grafts without jammed payloads | |
| `AuditedWrites` | audit-write: a store and the log in one poke | the stores and `LogGraft` |
| `ValidateGraft` | the rules, the prelude, and clock-graft behind it | |
| `MerkleTree` | trees and proofs of the Merkle library | |
| `Gates` | the gates, their selection, payload builders and clients | `MerkleTree` |
| `MCGrafts` | one of these grafts, `MerkleTree`, `Gates`, `EscrowLocks` or `BranchSpends`, at work in each behaviour | the last eight rows but `ValidateGraft` |
| `SdkSettle`, `OutputPins`, `SettlementConfig`, `ChainClient` | SDK, client and boot | |
| `Checkpoint`, `GraftInject`, `Lints`, `LoadOverlay`, `RenameKernel`, `Watch` | tools | |
| `Cheetah`, `Signatures`, `WalletKeys` | field and curve; Schnorr and its readers; key derivation | each the one before |
| `Peeks` | the grafts' state types as molds, peek arms and the chain of them, decoders, the RBAC check | `LoadOverlay` |
| `MCTools` | one of these tools, `SiwnReplay` or `ValidateGraft`, at work in each behaviour | the last four rows, and those two |
| `SettleGraftProofs`, `HullProofs` | proofs about the module named | |
| `GraftProofs` | queue, batch, log, RBAC | |
| `StoreProofs` | counter, mint and guard, registry, audited writes | |
| `ToolProofs` | chain client, checkpoint, SDK cache, rename-kernel, configuration, SIWN replay cache, watch REPL, graft-inject, `++load` | |
| `GatesProofs` | Merkle trees, gates | |
| `SpendProofs` | escrow locks, output pins, branch spends | |
| `Inductions` | lemmas: induction over sets of naturals, sums, joined and filtered lists | |
| `ListFilters` | what a filter leaves of a list | `Watch` and `GraftInject` use it |
| `MC*` | constants for TLC | the module after `MC` |

Definitions named "wrong variant" are mutants. No specification uses them: each
property of a passing run is violated when one of them takes the place of the
definition after it.

### SettleGraft and SettlementLedger

The variables are the five fields of `+$settle-state`, the tags of the last
effects, and `history`, a ghost that lists every note settled. `registered` is a
total function with `NoRoot` for an absent key. The guards of `%settle-note`
all answer `%settle-error` and are one action, `SettleNoteRefused`; a clean deny
of the gate is `SettleNoteDenied`; the success rotates iff the count is at the
cap. The gate is the constant operator `Gate`, applied to exactly what the code
passes it, with a crash (caught by `mule`) as a third verdict. The peeks read
only and are left out.

`SettlementLedger` promises, in two actions, that a hull is given at most one
root, and that a note is entered only under its hull's root and only if its id is
not among the last `Window` notes. `SettleGraft` implements it with `Window =
EpochCap + 1`. The graft keeps two sets and a count in place of the ledger, so
this is where the rotation arithmetic could go wrong. The source speaks of "~2x
`epoch-cap` lookback" (`settle-graft.hoon:43-44`, `169-170`): it is that long
only just before a rotation; what holds always is `EpochCap + 1`
(`ReplayWindow`), and `2 * EpochCap` is the most (`ReplayMemoryBounded`).
`HistorySound` joins `SetsAreHistory`, `ReplayWindow` and
`SettledUnderCommittedRoot`: what the graft remembers is its past, it settled no id
twice within the window, and each under the root of its hull.

### Hull

| model | code |
|---|---|
| `handler` | the one handler that holds the mutex, and the await it is at |
| `inbox` | requests sent to the kernel thread and not yet run |
| `tree`, `noteCounter`, `counterFile` | `AppState.tree` (by its root), `note_counter`, `.hull_note_counter` |
| `rbacEnabled` | `AppState.rbac.enabled`, chosen at each boot |
| `reply`, `reported` | class of the last answer; ghost: ids answered 200 |
| `Begin`, `RbacAdmitted`, `RbacDenied`, `KernelPeeks` | the RBAC pre-check |
| `CommitRequest/Refused/Done` | `commit.rs` |
| `SettleRequest/Refused/Drift/Done`, `DefaultId` | `settle.rs` |
| `Outcome` | `classify_effects`: the first effect decides |
| `Timeout`, `PokeFailed` | `poke_kernel_with_timeout`, `crash_to_error` |
| `KernelRuns` | the kernel thread runs the oldest poke: an action of `SettleGraft` |
| `KernelFails` | the poke or peek crashes; the old state stands |
| `ClientGone` | the HTTP server drops the future of a handler; its poke stays |
| `CrashAndBoot` | the process stops and boots again |

Between the answer of the kernel and the handler that reads it (`phase =
"answered"`) other steps may come: a drop, a crash. Once a handler has timed out,
its poke is still in the inbox and the next handler sends its own behind it.

Assumed of what is not under `src/`: the kernel thread serves its inbox in order
and persists its state before it answers; a restart loses the inbox and not the
kernel's state; axum drops a handler whose client has gone. The verdict of the
RBAC peek is nondeterministic; `Peeks` computes which verdict the kernel and decoder
of this repository give (finding 8). `RefuseEarly` covers the refusals before any poke
(bad bodies, missing header, no tree); they change nothing.

### SettlementConfig

Resolution is a function of the flags, one environment variable and vesl.toml:
`ResolvedMode`, `resolve_wallet`, `resolve_local/fakenet/dumbnet` and
`wallet_role_belts` have the names of the code. A key is the phrase and account it
is derived from; nothing rules out that a phrase derives the demo key, which
dumbnet must then refuse. A mode that does not parse is `"typo"`.

### SiwnReplay

One `call` per caller goes through `Check` (the message is in force), `Stamp`
(`Instant::now`), `Sweep` (first lock) and `Accept` or `RefuseReplay` (second
lock). Other callers and ticks come between any two. The checks of text and
signature are taken as passed: when one fails nothing changes. The wall clock
and the monotonic clock are one clock.

`AcceptedOnce` rests on two assumptions, which the configurations make explicit:
all messages have windows of one length, within the cap; and no call is under way
for more than a tick (`MaxStall`). Without the first it fails (finding 3). Without
the second it fails too, as TLC shows with a stall of 2 and windows of 3: a call that
passes the check just before its message expires, and is then held up until the
entry is swept, is accepted a second time. Nothing in the code bounds a call; what
does is that the few lines from check to stamp take far less than the clock's second.

### EscrowLocks

An order names the kind of lock, a key for each party and one or two deadlines.
`Build` is the constructor: it refuses, or gives the lock (`JobLock`,
`TicketLock` and so on: branches by name, each with its keys, threshold and
window). Then the note lands, blocks are mined, keys sign and a branch spends.

| model | code |
|---|---|
| `KeysCollide` | `refuse_same_key`, `refuse_distinct_parties`, `..._check_parties`, `..._slice_keys` |
| `OperandsRefused` | `refuse_zero_window`, `refuse_zero_height` and the `ensure!`s of each constructor |
| `From`, `Through`, `FromHeight`, `ThroughHeight` | `relative`, `absolute`; a bound of zero is dropped |
| `WindowOpen` | `branch_window_open` |
| `Sign` | `cosign`: any key, over the outputs, so without the branch |
| `Witness`, `Spend` | `build_branch_witness_from_parts`, and the chain's same checks |

A transaction is named by the branch it is meant for (`agreed`). Any key may sign it,
named by that branch or not, and it may be mined by way of any branch whose keys and
window allow it (`via`): this is what a signature that does not cover the branch makes
possible. `spend.by` are the keys whose signatures the witness shows. `LocksBind` joins
four claims:

* `WindowsMeet`: of two branches that follow each other, one is open at each height;
* `WindowsBind`: a transaction that only parties of its branch signed for is mined in
  that branch's window, by whatever way;
* `AgreedByAll`: and then all of them did. Where a platform or holder co-signs without a
  window (FAST, EXIT) the owner may later do the same alone, which is excepted;
* `SignaturesStay`: whoever else signs, a signature that a party gave for one branch is of
  use in another only if the two name a party in common, as the table `Shared` lists them.
  A stored slash signature is therefore of no use in EXIT or FALLBACK, which is why
  `bond_locks.rs:33-36` has a key for slashes alone; with the holder's own key it would be.

Somebody whom the branch does not name can break the middle two by signing too, and the
model lets everybody: a platform that signs a clean capture with its verdict key as well
makes it a claim, to be mined until `claim_by`. That it does not is policy
(`check_locks.rs:37-40`), and nothing in the code or in consensus holds it to that. Left
out: the facts written into an address, the branches that burn, and everything about the
amounts.

### BranchSpends

One note, and all that is between its holder and a transaction that consensus takes,
while the chain passes the block of bythos. `Price` finds the least fee, `AskSigHash` is
the kernel's digest of outputs and fee, `BuildBranchWitness` is
`build_branch_witness_from_parts` (any parts, any preimages, any branch, also one that is
not there) and `BuildWitness` the helper for a note of one key. `draft`, `digest` and
`attempt` are values that the caller holds; it may price again between a digest and a
witness.

| model | code |
|---|---|
| `Depth`, `Levels`, `lock_root`, `AxisOf`, `PathOf`, `lock_merkle_proof`, `verify_merk_proof` | `lock.rs` |
| `PartsRefused`, `HaxRefused`, `BranchRefused`, `WitnessOf` | `settle.rs` |
| `DataWords`, `MergedWords`, `LegacyWords`, `calculate_min_fee` | `fee.rs` |
| `Unlocks`, `Holds`, `TimHolds`, `LeafProofs`, `ChainProof` | consensus: `tx-engine-1.hoon`, `ztd/three.hoon` |
| `FeeIn`, `MergedBy` | consensus: `tx-engine.hoon`, where the data of one root are merged in the order of a set of hashes |

`ChainProof` is the proof as the chain makes it: it walks the hashable tree to a leaf by
its number, where the SDK has a formula for the axis; `LeafProofs` has the proofs of all
leaves of a tree at once, left before right. `WitnessesDecide` holds the two
against each other: what the builder gives unlocks the note at every page where the windows
of the branch are open, and what it refuses could not have been mined, but for the three
cases that `Stricter` names. One witness that is built does not unlock (`Spoilt`): of two
preimages of one hash the builder looks at the first (`settle.rs:846`). The witness is a map in the
end, filled in order by the transaction library (outside `src/`), in which the last stays: a
right preimage that a wrong one follows passes the builder. `FeeStands` says that the fee found is consensus' own.
A hash is the term that was hashed. Left out: the protocol-fund notes of
`check-multisig-lock`, saturating sums, and the shape of a value beyond its number of leaves.

### The grafts

Each module has the fields of its graft's state and ghosts of its past: the jobs
`pushed`, `popped` and `dropped`; the intents `added` and `flushed`; the entries
`logged`; the effects of the registry (`feed`); the numbers a counter `issued` and
the `base` it started from; the roots `announced` and the verdicts given
(`checked`); and `mirror`, what a client that follows only the effects of
rbac-graft believes. A payload is one of `Nouns`, or `Malformed`: an atom on which
`cue` crashes, which `mule` turns into an error (`JammedPayloads`). Lists of
permissions enter as the sets that `silt` makes of them. `HashLeaf` of `RootGrafts`
is any function: TLC is given one with a collision.

The properties relate what comes out to what went in: jobs leave in push order
and are conserved across clears (`PopsInPushOrder` and `JobsConserved`, together `QueueFaithful`); bundles and
buffer are the accepted intents (`IntentsConserved`); the log is the newest entries
without a gap (`NewestKept`); the effects tell the life of each row of rbac-graft and
record of the registry (`EffectsTellAll`, `RecordLife`); numbers that a counter gives
out go on (`IncrementsCountOn`); what mint and guard told stays true
(`ToldStaysTrue`).

`AuditedWrites` is the one place where two grafts act in one poke: each cause of a
store is conjoined with an append to the log, which happens whatever the store
answered. A store can also be poked past the log (`Bypass`). `LogTellsStores` says of
what the log is evidence: with the effects, and as long as nothing went past it and
each log body decodes, it gives the contents of the stores.

A composed kernel starts from the bunt of its state type and not from the `new-state`
of a graft, so the ids of queue-graft and the numbers of log-graft start at 0 there and at
1 in a kernel that calls `new-state`: `FirstId` and `FirstSeq` are constants, 0 in the
runs and any natural in the proofs.

`ValidateGraft` has the prelude in front of itself: a rule on `%validate-clear`
stops a clear with an empty body, which is the clear of the empty tag.
`NoLockOut` says that there is a way out all the same.

### SDK, client and boot

* `SdkSettle`: `Settle` with its guard. The cache is a set and a queue
  (`settledIds`, `settledOrder`); `accepted` is a ghost.
* `OutputPins`: `BuildCaptureSeeds` pins one spend, `PinAcross` all of them, `Cosign`
  signs outputs and pins. `Lands` is what consensus asks (external, from
  `hoon/common/tx-engine-1.hoon`). `Wrap` is a stranger who puts some of our signed
  spends into a transaction with one of its own.
* `MerkleTree`: `build`, `proof`, `verify_proof` and `verify_chunk` as functions on a
  list of chunks; a digest is the term that was hashed. `Alter` changes one thing of
  a proof, also to digests with a limb out of the field.
* `Gates`: the manifest's `[graft.gates]` is read by graft-inject when it composes the
  kernel (`apply_gate_selection`) and by the hull at each boot
  (`payload_builder_for_gate`), so the two may differ: `Reboot` without `ComposeAndBoot`.
  `SettleDefault`, `SettleData`, `SettleManifest` and `SettleBadRequest` are the payload
  builders, `verify_handler` is /verify, and `SettleDirectly` a client of the kernel with
  any payload it can make of committed chunks, proofs and signatures. Payloads are
  records with their shape; a signature is its key and the atom it covers (the arithmetic
  of ed25519 and Schnorr is left out); `Jam` of a range is injective. `GatesBind` is
  `AcceptedIsBound`, about the kernel alone, and `HullSettlesFields`, about the hull on top of it. Two fields
  may have one leaf, since the colon in it is no separator: the hull looks fields up by
  key and value and not by leaf.
* `ChainClient` is two machines. `ChainSpec` is `submit_and_wait` in ticks; an answer takes
  any time. `QuerySpec` is a node that moves on (`TxMoves`, `NotesMove`) between the two
  calls of `fetch_receipt` and the two of `get_balance_by_pkh`; each reply may fail or be
  cut short at a field the client cannot do without. `pastTx` and `pastNotes` are ghosts:
  what the node has been since the call began, which is all an answer made of two moments
  can be true of. Notes carry their data as they are sent, torn or off-field entries
  included, and `ReadsBack` says what `find_u64_entry` and `find_hash_entry` find of it.
* `Cheetah` is the arithmetic of `math/*.rs` at any width of a word: two halves of
  `HalfBits`, the prime `2^2h - 2^h + 1`, and every wrap, borrow and carry as the code has
  them; division in the extension goes through `bpegcd` as in the code. `Signatures` adds
  Tip5 over given tables, scalars, `schnorr_sign` and `schnorr_verify`, the codecs of
  `signing.rs`, and the readers of a signature: a sign-in, a spend, and the gate of the
  kernel with `verify` of `ztd/three.hoon`. `Change` is what happens to a text on its way.
  `SignaturesTell` compares with multiples of the generator made by addition alone, so the
  ladders, the field and both codecs have to be exact for it to hold.
* `WalletKeys`: `hd.rs` and `wallet.rs` beside `from-seed`, `derive-private` and
  `derive-public` of `slip10.hoon`, for seeds in place of phrases; HMAC is a constant.

### Tools

* `Checkpoint`: `snapshot` in the four steps of its two writes (each file is cut to
  nothing, then filled), failures and crashes between any two, rebuilds of the
  source meanwhile, `resume` strict or not.
* `GraftInject`: a kernel source is the list of bannered blocks under each marker,
  with the manifest version their banner and their body have. `Apply` is
  `inject --apply` (hand-edit check, placement check, prune, canonicalize, codegen);
  `emit_effect_union` and `emit_load_defaults` are the codegen.
  `UpdatePreviews`, `UpdateConfirmed` are `update` around its prompt. Developers edit
  blocks, markers, imports and manifests between runs.
* `Lints`: the lines of three stretches of app.hoon (state record, cause union, the arms
  from `++peek` on), each with its kind and the graft whose banners it is between.
  `InjectApplies` is `inject --apply`: policy, the lints on the file as it is, composition,
  internal dupes on what was composed. `LintCommand` is `lint`, which takes every manifest of
  the library. `ComposedFile` puts blocks, chain and markers line by line where `inject`
  does, because where a line ends up is what the lints are about: a chain of peeks is put
  before the last bare `~` up to the first `==`. `LintsDecide` says that what is written is in
  order and needs no second run (`WrittenStands`), that a refusal has a cause
  (`RefusedForCause`), and that `lint` tells what `inject` will do (`LintForetells`). Each part
  is under the condition that the policy in force leaves the lint it rests on an error.
  The hand-edit and placement gates are in `GraftInject`; nobody edits between banners here.
* `LoadOverlay`: nouns are trees of cells and atoms, so that what a
  kernel reads at an axis of a noun that another kernel laid out is computed and not
  assumed. `render_load_defaults_block` is the overlay of `++load`: a `Probe` for each
  field, and its default where it fails. What a graft's type holds of and what it is by
  default are the parameters `Fits` and `Default`; the runs give them the values of
  `Peeks`, where `StateMold` has the state type of each graft as a mold. The order
  that the treap of a map keeps is left out, so a mold of a map asks for its shape only;
  the properties that fail, fail with maps of equal type. Kernels with a state of their
  own beside the grafts' are left out.
* `Peeks`: for each graft its peek arm on the nouns of `LoadOverlay`, `emit_peek_chain`,
  the decoders of `peek.rs` by their names, and `check_rbac_perm`. Maps and sets are read by their items.
  `PeeksTell` says for each path what each decoder makes of what the graft holds. With the
  two layers of the arms (`Layers`) the strict decoders tell absent from bound, to 0 as
  well, and so does `unwrap_triple_unit_atom`, but for the loobeans of settle; with the
  three of the document (`LayersDocumented`) they do not. Section 4 lists where this
  contradicts the comments of `peek.rs`.
  `peek_handle` is external: it takes two layers off, as
  `test/vesl-test/src/lib.rs:153-157` describes it.
* `RenameKernel`: three writes (file, nockapp.toml, README), each of which may be the
  last of its run.
* `Watch`: `drive`, `run_poke` and `drain_effects`. Effects come from a task that the
  kernel spawns after it has acknowledged the poke, over a channel that drops the
  oldest when it is full.

The tools share no state, so `MCTools` lets one of them work in each behaviour; so
does `MCGrafts`.

## 3. Runs

| run | expects | shows |
|---|---|---|
| `settle` | pass | the graft's invariants through two rotations, and the refinement |
| `hull` | pass | tree, counter and answers under every order of failures; the mutex is released or waits for a peek |
| `hull_rotation` | violation | a rotating settle is answered 502 and not counted |
| `hull_peek` | violation | a peek under the mutex may block for ever |
| `siwn_windows` | violation | a short window sweeps a longer one's entry |
| `grafts` | pass | order, conservation, effects and caps of the grafts; Merkle proofs; what gates accept and what the hull settles through them; lock windows meet without gap or overlap, whoever signs what, a branch is completed by no signatures its parties did not mean, no note is stranded; witnesses and fees are those that consensus takes |
| `rbac_rows` | violation | a grant of nothing stores an empty row |
| `rbac_check` | violation | whoever holds a permission is answered as if the peek had failed |
| `tools` | pass | the models around the kernel, among them SIWN verification (no double acceptance, no false replay), what decoders tell of peeks, and the lints as a gate |
| `checkpoint_strict` | violation | a snapshot cut off between its files passes strict resume with another build's state |
| `inject_stale` | violation | the block of an active graft outlives its manifest's |
| `overlay_extension` | violation | a graft added to a kernel takes another's data for its state |

Bounds, and why they are enough:

* `settle`: `EpochCap = 2`, `MaxSettles = 6`, five ids, three hulls with room for
  two, two roots. Six notes make two rotations, so an id can age out of both sets
  and settle again, and the third epoch fills; five ids are as many as the two
  sets hold plus one. One of three data is approved, one denied, one crashes the
  gate. Ids are interchangeable, and hulls, and roots: symmetry is used (no
  liveness is checked in this run).
* `hull`: `MaxInbox = 2` lets an orphaned poke meet the request of the next
  handler; `MaxSettles = 3` with `EpochCap = 2` reaches one rotation; ids 1 to 4
  cover each default id. The kernel, RBAC and crashes are unbounded.
* `siwn_windows`: the instance of `tools` with windows apart: two callers, two messages,
  the second issued two ticks later, with windows of 3 and 1, and six ticks.
* `grafts`, `rbac_rows`: caps of 3 and 5 accepted jobs, intents or entries, so
  that each list fills, is emptied and fills again; thresholds from 0 to one above
  the cap; three keys and three permissions under caps of two; two keys under a cap
  of one for the stores, with five effects of the registry; three counters under a
  cap of two, where a u64 ends at 3 and callers set 1, 2, 3 and 5, so to both sides of
  the bound; three hulls under a cap of two roots, and two data with one hash; three
  audited causes. Two nouns tell entries apart. Beside these:
  * Merkle: seven lists of one to five chunks, so levels odd at the bottom, above it
    and at both; one change per claim; `DepthCap = 3` is also exceeded.
  * gates: seven `[graft.gates]` tables, among them one that is refused, an empty chain
    and a chain of two; a list of one field and one of three, two of which have one
    leaf; a committed key, and a committed range beside it; a signature by that key and
    one by another; ranges with the value inside and outside; manifests of up to two.
  * locks: four keys, as many as a lock has parties, so every collision is
    ordered (keys that are only named otherwise are not: `NamedInOrder`); deadlines from 0 to 4 over a field of 4, so that each refusal and the
    last accepted value of each are met; a note lands at height 0, 1 or 2 and each
    of its deadlines lies before the last block. One signature at most is by a key that the
    branch it is meant for does not name (`MCStrays`), and that key is in another branch: a
    spend is of one transaction and takes two signatures at most, and `LocksBind` is about
    those that take one of a party, so they hold one stray or none. The proof has no such
    bound (`SpendProofs`).
  * spends: a coinbase note of one key, and a note of four branches: two keys with a hash
    lock; a hash lock alone; one key with two hash locks and both kinds of window; one that
    burns. Three keys, up to two signatures over this digest or another, four lists of
    preimages (none, a wrong one, one that replaces another, two); bythos at the second of
    three pages; outputs with and without a key that two seeds of one root share.

  A refused order, a spent note and a full audit trail are final: they stutter.
* `tools`, and the five runs that share its instance:
  * SIWN: two callers, two messages issued two ticks apart with windows of 3, and six
    ticks: each message is issued, expires and outlives its cache entry.
  * SDK: a cache of 2, three ids, four accepted: two evictions, after which the first
    id comes again.
  * checkpoint: two builds, one directory, two snapshots into it.
  * inject: two grafts, one of which loses its imports and the other its state block
    in version 2, both importing one library; two edits between runs; files both
    fresh and with blocks of old banners.
  * lints: three grafts, of which one has the cause of another in its manifest; a cause, a
    field and a reference of the developer's own that are a graft's or nobody's; policies that
    lower three of the lints, and one with a typo; two changes between runs.
  * overlay: each kernel of one or two of the twelve grafts with state, or of three of six
    of them that have the different shapes; the default and a state or two of each, in
    which maps of atoms bind one key to 5 and another to 0. A
    resume may follow a resume, into any of these.
  * peeks: every state of the overlay, asked for the keys, permissions and lengths 0 to 3,
    where a word ends at 5: one value held is 5, and so too large, another is 0, which
    `peek.rs` has read as absent, and two keys are bound nowhere.
  * chain: an interval of 2, a time-out of 4 and a clock up to 8.
  * query: two blocks, a transaction with one output or two, notes with data in the shape the
    encoder writes, with torn or off-field entries, without data, and with an amount that is
    missing, one at each lock when the call begins; the node moves on at most twice.
  * validate: three tags with rules at most, of which two are the graft's own and one
    the clock's; four installs.
  * pins: two coins of ours worth 2 and one stranger's, two lock roots, two lines, a
    fee of at most 1: each root is paid once, twice by one coin, by two of ours, and
    by one of each.
  * watch: two commands, up to two effects each, a channel of 2: late effects cross
    into the next row, and the channel overflows; a filter of one tag of each kind.
  * rename: three kernel names, three runs.
  * signatures: half words of two bits, so p = 13; over its extension of degree six the
    curve with b = 6x has a subgroup of order 7, and with it a generator and six keys, of
    which two sign; beside them zero, the order, and a limb too wide. Scalars of two limbs,
    two rounds of the sponge, three digests under two domains; each signature as it was or
    with one scalar replaced: by zero, the order, a key, or a limb too wide.
  * wallet: two seeds, two coin types, three roles, indices 0, 1 and one that is hardened;
    more than half of the levels retry.
  * configuration: two phrases, one of which derives the demo key, two accounts, one
    endpoint; every combination of settings.

  A boot, a wait, a rename, a REPL and the SIWN clock end: hence `CHECK_DEADLOCK FALSE`.

Fairness. In `EscrowLocks`, blocks go on being mined (`WF(Tick)`) and the owner of
the note signs and spends (`WF(OwnerSigns)`, `WF(OwnerSpends)`); nothing is assumed
of any other party, which is what `NotStranded` is about. In `Hull` the runtime
polls a handler whose request has been answered (`WF(Finish)`), and fires the timer
of a poke (`WF(Timeout)`). Nothing is assumed of the kernel thread, which can hang,
nor of clients. So `OnlyPeeksHoldTheMutex` (it is always so again that the mutex is
free or its holder awaits a peek) is due to the timer, and `NoHandlerBlocks` fails.
In `ValidateGraft` an operator who wants the rules gone goes on clearing each tag that
has some (one `WF` per tag), and installs end (`MaxInits`); the order is free. In
`Watch` the runtime polls the REPL when its drain timer fires, when a request to a
dead kernel has failed and when the kernel's task has ended; nothing is assumed of
the user or of a kernel that lives.

## 4. Findings

1. **A settlement that rotates the epoch is answered 502** (`settle.rs:195`). The
   handler compares the first effect with `%settle-noted`; a rotation puts
   `%settle-epoch-rotated` first. The note is settled, the counter stays, and the
   next default id is the old one.
2. **An RBAC peek has no timer** (`rbac.rs:74`), while `types.rs:36` argues for one
   mutex since no handler blocks for long.
3. **The replay cache sweeps with the ttl of the call at hand**
   (`replay_cache.rs:72`), against the contract of the trait
   (`replay_cache.rs:23`).
4. **A grant of no permissions stores an empty row** (`rbac-graft.hoon:109`), which
   counts against `roles-cap`, while the header (lines 20-22) has the rows count the
   users with any permission.
5. **Strict resume can vouch for the wrong build** (`vesl-checkpoint/src/lib.rs:139`).
   A second snapshot into one directory that is cut off between its two files leaves
   the new state with the old hash; if the source has gone back to that hash, strict
   mode boots the state of the other build.
6. **A block outlives its manifest's** (`inject.rs:291`). If the new manifest of an
   active graft has no block at a marker, the old one is neither pruned nor
   rewritten, while `inject.rs:267-270` calls the layout a pure function of the
   active set.
7. **A new graft may take an old one's data** (`codegen/mod.rs:447`). The overlay of
   `++load` reads each field at its axis in the new kernel, from a noun laid out by the
   old one, and keeps what has the shape of the field's type; `marker.rs:49-53` calls it
   sound regardless of the noun's shape, with defaults at the new axes. With mint and
   guard added to a kernel of settle alone, the roots registered with settle become the
   commits of mint, and settle starts anew. `ResumesKeepTypes` is what does hold: fields
   have their types, and a further resume into the same grafts keeps them.
8. **With RBAC on, no request passes** (`rbac.rs:75`). `peek_handle` takes the two units
   of the envelope off, and `peek_loobean` two more: on what is left it finds an atom
   where it asks for a cell. The check is answered as a crash, for a holder of the
   permission too.

Smaller, and without a run: `peek.rs:148-150` and `203` give the peeks of log, rbac and
validate three layers of units, while their arms have the two of the others: with three a
strict decoder takes a permission count of 0 for none and refuses every other, as
`PeeksTell` says; `peek.rs:84-92` and `249-252` have `unwrap_triple_unit_atom` take a bound
0 for an absent key, which is so of no arm that answers a unit, only of the loobeans of
settle; `collision.rs:47-48` finds any name that more than one source declares, while
`extract_domain_cause_tags` (`extract.rs:120`) stops at the marker, so that a tag of the
developer's below it may be a graft's as well (`ArmsDistinct` excepts it);
`schnorr_verify` refuses where the point it recovers is the identity, while `verify` of
`ztd/three.hoon`, which the gate calls, does not ask: there `SignaturesTell` claims nothing
of the gate; the counts and loobeans of settle-graft are in no unit of their own, so
`peek_loobean` says None of them; `manifest_summary.rs:1-4` has /status confirm that a gate
swap landed, while what it reads at boot is the manifest and not the kernel.

## 5. Proofs

Everything proved holds for all values of the constants that meet the named
assumptions, which TLC evaluates: `ConstantsAssumption` (a finite set of hulls, a
positive epoch cap, `NoRoot` is not a root, the gate yields a verdict),
`HullAssumption`, `LocksAssumption` (deadlines are naturals and the prime is
positive), `SiwnAssumption`, and those of the grafts and tools (caps and bounds are
naturals, keys finite, an absent value is no value).

* `SettleGraftProofs`. `EpochAccounting` and `ReplayWindow` are not inductive: a
  step from a state whose sets have nothing to do with the history breaks them.
  `SetsAreHistory` says that `settled` is exactly the ids of the last
  `settleCount` notes, and `priorSettled` those of the `EpochCap` before. With it
  the rest follow: a fresh id is in neither set, so it differs from the last
  `settleCount + EpochCap >= EpochCap + 1` ids. `SetsAreHistory`, `TypeOK` and
  `EpochAccounting` are proved inductive together, with lemmas on the interval of
  ids; the window, the bound on memory and the refinement come after. `HistorySound`
  is a conjunction of what is proved there.
* `HullProofs`. `HullInv` conjoins `InFlight` (types of what is in flight),
  `AnswersMatch`, `ServedTreeIsRegistered` and `CounterNeverAhead`.
  `ServedTreeIsRegistered` needs `AnswersMatch`: the handler stores its own
  request's root, so it must be the one whose answer came. `AnswersMatch` needs
  that the handler's request is the last one in the inbox, which holds since a
  handler keeps the mutex until it answers. `CounterNeverAhead` needs that an
  answered success is still ahead of the counter.
  `ReportedIsSettled` compares counts, of which a step says little; `ReportsMatch` says
  more: an injection takes each answer of success to a note of the history with its id,
  and never to the note that a handler is about to report. A note that is settled leaves
  the injection, an answer extends it by that note; the counts follow by cardinality.
  `HullDrivesTheGraft` shows that a step of
  the hull is one of `SettleGraft` or leaves the kernel alone, which needs the types of
  what waits in the inbox. So `SettleGraftProofs`, taken as `Kernel`, holds of the
  kernel behind the hull: `HullKeepsHistorySound` and `HullImplementsLedger` cite its
  theorems. `KernelAssumption` is what it assumes of the constants.
* `SpendProofs`. `HandOver` computes, for each lock with a deadline, that the
  second branch opens one block after the first closes. `Separate` says of each
  lock that was not refused that the keys of one branch are among those of another
  only if they are the same or the exception named, and `Apart` that two branches share
  a key only where `Shared` lists them; both need that parties have distinct keys.
  `LifeInv` carries through the life of the note that a spent one had a witness: exactly
  `m` signers (`spend.by`), all of them named by the branch revealed. Of who signed what
  it says nothing, since anybody may sign anything. With `Separate` the signers decide
  `WindowsBindCorrect` and `AgreedByAllCorrect`, with `Apart` `SignaturesStayCorrect`;
  `LocksBindCorrect` puts the four claims on locks together.
  `OutputsAsSigned`: our seeds are our coins' (`OurSeeds`) and a spend that
  lands is one we built (`SentAsBuilt`); a pin names the group it was made in, so a
  group with a stranger's seed would have to be one without it (`LandsAsPinned`).
  `PaymentLands` needs `Balanced` (each spend pays each root once, and its gifts and fee
  are what its coin holds) and `PinnedApart` (while no two spends pay one root, a pin,
  also one given over all spends, is of the spend's own seeds). The gifts are a fold over
  a set and the lines a fold over their places: `PlacesSumUp` and `PinnedSumsUp` carry
  one to the other by `SumsEqual` of `Inductions`.
  `FeeStands`, for all seeds whose data have finitely many keys and a number of leaves each
  (`SpendsAssumption`), and for every bound: the SDK merges in the order of the seeds,
  consensus in that of a set of hashes. Without a collision of keys each order gives
  the same words (`MergedAlike`); with one at bythos the property says nothing, as does the code.
  The data of a root cost no more merged than apart (`MergedIsLess`): a sum over
  the seeds is one over roots of sums over the seeds of each (`SumOfFibers`), and each key
  of a merged group is that of a seed's data. So a fee falls from one page
  to a later one: fewer words, and from bythos on half the rate, which is worth more than
  the one leaf by which a full proof is longer (`FeeGrows`).
  `WitnessesDecide`, for any locks of 1, 2, 4, 8 or 16 branches, any preimages and any keys:
  by induction on the levels, each node of the SDK's tree is in the tree the chain hashes
  (`NodesWithin`) and below it the chain finds, leaf by leaf, the axis and the siblings of
  the formula (`NodesProve`, `ChainProves`). Rule by rule, what the builder lets pass holds
  unless a preimage is spoilt, and what it refuses fails (`HaxHolds`, `HaxFails`,
  `PkhHolds`, `PkhFails`). `WitnessInv` says of the attempt that a builder made it of the
  note that is held, at this page or before. That a condition has at most one rule of keys
  (`IsCondition`) is what the code says of consensus (`settle.rs:768-770`).
* `GraftProofs`. Order and conservation of jobs are not inductive: nothing in them
  ties `nextId` to the past. `QueueShape` does: an id is the place of its job among
  those pushed, counted from `FirstId`, what is pending is the tail of that list, and
  each place before it is popped or dropped and not both. `QueueFaithful` is their
  conjunction. `LogShape` adds to `NewestKept` the numbering of all that was logged.
  The batch and RBAC invariants are inductive with their types; `RbacShape` includes
  both caps.
* `StoreProofs`. `IncrementsCountOn` goes through `CountersStand` (a counter is where
  its last number left it, also before it exists); `RecordLife` through `TableAsFed`:
  a key is in the table iff the newest effect on it is not a removal, and its record
  is that effect's.
* `ToolProofs`. `SnapshotTells` needs `SnapshotOrder`: where the running snapshot has
  come to determines which files are whole, and a directory in its first use has no
  old metadata. `RemembersNewest` is inductive with its type. `NamesHaveKernels` needs
  that a kernel is in one place (`Placed`) and that each step of a run leaves exactly
  the names behind it changed (`InStep`, `Named`). `BootedAsAsked` is a computation over
  the sources, by the first of three that is set. `WaitTells` needs only its types.
  `ReceiptTells` needs that the first of the two answers is one of the node's past
  (`BlockToldOf`), `BalanceTells` that an empty or failed first query is remembered
  (`SimpleKnows`), and `DataReadsBack`, which is proved with the lemmas on filters for data
  of any length.
  Of the replay cache, `Timely` places each call in time: it began while its message
  was in force, was stamped since, and each cache entry is the stamp of an
  acceptance. `NoFalseReplay` needs no more, `CacheBounded` (a sweep leaves
  nothing older than the longest window and the calls under way) a bound on stalls.
  For `AcceptedOnce` (windows of one length, stalls of at most a tick)
  `KeptWhileInForce` is the strengthening: the entry of an accepted message stays
  until no call for it can be under way, because no sweep has a longer reach than
  the window.
  `EffectsConserved` is of four lists at once: what is printed, what the row under way
  has collected, what the channel holds and what was ever sent. `WatchInv` keeps them
  equal up to what the channel dropped (`Conserved`). A dropped effect must be one
  effect only, so `Ordered` says that no two that were sent are the same: a task
  holds the later effects of its command, and no command has been answered before it
  was read. `Told` has the numbers and the filter of each row.
  `AppliedLayout` is a claim about the file that a run leaves, kept while nobody edits
  it. `InjectInv` therefore holds `Laid`: the blocks of each section, the imports, the union
  and the overlay are those of the active set, a run on this file would return it
  unchanged, and the hand-edit gate finds nothing. That a run leaves such a file
  (`RanLays`) is a computation over lists, part by part; the one on the imports is the
  longest, since a block's imports depend on all that stands before it. Two import
  blocks share no library if the first is of an active graft: those a hand has written
  are nobody's to change. The assumptions are that the names of grafts are distinct,
  that no graft has a name the union reserves, that there is a first version of each
  manifest, and that imports name libraries.
  For `ResumesKeepTypes` the fields of a kernel must be found again where it put them:
  nested as pairs, the i-th of n is the head of what is left after i - 1 tails, the last
  one all of it (`SlotOfNested`). What the types are does not matter as
  long as each has its default and what the pokes of its graft lead to
  (`OverlayAssumption`); that the molds of `Peeks` do is checked by the runs.
* `GatesProofs`. A list of any length has a tree (`BuildIsTree`): each level pairs the
  one below, so it is shorter until it has one node, and one of the first `Len(leaves)`
  levels does. The proof of a leaf climbs along the nodes of the tree
  (`ProofClimbs`), so both checks accept it. The other way, an accepted climb ends in
  the root; from there down, each of its hashes is a node of the tree, since a
  pair tells its halves (`ClimbsAllLevels`), and it cannot end early or late, since a
  pair is no leaf; the place where it ends is `LeafReached` (`LeadsToLeaf`), also where a
  node stands for its missing sibling. Guard accepts no digest out of the field; as an
  atom, such a digest is that of another in the field, or one the kernel refuses. `MerkleInv` says that a claim is one of Mint's or one that was
  altered, of bytes and a path of nodes; `ProofsTell` follows from it.
  `AcceptedIsBound` needs that the root is that of a tree (`GatesInv`), and that a leaf
  that is a root is the only one (`RootIsLeaf`). `HullSettlesFields` needs that the fields
  of the hull are those under the root: a proof the hull makes is then of the field's
  place in the tree (`FieldIsProven`), and of the first place where two fields are one.
  `GatesBindCorrect` puts both together.
  The proofs assume what the model does, that hashes do not collide, and that trees are
  no deeper than proofs may be long (`DepthAssumption`, `CommittedDepth`).

`Inductions` has induction over the naturals as a statement about sets: a set that has
0 and with each member the next has all of them, from the theorem of the library that
`<` is well-founded. Where a proof needs induction it names the set of naturals for
which its claim holds. From it come the last place of a list (`Greatest`) and what the
recursive function of a sum computes (`SumExists`, `SumAdds`): the library's folds name
the function of an equation, which must be shown to have one. `Sums` puts that function under
a name of its own, with its laws: a sum by parts, of sums, and below another. The provers have no
definition of `SelectSeq`; `ListFilters` has the filter as a recursive function
on the places of a list, and `Inductions` what it leaves of joined, filtered and changed
lists. Concatenation has the name `Joined` there, since a lemma on a named operator
is found by the provers where one on `\o` is not.

Proved and not run, since TLC adds nothing to the proof: `EpochAccounting`,
`ReplayMemoryBounded`, `NoOverdueAddition`, `CacheBounded`, and the type invariants of settle, the hull,
the locks, the payment, the proved grafts and the tools. That of validate-graft is also run,
since it has the caps on rules: it needs that the tags with rules are finitely many, and that
a set grows by one with an element it did not have.

Checked by TLC only: liveness (`OnlyPeeksHoldTheMutex`, `NotStranded`, `NoLockOut`,
`DeathIsReported`: fairness and ENABLED are out of the prover's reach);
`PeeksTell` (recursion over nouns); `SignaturesTell` and `KeysConform` (recursion, and the
theory of the curve); `LintsDecide` (filtered lists and recursion over imports).

## 6. Not modelled, and why

* Pure functions on data: noun encodings, lock and transaction hashing as functions of bytes,
  the hash of a public key, the canonical form of JSON; fee, timelock and time-out of the
  configuration. They have vectors; a model would restate them. The tables of Tip5 are
  constants: that they are the right ones is for the vectors.
* Forge-graft (it keeps no state), intent-graft (it crashes on each poke), the prover and
  lowering libraries, and ed25519 of the signature gates. In `SettleGraft` and
  `Hull` the gate is the constant `Gate`; `Gates` has the five of the catalog.
* Of the hull: /status, /health and the bearer check. Of the SDK: the noun encodings of
  pokes, and the decoders of effects.
* Of graft-inject: the lint on weld friction, which no gate reads at any severity; the migration of
  old effect lines, a cause type that is an alias, `--grafts` in another order; sync-kernel and
  the other checks of doctor; of the hull: the scan of manifests for /status.
* Of the test harness: the runner of example tests and the generated bindings, each
  one call.
* `verify-payload`, which walks `verify-chunk` over a list; the apply arms of
  domain-patterns other than audit-write, which pass a cause on.
* Two hull processes on one directory, which the code's own comment excludes
  (`types.rs:95-98`).
* Kernel templates, which compose grafts named above, and vendored Hoon.

## 7. What is left

1. A proof of `LintsDecide`, whose recursive operators would first be functions.
2. The types of the molds in `Peeks`: that each contains its default, for all grafts.
