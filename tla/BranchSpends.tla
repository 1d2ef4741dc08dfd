---------------------------- MODULE BranchSpends ----------------------------
(* A spend of one note by vesl-core (lock.rs, settle.rs, fee.rs) before consensus *)
(* (tx-engine-1.hoon, tx-engine.hoon): the Merkle proof that a branch belongs to  *)
(* the lock of the note, the witness built of finished signatures, and the least *)
(* fee, while the chain grows past the block that activates bythos.               *)
(*                                                                                *)
(* A hash is the term that was hashed; the hash of a public key is the key, and a *)
(* signature names the digest it is over.  An order of the outputs by hash is any *)
(* order.  A noun is the number of its leaves.                                    *)
EXTENDS Integers, SequencesExt

CONSTANTS
  LockedNotes,    \* a lock, by its spend conditions, and the page the note is from
  SpendKeys,
  CoinbaseWait,   \* coinbase_timelock_min
  WantedSeeds,    \* the seeds a caller may want: lock roots and the leaves of note data
  Preimages,      \* lists of hashlock preimages that a caller may give
  Bythos, BaseFee, InputFeeDivisor, LeastFee,
  WitnessLeaves,  \* of a witness with a stub
  MaxPage         \* bound of the model: the last page

\* A list of rules, of which one at most asks for keys: two would each demand the whole map
\* of signatures (settle.rs:770).
IsCondition(condition) ==
  /\ DOMAIN condition = 1 .. Len(condition) /\ Len(condition) \in Nat
  /\ \A i \in DOMAIN condition : condition[i].kind \in {"brn", "tim", "hax", "pkh"}
  /\ \A i, j \in DOMAIN condition :
       condition[i].kind = "pkh" /\ condition[j].kind = "pkh" => i = j

ASSUME SpendsAssumption ==
  /\ \A note \in LockedNotes :
       /\ Len(note.lock) \in {1, 2, 4, 8, 16} /\ DOMAIN note.lock = 1 .. Len(note.lock)
       /\ \A b \in DOMAIN note.lock : IsCondition(note.lock[b])
  /\ \A hax \in Preimages : DOMAIN hax = 1 .. Len(hax) /\ Len(hax) \in Nat
  /\ {Bythos, BaseFee, LeastFee, MaxPage, CoinbaseWait} \subseteq Nat
  /\ InputFeeDivisor \in Nat \ {0} /\ WitnessLeaves \in Nat \ {0}
  /\ \A seeds \in WantedSeeds :
       /\ DOMAIN seeds = 1 .. Len(seeds) /\ Len(seeds) \in Nat
       /\ \A i \in DOMAIN seeds :
            /\ IsFiniteSet(DOMAIN seeds[i].data)
            /\ seeds[i].data \in [DOMAIN seeds[i].data -> Nat]

VARIABLES
  page,     \* of the chain
  spent,    \* the note that is to be spent
  draft,    \* the outputs and the fee that are wanted now
  digest,   \* the sig-hash that the kernel gave of some draft
  attempt   \* the last call of a builder of witnesses

spendVars == <<page, spent, draft, digest, attempt>>

NoDraft == [seeds |-> << >>, fee |-> 0, at |-> 0]
NoAttempt == [kind |-> "none"]
NoDigest == << >>

-----------------------------------------------------------------------------
(* Hashes and the tree of a lock *)

ConditionHash(condition) == [condition |-> condition]
hash_leaf_atom(n) == [leaf |-> n]
HashPair(l, r) == [left |-> l, right |-> r]
FirstName(root) == [name |-> root]

\* The powers of two in a tree of at most 16 branches.
TwoTo(k) == <<1, 2, 4, 8, 16, 32>>[k + 1]

Depth(lock) == CHOOSE d \in 0 .. 4 : Len(lock) = TwoTo(d)

\* The levels of the tree of branches, from the conditions to its root.
Levels(lock) ==
  LET level[k \in 0 .. Depth(lock)] ==
        IF k = 0 THEN [i \in 1 .. Len(lock) |-> ConditionHash(lock[i])]
        ELSE [i \in 1 .. Len(lock) \div TwoTo(k) |->
                HashPair(level[k - 1][2 * i - 1], level[k - 1][2 * i])]
  IN level

\* The number of branches is hashed beside the tree.
lock_root(lock) ==
  LET tree == Levels(lock)[Depth(lock)][1]
  IN IF Len(lock) = 1 THEN tree ELSE HashPair(hash_leaf_atom(Len(lock)), tree)

\* Sibling k of branch i, counted from 0, from the leaf up.
SiblingOf(lock, i, k) ==
  LET at == i \div TwoTo(k - 1)
  IN Levels(lock)[k - 1][(IF at % 2 = 0 THEN at + 1 ELSE at - 1) + 1]

\* The hash that a proof climbs to, and what is left of its axis, sibling by sibling.
verify_merk_proof(proof) ==
  LET left(k) == proof.axis \div TwoTo(k)
      climb[k \in 0 .. Len(proof.path)] ==
        IF k = 0 THEN ConditionHash(proof.condition)
        ELSE IF left(k - 1) % 2 = 0 THEN HashPair(climb[k - 1], proof.path[k])
        ELSE HashPair(proof.path[k], climb[k - 1])
  IN left(Len(proof.path)) = 1 /\ climb[Len(proof.path)] = proof.root

-----------------------------------------------------------------------------
(* The SDK *)

\* Wrong variant of AxisOf: the tag of the arity is not counted.
AxisUntagged(lock, branch) == IF Len(lock) = 1 THEN 1 ELSE Len(lock) + (branch - 1)

AxisOf(lock, branch) == IF Len(lock) = 1 THEN 1 ELSE 3 * Len(lock) + (branch - 1)

PathOf(lock, branch) ==
  IF Len(lock) = 1 THEN << >>
  ELSE Append([k \in 1 .. Depth(lock) |-> SiblingOf(lock, branch - 1, k)],
              hash_leaf_atom(Len(lock)))

lock_merkle_proof(lock, branch, at) ==
  [condition |-> lock[branch], axis |-> AxisOf(lock, branch), root |-> lock_root(lock),
   path |-> PathOf(lock, branch), full |-> at >= Bythos]

\* What is made is checked before it is given.
ProofRefused(lock, branch, at) ==
  \/ branch \notin DOMAIN lock
  \/ Len(lock) > 1 /\ at < Bythos
  \/ ~verify_merk_proof(lock_merkle_proof(lock, branch, at))

RulesOf(condition, kind) == {i \in DOMAIN condition : condition[i].kind = kind}
Burns(condition) == RulesOf(condition, "brn") # {}

\* What is refused of the signatures: for the first rule of keys, or without one.
PartsRefused(condition, parts, over) ==
  LET rules == RulesOf(condition, "pkh")
      rule == condition[Min(rules)]
  IN IF rules = {} THEN parts # << >>
     ELSE \/ Len(parts) # rule.m
          \/ \E i \in DOMAIN parts : parts[i].key \notin rule.keys \/ parts[i].over # over
          \/ ~IsInjective([i \in DOMAIN parts |-> parts[i].key])

\* The places where a list has a preimage for a hash.
GivenFor(hax, hash) == {i \in DOMAIN hax : hax[i].hash = hash}

\* A preimage that is wanted is missing, or the first with its hash is not of that hash.
HaxRefused(condition, hax) ==
  /\ ~Burns(condition)
  /\ \E i \in RulesOf(condition, "hax") : \E wanted \in condition[i].hashes :
       LET given == GivenFor(hax, wanted)
       IN given = {} \/ hax[Min(given)].value # wanted

\* The two maps of a witness: the last entry of a key stays.
WitnessOf(proof, parts, hax) ==
  [proof |-> proof,
   pkh |-> [key \in {parts[i].key : i \in DOMAIN parts} |->
              parts[Max({i \in DOMAIN parts : parts[i].key = key})].over],
   hax |-> [hash \in {hax[i].hash : i \in DOMAIN hax} |-> hax[Max(GivenFor(hax, hash))].value]]

BranchRefused(lock, branch, at, parts, over, hax) ==
  \/ ProofRefused(lock, branch, at)
  \/ PartsRefused(lock[branch], parts, over)
  \/ HaxRefused(lock[branch], hax)

\* The spend-condition that build_witness takes the note to have.
Pkh(key) == [kind |-> "pkh", m |-> 1, keys |-> {key}]
AssumedCondition(key, coinbase) ==
  IF coinbase THEN <<Pkh(key), [kind |-> "tim", relMin |-> <<CoinbaseWait>>, relMax |-> << >>,
                                absMin |-> << >>, absMax |-> << >>]>>
  ELSE <<Pkh(key)>>

-----------------------------------------------------------------------------
(* Fees *)

SumOf(f) == FoldFunction(+, 0, f)

\* A group of note data: its end, and a key and a value for each entry.
DataWords(data) == 1 + SumOf([key \in DOMAIN data |-> 1 + data[key]])

\* The places in an order of the seeds of one root, and those whose data has a key.
PlacesOf(seeds, order, root) == {k \in DOMAIN order : seeds[order[k]].root = root}
Holding(seeds, order, root, key) ==
  {k \in PlacesOf(seeds, order, root) : key \in DOMAIN seeds[order[k]].data}

\* The data of one root are merged in some order of the seeds: the last of a key stays.
MergedBy(seeds, order) ==
  [root \in {seeds[i].root : i \in DOMAIN seeds} |->
     [key \in UNION {DOMAIN seeds[order[k]].data : k \in PlacesOf(seeds, order, root)} |->
        seeds[order[Max(Holding(seeds, order, root, key))]].data[key]]]

LegacyWords(seeds) == SumOf([i \in DOMAIN seeds |-> DataWords(seeds[i].data)])
MergedWords(seeds, order) ==
  LET groups == MergedBy(seeds, order)
  IN SumOf([root \in DOMAIN groups |-> DataWords(groups[root])])

FeeBy(seedWords, witnessWords, at) ==
  LET rate == IF at >= Bythos THEN BaseFee ELSE 2 * BaseFee
      divisor == IF at >= Bythos THEN InputFeeDivisor ELSE 1
  IN Max({seedWords * rate + (witnessWords * rate) \div divisor, LeastFee})

\* A full proof has its version as one more leaf.
WitnessWords(full) == WitnessLeaves + (IF full THEN 1 ELSE 0)

\* The fee when the data are merged in the order of a list, or in another.
FeeIn(seeds, order, full, at) ==
  FeeBy(IF at >= Bythos THEN MergedWords(seeds, order) ELSE LegacyWords(seeds),
        WitnessWords(full), at)

\* Wrong variant of calculate_min_fee: the rate is that of bythos at every page.
CalculateMinFeeHalved(seeds, full, at) ==
  FeeBy(IF at >= Bythos THEN MergedWords(seeds, [i \in DOMAIN seeds |-> i])
        ELSE LegacyWords(seeds), WitnessWords(full), Bythos)

calculate_min_fee(seeds, full, at) == FeeIn(seeds, [i \in DOMAIN seeds |-> i], full, at)

-----------------------------------------------------------------------------
(* Steps *)

SpendsInit ==
  /\ page = 0 /\ spent \in LockedNotes
  /\ draft = NoDraft /\ digest = NoDigest /\ attempt = NoAttempt

NextPage ==
  /\ page < MaxPage
  /\ page' = page + 1
  /\ UNCHANGED <<spent, draft, digest, attempt>>

\* The transaction is priced with the form of proof that the page asks for.
Price(seeds) ==
  /\ attempt = NoAttempt
  /\ draft' = [seeds |-> seeds, at |-> page, fee |-> calculate_min_fee(seeds, page >= Bythos, page)]
  /\ UNCHANGED <<page, spent, digest, attempt>>

SigHashOf(tx) == <<tx.seeds, tx.fee>>

\* kernel_sig_hash: a kernel that is late or answers anything else leaves no digest.
AskSigHash ==
  /\ draft # NoDraft /\ attempt = NoAttempt
  /\ digest' = SigHashOf(draft)
  /\ UNCHANGED <<page, spent, draft, attempt>>

\* Signatures over the digest, or over another one.
Cosignatures == [key : SpendKeys, over : {digest, NoDigest}]

\* From parts that came from anywhere, for the lock of the note.
BuildBranchWitness(branch, parts, hax) ==
  /\ digest # NoDigest /\ attempt = NoAttempt
  /\ attempt' =
       LET refused == BranchRefused(spent.lock, branch, page, parts, digest, hax) IN
         [kind |-> "branch", branch |-> branch, at |-> page, parts |-> parts, hax |-> hax,
          over |-> digest, refused |-> refused,
          witness |-> IF refused THEN << >>
                      ELSE WitnessOf(lock_merkle_proof(spent.lock, branch, page), parts, hax)]
  /\ UNCHANGED <<page, spent, draft, digest>>

\* By the holder of a key, for a note taken to be a coinbase or not; always a full proof.
BuildWitness(key, coinbase) ==
  /\ digest # NoDigest /\ attempt = NoAttempt
  /\ attempt' =
       LET lock == <<AssumedCondition(key, coinbase)>>
           parts == <<[key |-> key, over |-> digest]>>
           refused == FirstName(lock_root(lock)) # FirstName(lock_root(spent.lock))
           proof == [condition |-> lock[1], axis |-> 1, root |-> lock_root(lock),
                     path |-> << >>, full |-> TRUE]
       IN [kind |-> "single", branch |-> 1, at |-> page, parts |-> parts, hax |-> << >>,
           over |-> digest, refused |-> refused,
           witness |-> IF refused THEN << >> ELSE WitnessOf(proof, parts, << >>)]
  /\ UNCHANGED <<page, spent, draft, digest>>

SpendsNext ==
  \/ NextPage
  \/ \E seeds \in WantedSeeds : Price(seeds)
  \/ AskSigHash
  \/ \E branch \in 0 .. Len(spent.lock), parts \in SeqOf(Cosignatures, 2), hax \in Preimages :
       BuildBranchWitness(branch, parts, hax)
  \/ \E key \in SpendKeys, coinbase \in BOOLEAN : BuildWitness(key, coinbase)

-----------------------------------------------------------------------------
(* Consensus *)

Bounded(bound, ok(_)) == bound = << >> \/ ok(bound[1])

TimHolds(p) ==
  /\ Bounded(p.relMin, LAMBDA b : page >= spent.since + b)
  /\ Bounded(p.relMax, LAMBDA b : page <= spent.since + b)
  /\ Bounded(p.absMin, LAMBDA b : page >= b)
  /\ Bounded(p.absMax, LAMBDA b : page <= b)

Holds(p, witness, over) ==
  CASE p.kind = "brn" -> FALSE
    [] p.kind = "tim" -> TimHolds(p)
    [] p.kind = "hax" -> \A h \in p.hashes : h \in DOMAIN witness.hax /\ witness.hax[h] = h
    [] p.kind = "pkh" -> /\ Cardinality(DOMAIN witness.pkh) = p.m
                         /\ DOMAIN witness.pkh \subseteq p.keys
                         /\ \A key \in DOMAIN witness.pkh : witness.pkh[key] = over

\* check of check-context, for the note and the digest of the transaction that is sent.
Unlocks(witness, over) ==
  LET proof == witness.proof IN
    /\ proof.full => page >= Bythos
    /\ proof.full \/ proof.axis = 1
    /\ FirstName(proof.root) = FirstName(lock_root(spent.lock))
    /\ verify_merk_proof(proof)
    /\ \A i \in DOMAIN proof.condition : Holds(proof.condition[i], witness, over)

\* Peg of Hoon: the axis below a side of a pair.
Peg(side, axis) ==
  (side - 1) * TwoTo(CHOOSE k \in 0 .. 4 : TwoTo(k) <= axis /\ axis < TwoTo(k + 1)) + axis

IsCell(h) == "left" \in DOMAIN h

\* The hashables within a tree of a lock.
Hashables(h) ==
  LET level[k \in 0 .. 5] ==
        IF k = 0 THEN {h}
        ELSE UNION {{t.left, t.right} : t \in {u \in level[k - 1] : IsCell(u)}}
  IN UNION {level[k] : k \in 0 .. 5}

\* The proofs of all leaves of a tree, in their order: an index up to the number of leaves
\* on the left is there, any other on the right.
LeafProofs(h) ==
  LET proofs[k \in 0 .. 5] ==
        [t \in Hashables(h) |->
           IF k = 0 \/ ~IsCell(t) THEN <<[axis |-> 1, path |-> << >>]>>
           ELSE LET p == proofs[k - 1][t.left]
                    q == proofs[k - 1][t.right]
                IN [i \in 1 .. Len(p) + Len(q) |->
                      IF i <= Len(p)
                      THEN [axis |-> Peg(2, p[i].axis), path |-> Append(p[i].path, t.right)]
                      ELSE [axis |-> Peg(3, q[i - Len(p)].axis),
                            path |-> Append(q[i - Len(p)].path, t.left)]]]
  IN proofs[5][h]

\* prove-hashable-by-index, over the tree of a lock: a digest is its own hashable.
ProveByIndex(h, index) == LeafProofs(h)[index]

\* build-lock-merkle-proof, as a stub or in full: a tag before the leaves counts as one.
ChainProof(lock, branch, full) ==
  LET found == ProveByIndex(lock_root(lock), IF Len(lock) = 1 THEN branch ELSE branch + 1)
  IN [condition |-> lock[branch], axis |-> found.axis, root |-> lock_root(lock),
      path |-> found.path, full |-> full]

-----------------------------------------------------------------------------
(* Properties *)

\* The transaction that is sent is the one whose digest was signed.
SentAsSigned == attempt # NoAttempt /\ attempt.over = SigHashOf(draft)

InWindow(condition) ==
  \A i \in DOMAIN condition : condition[i].kind = "tim" => TimHolds(condition[i])

\* A hash that the branch asks for is given again, at last with a preimage that is not its
\* own: the builder looks at the first, the map of the witness keeps the last.
Spoilt(condition, hax) ==
  \E i \in RulesOf(condition, "hax") : \E wanted \in condition[i].hashes :
    LET given == GivenFor(hax, wanted)
    IN given # {} /\ hax[Max(given)].value # wanted

\* A witness that the SDK builds has the proof that the chain itself would make, and
\* unlocks the note at each page from then on, while the windows of the branch are open,
\* unless the branch burns or a preimage is spoilt; the one for a note of one key only
\* from bythos on.
WitnessStands ==
  SentAsSigned /\ ~attempt.refused =>
    LET proof == attempt.witness.proof IN
      /\ proof = ChainProof(spent.lock, attempt.branch, proof.full)
      /\ Unlocks(attempt.witness, SigHashOf(draft)) <=>
           /\ ~Burns(proof.condition) /\ InWindow(proof.condition)
           /\ ~Spoilt(proof.condition, attempt.hax)
           /\ attempt.kind = "single" => page >= Bythos

\* Where the builder refuses what consensus would take: signatures that the branch does
\* not ask for, a signer given again beside all that are needed, and a preimage that a
\* later one of the same hash replaces.
Stricter(condition) ==
  \/ RulesOf(condition, "pkh") = {} /\ attempt.parts # << >>
  \/ ~IsInjective([i \in DOMAIN attempt.parts |-> attempt.parts[i].key])
  \/ ~IsInjective([i \in DOMAIN attempt.hax |-> attempt.hax[i].hash])

\* Apart from that each refusal saves a transaction that consensus would drop without a
\* word: no witness of these signatures and preimages for this branch, with either form
\* of proof, unlocks the note at that page.
RefusedNow ==
  /\ SentAsSigned /\ attempt.kind = "branch" /\ attempt.refused
  /\ page = attempt.at /\ attempt.branch \in DOMAIN spent.lock

RefusalsSave ==
  RefusedNow =>
    \/ Stricter(spent.lock[attempt.branch])
    \/ \A full \in BOOLEAN :
         LET proof == ChainProof(spent.lock, attempt.branch, full)
         IN ~Unlocks(WitnessOf(proof, attempt.parts, attempt.hax), attempt.over)

\* The builder decides as consensus will, on each branch of a lock: what it gives can be
\* mined, and what it refuses could not have been.
WitnessesDecide == WitnessStands /\ RefusalsSave

\* Two seeds of one root have one key of note data.
Collides(seeds) ==
  \E i, j \in DOMAIN seeds :
    i # j /\ seeds[i].root = seeds[j].root /\ DOMAIN seeds[i].data \cap DOMAIN seeds[j].data # {}

\* The fee that the SDK finds is the least that consensus takes at that page, in whatever
\* order it merges the data, and it is enough at each later page too, with either form of
\* proof; only where two seeds of a root share a key is the order the fee's.
FeeStands ==
  draft # NoDraft /\ ~(Collides(draft.seeds) /\ draft.at >= Bythos) =>
    \A order \in [DOMAIN draft.seeds -> DOMAIN draft.seeds] : IsInjective(order) =>
      /\ page = draft.at => draft.fee = FeeIn(draft.seeds, order, page >= Bythos, page)
      /\ \A full \in BOOLEAN : (full => page >= Bythos) =>
           draft.fee >= FeeIn(draft.seeds, order, full, page)

=============================================================================
