---------------------------- MODULE ChainClient -----------------------------
(***************************************************************************)
(* What nockchain-client-rs asks of a node.                                *)
(*                                                                         *)
(* submit_and_wait (chain.rs): a transaction is sent once and its inclusion *)
(* in a block is polled until a deadline.  Time is in ticks.  An answer    *)
(* takes any time; asked is a ghost that counts those that came.           *)
(*                                                                         *)
(* The calls that ask twice: fetch_receipt (verify_tx.rs of vesl-core) and *)
(* get_balance_by_pkh, with what is made of the notes (types.rs,           *)
(* note_data.rs).  The node moves on between the answers.  A value that may *)
(* be unset is a sequence of at most one.                                  *)
(***************************************************************************)
EXTENDS Integers, SequencesExt, ListFilters

CONSTANTS PollInterval, AcceptTimeout,  \* of ChainConfig
          MaxClock,                     \* bound of the model
          ChainBlocks,                  \* blocks, with their timestamps
          TxWires,                      \* details of the transaction, as they are sent
          WireNotes,                    \* notes, as they are sent
          FieldSize, HashLimbs,         \* of the base field, and of a digest
          MaxMoves                      \* bound of the model: steps of the node

\* An entry of note data: an atom, or a list; what is torn has no noun in it.
DataEntries == [key : STRING, cell : BOOLEAN, limbs : Seq(Nat), intact : BOOLEAN]

ASSUME ChainAssumption ==
  /\ PollInterval \in Nat \ {0} /\ AcceptTimeout \in Nat /\ MaxClock \in Nat
  /\ MaxMoves \in Nat /\ FieldSize \in Nat /\ HashLimbs \in Nat \ {0}
  /\ \A wire \in TxWires : wire.outputs # << >>
  /\ \A n \in WireNotes : n.data \in Seq(DataEntries) /\ n.assets \in Seq(Nat) /\ Len(n.assets) <= 1

VARIABLES clock,
          included,            \* the node: the transaction is in a block
          wait,                \* idle, submitting, asking, asleep, or the result
          deadline, wakeAt, asked

chainVars == <<clock, included, wait, deadline, wakeAt, asked>>

ChainInit ==
  /\ clock = 0 /\ included = FALSE
  /\ wait = "idle" /\ deadline = 0 /\ wakeAt = 0 /\ asked = 0

SubmitTransaction ==
  /\ wait = "idle"
  /\ wait' = "submitting"
  /\ UNCHANGED <<clock, included, deadline, wakeAt, asked>>

\* The node may have taken the transaction all the same.
SubmitFails ==
  /\ wait = "submitting"
  /\ wait' = "submit-error"
  /\ UNCHANGED <<clock, included, deadline, wakeAt, asked>>

\* wait_for_acceptance sets its deadline when the node has acknowledged.
WaitBegins ==
  /\ wait = "submitting"
  /\ wait' = "asking"
  /\ deadline' = clock + AcceptTimeout
  /\ UNCHANGED <<clock, included, wakeAt, asked>>

\* check_accepted says yes.
Accepted ==
  /\ wait = "asking" /\ included
  /\ wait' = "accepted" /\ asked' = asked + 1
  /\ UNCHANGED <<clock, included, deadline, wakeAt>>

\* Another question only if a whole interval is left.
SleepOrGiveUp ==
  IF clock + PollInterval > deadline
  THEN wait' = "timed-out" /\ UNCHANGED wakeAt
  ELSE wait' = "asleep" /\ wakeAt' = clock + PollInterval

\* check_accepted says no, or fails, which is the same to the loop: a no may be old.
NotYet ==
  /\ wait = "asking"
  /\ asked' = asked + 1
  /\ SleepOrGiveUp
  /\ UNCHANGED <<clock, included, deadline>>

Wake ==
  /\ wait = "asleep" /\ clock >= wakeAt
  /\ wait' = "asking"
  /\ UNCHANGED <<clock, included, deadline, wakeAt, asked>>

\* The node mines the transaction, also after the client has given up.
Include ==
  /\ wait # "idle" /\ ~included
  /\ included' = TRUE
  /\ UNCHANGED <<clock, wait, deadline, wakeAt, asked>>

ClockTicks ==
  /\ clock < MaxClock
  /\ clock' = clock + 1
  /\ UNCHANGED <<included, wait, deadline, wakeAt, asked>>

ChainNext ==
  \/ SubmitTransaction \/ SubmitFails \/ WaitBegins
  \/ Accepted \/ NotYet \/ Wake
  \/ Include \/ ClockTicks

ChainSpec == ChainInit /\ [][ChainNext]_chainVars

-----------------------------------------------------------------------------
(* The node between two answers *)

VARIABLES nodeTx,     \* where the transaction is
          nodeNotes,  \* the notes of a key, by their lock
          pastTx, pastNotes,  \* ghosts: what these were since the call began
          moves,      \* counts the steps of the node
          query       \* the call under way, and what it has been told

queryVars == <<nodeTx, nodeNotes, pastTx, pastNotes, moves, query>>

Unknown == [at |-> "unknown"]
Pending == [at |-> "pending"]
InBlock(b) == [at |-> "block", block |-> b]
Places == {Unknown, Pending} \cup { InBlock(b) : b \in ChainBlocks }

NoteLocks == {"coinbase", "simple"}

NoQuery == [kind |-> "none", stage |-> "none", wellFormed |-> TRUE, told |-> << >>]

QueryInit ==
  /\ nodeTx \in Places /\ nodeNotes \in [NoteLocks -> SUBSET WireNotes]
  /\ pastTx = {nodeTx} /\ pastNotes = {nodeNotes}
  /\ moves = 0 /\ query = NoQuery

UnderWay(kind) == query.kind = kind /\ query.stage # "done" /\ moves < MaxMoves /\ moves' = moves + 1

\* A transaction is heard of, mined, lost with its block, or dropped.
TxMoves ==
  /\ UnderWay("receipt")
  /\ nodeTx' \in Places /\ (nodeTx = Pending) # (nodeTx' = Pending)
  /\ pastTx' = pastTx \cup {nodeTx'}
  /\ UNCHANGED <<nodeNotes, pastNotes, query>>

\* A note comes or is spent.
NotesMove ==
  /\ UnderWay("balance")
  /\ \E l \in NoteLocks, n \in WireNotes :
       nodeNotes' = [nodeNotes EXCEPT ![l] = IF n \in @ THEN @ \ {n} ELSE @ \cup {n}]
  /\ pastNotes' = pastNotes \cup {nodeNotes'}
  /\ UNCHANGED <<nodeTx, pastTx, query>>

Done(result) == query' = [query EXCEPT !.stage = "done", !.told = result]

-----------------------------------------------------------------------------
(* Receipts *)

\* What the node answers of a transaction: a reply may be cut short at any field.
Replies(detailed) ==
  { [kind |-> k] : k \in {"unavailable", "error", "empty"} }
    \cup IF ~query.wellFormed THEN { [kind |-> "invalid-argument"] }
         ELSE IF nodeTx = Unknown THEN { [kind |-> "not-found"] }
         ELSE IF nodeTx = Pending THEN { [kind |-> "pending"] }
         ELSE [kind : {"block"}, block : {nodeTx.block}, hashes : BOOLEAN,
               wire : IF detailed THEN TxWires ELSE {<< >>}]

NotFound == [kind |-> "not-found"]
ChainError == [kind |-> "error"]
StillPending == [kind |-> "pending"]

get_transaction_block(reply) ==
  CASE reply.kind \in {"not-found", "invalid-argument"} -> NotFound
    [] reply.kind = "block" /\ reply.hashes -> [kind |-> "in-block", block |-> reply.block]
    [] reply.kind = "pending" -> StillPending
    [] OTHER -> ChainError

\* An input without an amount counts for nothing; an output keeps the want of one.
get_transaction_details(reply) ==
  CASE reply.kind \in {"not-found", "invalid-argument"} -> NotFound
    [] reply.kind = "block" /\ reply.hashes ->
         [kind |-> "found", block |-> reply.block, fee |-> reply.wire.fee,
          outputs |-> reply.wire.outputs,
          inputs |-> [i \in DOMAIN reply.wire.inputs |->
                        IF reply.wire.inputs[i] = << >> THEN 0 ELSE reply.wire.inputs[i][1]]]
    [] reply.kind = "pending" -> StillPending
    [] OTHER -> ChainError

\* Wrong variant of ReceiptOf: the details alone tell of a block.
ReceiptOfDetails(block, details) ==
  LET found == details.kind = "found"
      outputs == IF found THEN details.outputs ELSE << >>
  IN [kind |-> "receipt", accepted |-> found,
      block |-> IF block.kind = "in-block" THEN <<block.block>> ELSE << >>,
      timestamp |-> IF found THEN <<details.block.timestamp>> ELSE << >>,
      fee |-> IF found THEN details.fee ELSE << >>,
      inputs |-> IF found THEN details.inputs ELSE << >>, outputs |-> outputs,
      primary_lock_summary |-> IF Len(outputs) = 1 THEN <<outputs[1].lock>> ELSE << >>]

ReceiptOf(block, details) ==
  LET accepted == block.kind = "in-block"
      found == details.kind = "found"
      outputs == IF found THEN details.outputs ELSE << >>
  IN [kind |-> "receipt", accepted |-> accepted,
      block |-> IF accepted THEN <<block.block>> ELSE << >>,
      timestamp |-> IF accepted THEN <<block.block.timestamp>>
                    ELSE IF found THEN <<details.block.timestamp>> ELSE << >>,
      fee |-> IF found THEN details.fee ELSE << >>,
      inputs |-> IF found THEN details.inputs ELSE << >>, outputs |-> outputs,
      primary_lock_summary |-> IF Len(outputs) = 1 THEN <<outputs[1].lock>> ELSE << >>]

NoAnswer == {"not-found", "error"}

\* fetch_receipt begins, for an id that is one or not.
FetchReceipt ==
  /\ query = NoQuery
  /\ \E wellFormed \in BOOLEAN :
       query' = [NoQuery EXCEPT !.kind = "receipt", !.stage = "block", !.wellFormed = wellFormed]
  /\ UNCHANGED <<nodeTx, nodeNotes, pastTx, pastNotes, moves>>

BlockAnswered ==
  /\ query.kind = "receipt" /\ query.stage = "block"
  /\ \E reply \in Replies(FALSE) :
       LET block == get_transaction_block(reply) IN
         IF block.kind \in NoAnswer THEN Done(block)
         ELSE query' = [query EXCEPT !.stage = "details", !.told = block]
  /\ UNCHANGED <<nodeTx, nodeNotes, pastTx, pastNotes, moves>>

DetailsAnswered ==
  /\ query.kind = "receipt" /\ query.stage = "details"
  /\ \E reply \in Replies(TRUE) :
       LET details == get_transaction_details(reply) IN
         IF details.kind \in NoAnswer THEN Done(details)
         ELSE Done(ReceiptOf(query.told, details))
  /\ UNCHANGED <<nodeTx, nodeNotes, pastTx, pastNotes, moves>>

-----------------------------------------------------------------------------
(* Notes and their data *)

\* What an app puts under a key, in the field or refused: an atom, or a digest as a list.
u64_entry(key, n) == [key |-> key, cell |-> FALSE, limbs |-> <<n>>, intact |-> TRUE]
tip5_entry(key, hash) == [key |-> key, cell |-> TRUE, limbs |-> hash, intact |-> TRUE]
OffField(limbs) == \E i \in DOMAIN limbs : limbs[i] >= FieldSize

\* A blob that is torn or off-field drops its entry and no other.
extract_note_data(note) ==
  IF note.version # "v1" THEN << >>
  ELSE Only(note.data, { e \in Range(note.data) : e.intact /\ ~OffField(e.limbs) })

find_entry(data, key) == Only(data, { e \in Range(data) : e.key = key })

find_u64_entry(data, key) ==
  LET found == find_entry(data, key)
  IN IF found = << >> \/ found[1].cell THEN << >> ELSE found[1].limbs

\* The list is read as far as the digest goes.
find_hash_entry(data, key) ==
  LET found == find_entry(data, key)
  IN IF found = << >> \/ ~found[1].cell \/ Len(found[1].limbs) < HashLimbs THEN << >>
     ELSE SubSeq(found[1].limbs, 1, HashLimbs)

\* A limb that is not set is read as zero.
chain_hash_from_pb(belts) == [i \in DOMAIN belts |-> IF belts[i] = << >> THEN 0 ELSE belts[i][1]]

Spendable(note) ==
  /\ note.name # << >> /\ ~OffField(chain_hash_from_pb(note.name))
  /\ note.version \in {"v1", "legacy"} /\ note.assets # << >>

extract_spendable_utxos(notes) ==
  { [name |-> chain_hash_from_pb(n.name), amount |-> n.assets[1], is_v1 |-> n.version = "v1",
     note_data |-> extract_note_data(n)] : n \in { n \in notes : Spendable(n) } }

\* get_balance_by_pkh begins with the name of mining rewards.
GetBalanceByPkh ==
  /\ query = NoQuery
  /\ query' = [NoQuery EXCEPT !.kind = "balance", !.stage = "coinbase"]
  /\ UNCHANGED <<nodeTx, nodeNotes, pastTx, pastNotes, moves>>

Balance(lock, missed) ==
  [kind |-> "balance", lock |-> lock, missed |-> missed, notes |-> nodeNotes[lock],
   utxos |-> extract_spendable_utxos(nodeNotes[lock])]

\* A query that fails is as one without notes; told keeps which it was.
CoinbaseAnswered ==
  /\ query.kind = "balance" /\ query.stage = "coinbase"
  /\ \E fails \in BOOLEAN :
       IF fails \/ nodeNotes["coinbase"] = {}
       THEN query' = [query EXCEPT !.stage = "simple", !.told = [missed |-> fails]]
       ELSE Done(Balance("coinbase", FALSE))
  /\ UNCHANGED <<nodeTx, nodeNotes, pastTx, pastNotes, moves>>

SimpleAnswered ==
  /\ query.kind = "balance" /\ query.stage = "simple"
  /\ Done(ChainError) \/ Done(Balance("simple", query.told.missed))
  /\ UNCHANGED <<nodeTx, nodeNotes, pastTx, pastNotes, moves>>

QueryNext ==
  \/ TxMoves \/ NotesMove
  \/ FetchReceipt \/ BlockAnswered \/ DetailsAnswered
  \/ GetBalanceByPkh \/ CoinbaseAnswered \/ SimpleAnswered

QuerySpec == QueryInit /\ [][QueryNext]_queryVars

-----------------------------------------------------------------------------
(* Properties *)

ChainTypeOK ==
  /\ clock \in Nat /\ included \in BOOLEAN /\ asked \in Nat
  /\ wait \in {"idle", "submitting", "submit-error", "asking", "asleep", "accepted", "timed-out"}
  /\ deadline \in Nat /\ wakeAt \in Nat

\* What the wait tells its caller: a yes means that the transaction is in a block; a
\* time-out means that the node was asked at least once and that no whole interval
\* was left; and the client never sleeps past its deadline, so that the time it takes
\* beyond it is that of one answer.  A time-out does not say that the transaction
\* will not be mined.
WaitTells ==
  /\ wait = "accepted" => included
  /\ wait = "timed-out" => asked > 0 /\ clock + PollInterval > deadline
  /\ wait = "asleep" => wakeAt <= deadline

AnswerIs(kind) == query.stage = "done" /\ query.told.kind = kind

\* What a receipt tells, although the node moves on between the two calls it is made of:
\* one that is accepted names a block that the transaction was in, and its time; one that
\* is not was pending, and has a time, inputs and outputs only if a block came meanwhile;
\* one that is accepted without outputs lost its block meanwhile; and "not found" is said
\* only of an id that is none, or while the node did not know it.
ReceiptTells ==
  /\ AnswerIs("not-found") => ~query.wellFormed \/ Unknown \in pastTx
  /\ AnswerIs("receipt") =>
       LET r == query.told
           detailed == r.outputs # << >>
           mined == { b \in ChainBlocks : InBlock(b) \in pastTx }
       IN /\ r.accepted <=> r.block # << >>
          /\ r.accepted => r.block[1] \in mined /\ r.timestamp = <<r.block[1].timestamp>>
          /\ r.accepted # detailed => Pending \in pastTx
          /\ detailed => mined # {}
          /\ r.timestamp # << >> => \E b \in mined : r.timestamp = <<b.timestamp>>
          /\ r.timestamp = << >> => ~r.accepted /\ ~detailed /\ Pending \in pastTx
          /\ r.primary_lock_summary # << >> => detailed /\ Len(r.outputs) = 1

\* What was put under a key of its own is read back as what it was, and only so,
\* whatever is there under other keys; what is torn or off-field is not there.
ReadsBack(put, data) ==
  \A i \in DOMAIN put : (\A j \in DOMAIN put : put[j].key = put[i].key => j = i) =>
    LET key == put[i].key
        readable == put[i].intact /\ ~OffField(put[i].limbs)
    IN /\ find_u64_entry(data, key) = IF readable /\ ~put[i].cell THEN put[i].limbs ELSE << >>
       /\ readable /\ put[i] = tip5_entry(key, put[i].limbs) /\ Len(put[i].limbs) = HashLimbs =>
            find_hash_entry(data, key) = put[i].limbs
       /\ find_hash_entry(data, key) # << >> => readable /\ put[i].cell

\* What is made of a note tells its name, its amount and its kind, and its data.
ReadAs(utxo, note) ==
  /\ utxo.name = chain_hash_from_pb(note.name) /\ ~OffField(utxo.name)
  /\ note.assets = <<utxo.amount>>
  /\ utxo.is_v1 = (note.version = "v1")
  /\ IF utxo.is_v1 THEN ReadsBack(note.data, utxo.note_data) ELSE utxo.note_data = << >>

\* What a balance tells: the notes that one lock had at one moment, each that can be read
\* and no other, with the data that was put there.  It is empty only if the key had no
\* reward then and nothing else later, or rewards that cannot be read, or if the first of
\* the two queries failed, which nobody is told.
BalanceTells ==
  AnswerIs("balance") =>
    LET b == query.told
        had(lock, notes) == \E p \in pastNotes : p[lock] = notes
    IN /\ had(b.lock, b.notes)
       /\ b.lock = "simple" => b.missed \/ had("coinbase", {})
       /\ b.lock = "coinbase" => b.notes # {}
       /\ \A n \in b.notes : Spendable(n) => \E u \in b.utxos : ReadAs(u, n)
       /\ \A u \in b.utxos : \E n \in b.notes : Spendable(n) /\ ReadAs(u, n)

\* Whatever the client asks, the answer says what was so while it asked.
ClientTells == WaitTells /\ ReceiptTells /\ BalanceTells

=============================================================================
