----------------------------- MODULE ToolProofs -----------------------------
(* Proofs about the SDK's duplicate cache (SdkSettle), the snapshots of       *)
(* vesl-checkpoint (Checkpoint), what the chain client is told (ChainClient), the *)
(* renaming of a kernel (RenameKernel), the boot of a hull (SettlementConfig), *)
(* the replay cache of the wallet's messages (SiwnReplay), the watch of a      *)
(* running kernel (Watch), what graft-inject writes (GraftInject), what the     *)
(* ++load it writes does (LoadOverlay), and the caps of the rules              *)
(* (ValidateGraft).                                                            *)
EXTENDS SdkSettle, Checkpoint, ChainClient, RenameKernel, SettlementConfig, SiwnReplay, Watch,
        GraftInject, LoadOverlay, ValidateGraft, Inductions, FiniteSetTheorems, SequenceTheorems, TLAPS

-----------------------------------------------------------------------------
(* ChainClient *)

\* The type invariant of the chain client.
LEMMA ChainTyped == ChainSpec => []ChainTypeOK
<1> DEFINE Times == clock \in Nat /\ asked \in Nat /\ deadline \in Nat /\ wakeAt \in Nat
           Stages == wait \in {"idle", "submitting", "submit-error", "asking", "asleep",
                               "accepted", "timed-out"}
           Seen == included \in BOOLEAN
<1>1. ChainInit => Times /\ Stages /\ Seen
  <2>1. ChainInit => Times /\ Stages
    BY DEF ChainInit
  <2>2. ChainInit => Seen
    BY Zenon DEF ChainInit
  <2>3. QED
    BY <2>1, <2>2
<1>2. Times /\ [ChainNext]_chainVars => Times'
  BY ChainAssumption DEF ChainNext, chainVars, SubmitTransaction, SubmitFails,
     WaitBegins, Accepted, SleepOrGiveUp, NotYet, Wake, Include, ClockTicks
<1>3. Stages /\ [ChainNext]_chainVars => Stages'
  BY DEF ChainNext, chainVars, SubmitTransaction, SubmitFails,
     WaitBegins, Accepted, SleepOrGiveUp, NotYet, Wake, Include, ClockTicks
<1>4. Seen /\ [ChainNext]_chainVars => Seen'
  BY Zenon DEF ChainNext, chainVars, SubmitTransaction, SubmitFails,
     WaitBegins, Accepted, SleepOrGiveUp, NotYet, Wake, Include, ClockTicks
<1>5. Times /\ Stages /\ Seen => ChainTypeOK
  BY DEF ChainTypeOK
<1> HIDE DEF Times, Stages, Seen
<1>6. QED
  BY <1>1, <1>2, <1>3, <1>4, <1>5, PTL DEF ChainSpec

\* The answer of the wait stays true while the node and the clock go on: for every
\* interval and every time-out, one of which may be the larger.
THEOREM WaitTellsCorrect == ChainSpec => []WaitTells
<1>1. ChainInit => WaitTells
  BY DEF ChainInit, WaitTells
<1>2. ChainTypeOK /\ WaitTells /\ [ChainNext]_chainVars => WaitTells'
  <2> SUFFICES ASSUME ChainTypeOK, WaitTells, [ChainNext]_chainVars PROVE WaitTells'
    OBVIOUS
  <2>1. CASE SubmitTransaction \/ SubmitFails \/ WaitBegins \/ Accepted \/ Wake \/ Include
    BY <2>1 DEF SubmitTransaction, SubmitFails, WaitBegins, Accepted, Wake, Include, WaitTells
  <2>2. CASE NotYet
    BY <2>2, ChainAssumption DEF NotYet, SleepOrGiveUp, WaitTells, ChainTypeOK
  <2>3. CASE ClockTicks
    BY <2>3, ChainAssumption DEF ClockTicks, WaitTells, ChainTypeOK
  <2>4. CASE UNCHANGED chainVars
    BY <2>4 DEF chainVars, WaitTells
  <2>5. QED
    BY <2>1, <2>2, <2>3, <2>4 DEF ChainNext
<1>3. QED
  BY <1>1, <1>2, ChainTyped, PTL DEF ChainSpec

-----------------------------------------------------------------------------
(* ChainClient: the calls that ask twice *)

\* What a reply of the node says of the transaction.
LEMMA ReplyTells ==
  ASSUME nodeTx \in Places, NEW detailed \in BOOLEAN, NEW reply \in Replies(detailed)
  PROVE  /\ reply.kind \in {"unavailable", "error", "empty", "invalid-argument", "not-found",
                            "pending", "block"}
         /\ reply.kind = "invalid-argument" => ~query.wellFormed
         /\ reply.kind = "not-found" => nodeTx = Unknown
         /\ reply.kind = "pending" => nodeTx = Pending
         /\ reply.kind = "block" =>
              /\ reply.block \in ChainBlocks /\ nodeTx = InBlock(reply.block)
              /\ detailed => reply.wire \in TxWires
<1>1. Unknown # Pending /\ \A b : InBlock(b) # Unknown /\ InBlock(b) # Pending
  BY DEF Unknown, Pending, InBlock
<1>2. CASE reply \in { [kind |-> k] : k \in {"unavailable", "error", "empty"} }
  BY <1>2
<1>3. CASE ~query.wellFormed /\ reply = [kind |-> "invalid-argument"]
  BY <1>3
<1>4. CASE nodeTx = Unknown /\ reply = [kind |-> "not-found"]
  BY <1>4
<1>5. CASE nodeTx = Pending /\ reply = [kind |-> "pending"]
  BY <1>5
<1>6. CASE /\ nodeTx # Unknown /\ nodeTx # Pending
           /\ reply \in [kind : {"block"}, block : {nodeTx.block}, hashes : BOOLEAN,
                         wire : IF detailed THEN TxWires ELSE {<< >>}]
  <2>1. PICK b \in ChainBlocks : nodeTx = InBlock(b)
    BY <1>6 DEF Places
  <2>2. nodeTx.block = b
    BY <2>1 DEF InBlock
  <2>3. reply.kind = "block" /\ reply.block = b /\ (detailed => reply.wire \in TxWires)
    BY <1>6, <2>2
  <2>4. QED  BY <2>1, <2>3
<1>7. QED
  BY <1>1, <1>2, <1>3, <1>4, <1>5, <1>6 DEF Replies

\* The block that a call was told of is one that the transaction was in, or it was pending.
BlockToldOf(told) ==
  \/ told = StillPending /\ Pending \in pastTx
  \/ \E b \in ChainBlocks : told = [kind |-> "in-block", block |-> b] /\ InBlock(b) \in pastTx

QueryShape ==
  /\ nodeTx \in Places /\ nodeTx \in pastTx /\ nodeNotes \in pastNotes
  /\ nodeNotes \in [NoteLocks -> SUBSET WireNotes]
  /\ query = [kind |-> query.kind, stage |-> query.stage, wellFormed |-> query.wellFormed,
              told |-> query.told]
  /\ query.stage \in {"none", "block", "details", "coinbase", "simple", "done"}
  /\ query.stage = "details" => BlockToldOf(query.told)

\* What the second question about the notes knows of the first.
SimpleKnows ==
  query.stage = "simple" => query.told.missed \/ \E p \in pastNotes : p["coinbase"] = {}

LEMMA QueryInitShape == QueryInit => QueryShape /\ SimpleKnows
  BY DEF QueryInit, QueryShape, SimpleKnows, NoQuery

LEMMA QueryNextShape == QueryShape /\ [QueryNext]_queryVars => QueryShape'
<1> SUFFICES ASSUME QueryShape, [QueryNext]_queryVars PROVE QueryShape'
  OBVIOUS
<1> USE DEF QueryShape
<1>1. CASE TxMoves
  BY <1>1 DEF TxMoves, BlockToldOf
<1>2. CASE NotesMove
  BY <1>2 DEF NotesMove, BlockToldOf
<1>3. CASE FetchReceipt \/ GetBalanceByPkh
  BY <1>3 DEF FetchReceipt, GetBalanceByPkh, NoQuery, BlockToldOf
<1>4. CASE BlockAnswered
  <2>1. PICK reply \in Replies(FALSE) :
          IF get_transaction_block(reply).kind \in NoAnswer THEN Done(get_transaction_block(reply))
          ELSE query' = [query EXCEPT !.stage = "details", !.told = get_transaction_block(reply)]
    BY <1>4 DEF BlockAnswered
  <2>2. UNCHANGED <<nodeTx, nodeNotes, pastTx, pastNotes>>
    BY <1>4 DEF BlockAnswered
  <2>3. CASE get_transaction_block(reply).kind \in NoAnswer
    BY <2>1, <2>2, <2>3 DEF Done
  <2>4. CASE get_transaction_block(reply).kind \notin NoAnswer
    <3>1. BlockToldOf(get_transaction_block(reply))
      BY <2>4, ReplyTells DEF get_transaction_block, NoAnswer, NotFound, ChainError, StillPending,
         BlockToldOf
    <3>2. BlockToldOf(get_transaction_block(reply))'
      BY <3>1, <2>2 DEF BlockToldOf, get_transaction_block, StillPending, InBlock, Pending, NotFound,
         ChainError
    <3>3. query'.told = get_transaction_block(reply) /\ query'.stage = "details"
      BY <2>1, <2>4
    <3>4. QED
      BY <2>1, <2>2, <2>4, <3>2, <3>3
  <2>5. QED  BY <2>3, <2>4
<1>5. CASE DetailsAnswered
  BY <1>5 DEF DetailsAnswered, Done
<1>6. CASE CoinbaseAnswered
  BY <1>6 DEF CoinbaseAnswered, Done
<1>7. CASE SimpleAnswered
  BY <1>7 DEF SimpleAnswered, Done
<1>8. CASE UNCHANGED queryVars
  BY <1>8 DEF queryVars, BlockToldOf
<1>9. QED
  BY <1>1, <1>2, <1>3, <1>4, <1>5, <1>6, <1>7, <1>8 DEF QueryNext

\* A receipt is made of two answers, between which the node may have moved.
LEMMA ReceiptMade ==
  ASSUME QueryShape, query.stage = "details", NEW reply \in Replies(TRUE),
         get_transaction_details(reply).kind \notin NoAnswer, UNCHANGED pastTx,
         query' = [query EXCEPT !.stage = "done",
                                !.told = ReceiptOf(query.told, get_transaction_details(reply))]
  PROVE  ReceiptTells'
<1> DEFINE details == get_transaction_details(reply)
           told == query.told
           r == query'.told
           mined == { b \in ChainBlocks : InBlock(b) \in pastTx' }
<1>1. r = ReceiptOf(told, details) /\ r.kind = "receipt" /\ pastTx' = pastTx
  BY DEF QueryShape, ReceiptOf
<1>2. \/ details = StillPending /\ Pending \in pastTx
      \/ /\ details.kind = "found" /\ details.block \in mined
         /\ details.outputs # << >>
  <2>1. nodeTx \in Places /\ nodeTx \in pastTx
    BY DEF QueryShape
  <2>2. CASE reply.kind = "pending"
    BY <2>1, <2>2, ReplyTells DEF get_transaction_details
  <2>3. CASE reply.kind = "block" /\ reply.hashes
    <3>1. reply.block \in mined /\ reply.wire \in TxWires
      BY <2>1, <2>3, ReplyTells
    <3>2. reply.wire.outputs # << >>
      BY <3>1, ChainAssumption
    <3>3. details.kind = "found" /\ details.block = reply.block /\ details.outputs = reply.wire.outputs
      BY <2>3 DEF get_transaction_details
    <3>4. QED  BY <3>1, <3>2, <3>3
  <2>4. QED
    BY <2>2, <2>3 DEF get_transaction_details, NoAnswer, NotFound, ChainError
<1>3. BlockToldOf(told)
  BY DEF QueryShape
<1> HIDE DEF details
<1>4. \/ told.kind = "pending" /\ Pending \in pastTx
      \/ told.kind = "in-block" /\ told.block \in mined
  <2>1. CASE told = StillPending /\ Pending \in pastTx
    BY <2>1 DEF StillPending
  <2>2. CASE \E b \in ChainBlocks : told = [kind |-> "in-block", block |-> b] /\ InBlock(b) \in pastTx
    BY <2>2
  <2>3. QED  BY <1>3, <2>1, <2>2 DEF BlockToldOf
<1>5. \/ details.kind = "pending" /\ Pending \in pastTx
      \/ details.kind = "found" /\ details.block \in mined /\ details.outputs # << >>
  BY <1>2 DEF StillPending
<1> DEFINE toldIn == told.kind = "in-block"
           found == details.kind = "found"
<1>6. /\ r.accepted = toldIn
      /\ r.block = IF toldIn THEN <<told.block>> ELSE << >>
      /\ r.timestamp = IF toldIn THEN <<told.block.timestamp>>
                       ELSE IF found THEN <<details.block.timestamp>> ELSE << >>
      /\ r.outputs = IF found THEN details.outputs ELSE << >>
      /\ r.primary_lock_summary # << >> => Len(r.outputs) = 1
  BY <1>1 DEF ReceiptOf
<1>7. found <=> r.outputs # << >>
  BY <1>5, <1>6
<1> HIDE DEF r, told, mined, found
<1> HIDE DEF toldIn
<1>8. r.primary_lock_summary # << >> => r.outputs # << >>
  <2>1. Len(<< >>) # 1
    OBVIOUS
  <2>2. QED  BY <1>6, <2>1
<1>9. /\ r.accepted <=> r.block # << >>
      /\ r.accepted => r.block[1] \in mined /\ r.timestamp = <<r.block[1].timestamp>>
      /\ r.accepted # (r.outputs # << >>) => Pending \in pastTx
      /\ r.outputs # << >> => mined # {}
      /\ r.timestamp # << >> => \E b \in mined : r.timestamp = <<b.timestamp>>
      /\ r.timestamp = << >> => ~r.accepted /\ ~(r.outputs # << >>) /\ Pending \in pastTx
  <2>1. \A x : <<x>> # << >> /\ <<x>>[1] = x
    OBVIOUS
  <2>2. toldIn \in BOOLEAN /\ found \in BOOLEAN
    BY DEF toldIn, found
  <2>3. CASE toldIn
    <3>1. told.block \in mined /\ r.accepted = TRUE /\ r.block = <<told.block>>
          /\ r.timestamp = <<told.block.timestamp>>
      BY <2>3, <1>4, <1>6 DEF toldIn
    <3>2. ~found => Pending \in pastTx
      BY <1>5 DEF found
    <3>3. QED  BY <2>1, <3>1, <3>2, <1>7
  <2>4. CASE ~toldIn
    <3>1. Pending \in pastTx /\ r.accepted = FALSE /\ r.block = << >>
      BY <2>4, <1>4, <1>6 DEF toldIn
    <3>2. CASE found
      <4>1. details.block \in mined /\ r.timestamp = <<details.block.timestamp>>
        BY <2>4, <3>2, <1>5, <1>6 DEF found
      <4>2. QED  BY <2>1, <3>1, <4>1
    <3>3. CASE ~found
      <4>1. r.timestamp = << >>
        BY <2>4, <3>3, <1>6
      <4>2. QED  BY <3>1, <3>3, <4>1, <1>7
    <3>4. QED  BY <3>2, <3>3
  <2>5. QED  BY <2>3, <2>4
<1>10. QED
  <2>1. ~AnswerIs("not-found")'
    BY <1>1 DEF AnswerIs, r
  <2>2. /\ r.accepted <=> r.block # << >>
        /\ r.accepted => r.block[1] \in mined /\ r.timestamp = <<r.block[1].timestamp>>
        /\ r.accepted # (r.outputs # << >>) => Pending \in pastTx'
        /\ r.outputs # << >> => mined # {}
        /\ r.timestamp # << >> => \E b \in mined : r.timestamp = <<b.timestamp>>
        /\ r.timestamp = << >> => ~r.accepted /\ ~(r.outputs # << >>) /\ Pending \in pastTx'
        /\ r.primary_lock_summary # << >> => r.outputs # << >> /\ Len(r.outputs) = 1
    BY <1>1, <1>6, <1>8, <1>9
  <2>3. QED
    BY <2>1, <2>2, Zenon DEF ReceiptTells, InBlock, Pending, Unknown, r, mined

LEMMA ReceiptNext ==
  QueryShape /\ ReceiptTells /\ [QueryNext]_queryVars => ReceiptTells'
<1> SUFFICES ASSUME QueryShape, ReceiptTells, [QueryNext]_queryVars PROVE ReceiptTells'
  OBVIOUS
<1>1. ASSUME query'.stage # "done" PROVE ReceiptTells'
  BY <1>1 DEF ReceiptTells, AnswerIs
<1>2. CASE TxMoves \/ NotesMove
  BY <1>1, <1>2 DEF TxMoves, NotesMove, UnderWay
<1>3. CASE FetchReceipt \/ GetBalanceByPkh
  BY <1>1, <1>3 DEF FetchReceipt, GetBalanceByPkh, NoQuery
<1>4. CASE BlockAnswered
  <2>1. PICK reply \in Replies(FALSE) :
          IF get_transaction_block(reply).kind \in NoAnswer THEN Done(get_transaction_block(reply))
          ELSE query' = [query EXCEPT !.stage = "details", !.told = get_transaction_block(reply)]
    BY <1>4 DEF BlockAnswered
  <2>2. CASE get_transaction_block(reply).kind \notin NoAnswer
    BY <1>1, <2>1, <2>2 DEF QueryShape
  <2>3. CASE get_transaction_block(reply).kind = "error"
    BY <2>1, <2>3 DEF NoAnswer, Done, QueryShape, ReceiptTells, AnswerIs
  <2>4. CASE get_transaction_block(reply).kind = "not-found"
    <3>1. reply.kind \in {"not-found", "invalid-argument"}
      BY <2>4, ReplyTells DEF get_transaction_block, StillPending, ChainError, QueryShape
    <3>2. ~query.wellFormed \/ Unknown \in pastTx
      BY <3>1, ReplyTells DEF QueryShape
    <3>3. query'.told.kind = "not-found" /\ query'.wellFormed = query.wellFormed
      BY <2>1, <2>4 DEF NoAnswer, Done, QueryShape
    <3>4. pastTx' = pastTx
      BY <1>4 DEF BlockAnswered
    <3>5. QED
      BY <3>2, <3>3, <3>4 DEF ReceiptTells, AnswerIs, Unknown
  <2>5. QED  BY <2>2, <2>3, <2>4 DEF NoAnswer
<1>5. CASE DetailsAnswered
  <2>1. PICK reply \in Replies(TRUE) :
          IF get_transaction_details(reply).kind \in NoAnswer THEN Done(get_transaction_details(reply))
          ELSE Done(ReceiptOf(query.told, get_transaction_details(reply)))
    BY <1>5 DEF DetailsAnswered
  <2>2. CASE get_transaction_details(reply).kind \notin NoAnswer
    BY <1>5, <2>1, <2>2, ReceiptMade DEF DetailsAnswered, Done
  <2>3. CASE get_transaction_details(reply).kind = "error"
    BY <2>1, <2>3 DEF NoAnswer, Done, QueryShape, ReceiptTells, AnswerIs
  <2>4. CASE get_transaction_details(reply).kind = "not-found"
    <3>1. reply.kind \in {"not-found", "invalid-argument"}
      BY <2>4, ReplyTells DEF get_transaction_details, StillPending, ChainError, QueryShape
    <3>2. ~query.wellFormed \/ Unknown \in pastTx
      BY <3>1, ReplyTells DEF QueryShape
    <3>3. query'.told.kind = "not-found" /\ query'.wellFormed = query.wellFormed
      BY <2>1, <2>4 DEF NoAnswer, Done, QueryShape
    <3>4. pastTx' = pastTx
      BY <1>5 DEF DetailsAnswered
    <3>5. QED
      BY <3>2, <3>3, <3>4 DEF ReceiptTells, AnswerIs, Unknown
  <2>5. QED  BY <2>2, <2>3, <2>4 DEF NoAnswer
<1>6. CASE CoinbaseAnswered \/ SimpleAnswered
  <2>a. \A r : r.kind \in {"balance", "error"} /\ Done(r) => query'.told.kind \in {"balance", "error"}
    BY DEF Done, QueryShape
  <2>b. ChainError.kind = "error" /\ \A l, m : Balance(l, m).kind = "balance"
    BY DEF ChainError, Balance
  <2>1. query'.stage # "done" \/ query'.told.kind \in {"balance", "error"}
    <3>1. CASE CoinbaseAnswered
      <4>1. CASE Done(Balance("coinbase", FALSE))
        BY <4>1, <2>a, <2>b
      <4>2. CASE \E fails \in BOOLEAN :
                   query' = [query EXCEPT !.stage = "simple", !.told = [missed |-> fails]]
        BY <4>2 DEF QueryShape
      <4>3. QED  BY <3>1, <4>1, <4>2 DEF CoinbaseAnswered
    <3>2. CASE SimpleAnswered
      BY <3>2, <2>a, <2>b DEF SimpleAnswered
    <3>3. QED  BY <1>6, <3>1, <3>2
  <2>2. QED
    BY <2>1 DEF ReceiptTells, AnswerIs
<1>7. CASE UNCHANGED queryVars
  BY <1>7 DEF queryVars, ReceiptTells, AnswerIs, InBlock, Unknown, Pending
<1>8. QED
  BY <1>2, <1>3, <1>4, <1>5, <1>6, <1>7 DEF QueryNext

\* A receipt tells what was so while it was asked for: for every set of blocks and of
\* details, and however the transaction moves between the two answers.
THEOREM ReceiptTellsCorrect == QuerySpec => []ReceiptTells
<1>1. QueryInit => ReceiptTells
  BY DEF QueryInit, NoQuery, ReceiptTells, AnswerIs
<1>2. QED
  BY <1>1, QueryInitShape, QueryNextShape, ReceiptNext, PTL DEF QuerySpec

-----------------------------------------------------------------------------
(* ChainClient: notes *)

\* The entries that can be read.
Readable(data) == { e \in Range(data) : e.intact /\ ~OffField(e.limbs) }

\* The only entry of its key is found if it can be read, and then it alone.
LEMMA FindsOnly ==
  ASSUME NEW data \in Seq(DataEntries), NEW i \in DOMAIN data,
         \A j \in DOMAIN data : data[j].key = data[i].key => j = i
  PROVE  LET found == find_entry(Only(data, Readable(data)), data[i].key) IN
           IF data[i] \in Readable(data)
           THEN \E n \in Nat \ {0} : Len(found) = n /\ found[1] = data[i]
           ELSE found = << >>
<1> DEFINE K == Readable(data)
           kept == Only(data, K)
           key == data[i].key
           R == { e \in Range(kept) : e.key = key }
           found == Only(kept, R)
<1>1. kept \in Seq(DataEntries) /\ kept \in Seq(K)
  BY OnlyType
<1>2. DOMAIN data = 1 .. Len(data) /\ i \in 1 .. Len(data) /\ Len(data) \in Nat
  OBVIOUS
<1>3. \A e \in Range(kept) : e \in K
  BY <1>1 DEF Range
<1>4. R \subseteq K
  BY <1>3
<1>5. found = Only(data, R)
  BY <1>4, OnlyOnly
<1>6. found \in Seq(R) /\ found \in Seq(DataEntries)
  BY <1>5, OnlyType
<1>7. \A e \in R : e = data[i]
  <2> SUFFICES ASSUME NEW e \in R PROVE e = data[i]
    OBVIOUS
  <2>1. e \in K /\ e.key = key
    BY <1>4
  <2>2. PICK j \in DOMAIN data : data[j] = e
    BY <2>1 DEF Readable, Range
  <2>3. QED  BY <2>1, <2>2
<1>8. CASE data[i] \in K
  <2>1. PICK j \in 1 .. Len(kept) : kept[j] = data[i]
    BY <1>2, <1>8, OnlyHas
  <2>2. data[i] \in R
    BY <1>1, <2>1 DEF Range
  <2> HIDE DEF R
  <2>a. \E n \in 1 .. Len(Only(data, R)) : Only(data, R)[n] = data[i]
    BY <1>2, <2>2, OnlyHas
  <2> HIDE DEF found
  <2>3. PICK n \in 1 .. Len(found) : found[n] = data[i]
    BY <1>5, <2>a
  <2>4. Len(found) \in Nat \ {0} /\ found[1] \in R
    BY <1>6, <2>3
  <2>5. found[1] = data[i]
    BY <1>7, <2>4
  <2>6. QED
    BY <1>8, <2>4, <2>5 DEF find_entry, found, R
<1>9. CASE data[i] \notin K
  <2>1. R = {}
    BY <1>4, <1>7, <1>9
  <2>2. \A k \in 1 .. Len(data) : data[k] \notin R
    BY <2>1
  <2>3. found = << >>
    BY <1>5, <2>2, OnlyNone
  <2>4. QED
    BY <1>9, <2>3 DEF find_entry
<1>10. QED
  BY <1>8, <1>9

\* What is put under a key of its own is read back, by a chain that has a field and a hash
\* of any size.
LEMMA DataReadsBack ==
  ASSUME NEW data \in Seq(DataEntries)
  PROVE  ReadsBack(data, Only(data, Readable(data)))
<1> DEFINE kept == Only(data, Readable(data))
<1> SUFFICES ASSUME NEW i \in DOMAIN data,
                    \A j \in DOMAIN data : data[j].key = data[i].key => j = i
             PROVE  LET key == data[i].key
                        readable == data[i].intact /\ ~OffField(data[i].limbs)
                    IN /\ find_u64_entry(kept, key) =
                            IF readable /\ ~data[i].cell THEN data[i].limbs ELSE << >>
                       /\ readable /\ data[i] = tip5_entry(key, data[i].limbs)
                            /\ Len(data[i].limbs) = HashLimbs =>
                            find_hash_entry(kept, key) = data[i].limbs
                       /\ find_hash_entry(kept, key) # << >> => readable /\ data[i].cell
  BY Zenon DEF ReadsBack
<1> DEFINE key == data[i].key
           readable == data[i].intact /\ ~OffField(data[i].limbs)
           found == find_entry(kept, key)
<1>1. data[i] \in DataEntries /\ data[i] \in Range(data)
  BY DEF Range
<1>2. readable <=> data[i] \in Readable(data)
  BY <1>1 DEF Readable
<1>3. IF readable THEN \E n \in Nat \ {0} : Len(found) = n /\ found[1] = data[i] ELSE found = << >>
  BY <1>2, FindsOnly
<1>4. data[i].limbs \in Seq(Nat) /\ data[i].cell \in BOOLEAN
  BY <1>1 DEF DataEntries
<1>5. SubSeq(data[i].limbs, 1, Len(data[i].limbs)) = data[i].limbs
  BY <1>4
<1>6. find_u64_entry(kept, key) = IF found = << >> \/ found[1].cell THEN << >> ELSE found[1].limbs
  BY DEF find_u64_entry
<1>7. find_hash_entry(kept, key) =
        IF found = << >> \/ ~found[1].cell \/ Len(found[1].limbs) < HashLimbs THEN << >>
        ELSE SubSeq(found[1].limbs, 1, HashLimbs)
  BY DEF find_hash_entry
<1> HIDE DEF kept, key, found
<1>8. CASE readable
  <2>1. found # << >> /\ found[1] = data[i]
    BY <1>3, <1>8
  <2>2. find_u64_entry(kept, key) = IF data[i].cell THEN << >> ELSE data[i].limbs
    BY <1>6, <2>1
  <2>3. ~data[i].cell => find_hash_entry(kept, key) = << >>
    BY <1>7, <2>1
  <2>4. ASSUME data[i] = tip5_entry(key, data[i].limbs), Len(data[i].limbs) = HashLimbs
        PROVE  find_hash_entry(kept, key) = data[i].limbs
    <3>1. data[i].cell = TRUE
      BY <2>4 DEF tip5_entry
    <3>2. ~(Len(data[i].limbs) < HashLimbs)
      BY <2>4, ChainAssumption
    <3>3. QED
      BY <1>5, <1>7, <2>1, <2>4, <3>1, <3>2
  <2>5. QED
    BY <1>4, <1>8, <2>2, <2>3, <2>4 DEF key
<1>9. CASE ~readable
  <2>1. find_u64_entry(kept, key) = << >> /\ find_hash_entry(kept, key) = << >>
    BY <1>3, <1>6, <1>7, <1>9
  <2>2. QED
    BY <1>9, <2>1 DEF key
<1>10. QED
  BY <1>8, <1>9

\* What is made of a set of notes: each that can be read, and no other.
LEMMA NotesAreRead ==
  ASSUME NEW notes \in SUBSET WireNotes
  PROVE  LET utxos == extract_spendable_utxos(notes) IN
           /\ \A n \in notes : Spendable(n) => \E u \in utxos : ReadAs(u, n)
           /\ \A u \in utxos : \E n \in notes : Spendable(n) /\ ReadAs(u, n)
<1> DEFINE made(n) == [name |-> chain_hash_from_pb(n.name), amount |-> n.assets[1],
                       is_v1 |-> n.version = "v1", note_data |-> extract_note_data(n)]
<1>1. ASSUME NEW n \in WireNotes, Spendable(n) PROVE ReadAs(made(n), n)
  <2>1. n.data \in Seq(DataEntries) /\ n.assets \in Seq(Nat) /\ Len(n.assets) <= 1
        /\ n.assets # << >> /\ ~OffField(chain_hash_from_pb(n.name))
    BY <1>1, ChainAssumption DEF Spendable
  <2>2. n.assets = <<n.assets[1]>>
    <3>1. Len(n.assets) = 1
      <4>1. Len(n.assets) \in Nat \ {0}
        BY <2>1, EmptySeq
      <4> DEFINE k == Len(n.assets)
      <4>2. k \in Nat \ {0} /\ k <= 1
        BY <2>1, <4>1
      <4> HIDE DEF k
      <4>3. k = 1
        BY <4>2
      <4>4. QED  BY <4>3 DEF k
    <3>2. QED  BY <2>1, <3>1
  <2>3. n.version = "v1" => ReadsBack(n.data, extract_note_data(n))
    BY <2>1, DataReadsBack DEF extract_note_data, Readable
  <2>4. n.version # "v1" => extract_note_data(n) = << >>
    BY DEF extract_note_data
  <2>5. /\ made(n).name = chain_hash_from_pb(n.name) /\ made(n).amount = n.assets[1]
        /\ made(n).is_v1 = (n.version = "v1") /\ made(n).note_data = extract_note_data(n)
    OBVIOUS
  <2> HIDE DEF made
  <2>6. QED
    BY <2>1, <2>2, <2>3, <2>4, <2>5 DEF ReadAs
<1>2. extract_spendable_utxos(notes) = { made(n) : n \in { n \in notes : Spendable(n) } }
  BY DEF extract_spendable_utxos
<1> HIDE DEF made
<1>3. QED
  BY <1>1, <1>2

LEMMA BalanceMade ==
  ASSUME QueryShape, NEW lock \in NoteLocks, NEW missed, UNCHANGED pastNotes,
         lock = "simple" => missed \/ \E p \in pastNotes : p["coinbase"] = {},
         lock = "coinbase" => nodeNotes[lock] # {},
         query' = [query EXCEPT !.stage = "done", !.told = Balance(lock, missed)]
  PROVE  BalanceTells'
<1> DEFINE b == query'.told
<1>1. b = Balance(lock, missed)
  BY DEF QueryShape
<1>2. /\ b.lock = lock /\ b.missed = missed /\ b.notes = nodeNotes[lock]
      /\ b.utxos = extract_spendable_utxos(nodeNotes[lock])
  BY <1>1 DEF Balance
<1>3. nodeNotes[lock] \in SUBSET WireNotes /\ nodeNotes \in pastNotes
  BY DEF QueryShape
<1>4. /\ \A n \in b.notes : Spendable(n) => \E u \in b.utxos : ReadAs(u, n)
      /\ \A u \in b.utxos : \E n \in b.notes : Spendable(n) /\ ReadAs(u, n)
  BY <1>2, <1>3, NotesAreRead
<1> HIDE DEF b
<1>5. /\ \E p \in pastNotes' : p[b.lock] = b.notes
      /\ b.lock = "simple" => b.missed \/ \E p \in pastNotes' : p["coinbase"] = {}
      /\ b.lock = "coinbase" => b.notes # {}
  BY <1>2, <1>3
<1>6. QED
  BY <1>4, <1>5, Zenon DEF BalanceTells, b

LEMMA SimpleKnowsNext ==
  QueryShape /\ SimpleKnows /\ [QueryNext]_queryVars => SimpleKnows'
<1> SUFFICES ASSUME QueryShape, SimpleKnows, [QueryNext]_queryVars PROVE SimpleKnows'
  OBVIOUS
<1> USE DEF QueryShape, SimpleKnows
<1>1. CASE TxMoves
  BY <1>1 DEF TxMoves
<1>2. CASE NotesMove
  BY <1>2 DEF NotesMove
<1>3. CASE FetchReceipt \/ GetBalanceByPkh
  BY <1>3 DEF FetchReceipt, GetBalanceByPkh, NoQuery
<1>4. CASE BlockAnswered
  BY <1>4 DEF BlockAnswered, Done
<1>5. CASE DetailsAnswered
  BY <1>5 DEF DetailsAnswered, Done
<1>6. CASE CoinbaseAnswered
  <2>1. nodeNotes \in pastNotes' /\ pastNotes' = pastNotes
    BY <1>6 DEF CoinbaseAnswered
  <2>2. CASE Done(Balance("coinbase", FALSE))
    BY <2>2 DEF Done
  <2>3. CASE \E fails \in BOOLEAN :
               /\ fails \/ nodeNotes["coinbase"] = {}
               /\ query' = [query EXCEPT !.stage = "simple", !.told = [missed |-> fails]]
    BY <2>1, <2>3
  <2>4. QED
    BY <1>6, <2>2, <2>3 DEF CoinbaseAnswered
<1>7. CASE SimpleAnswered
  BY <1>7 DEF SimpleAnswered, Done
<1>8. CASE UNCHANGED queryVars
  BY <1>8 DEF queryVars
<1>9. QED
  BY <1>1, <1>2, <1>3, <1>4, <1>5, <1>6, <1>7, <1>8 DEF QueryNext

LEMMA BalanceNext ==
  QueryShape /\ SimpleKnows /\ BalanceTells /\ [QueryNext]_queryVars => BalanceTells'
<1> SUFFICES ASSUME QueryShape, SimpleKnows, BalanceTells, [QueryNext]_queryVars PROVE BalanceTells'
  OBVIOUS
<1>1. ASSUME query'.stage # "done" \/ query'.told.kind # "balance" PROVE BalanceTells'
  BY <1>1 DEF BalanceTells, AnswerIs
<1>2. CASE TxMoves \/ NotesMove
  BY <1>1, <1>2 DEF TxMoves, NotesMove, UnderWay
<1>3. CASE FetchReceipt \/ GetBalanceByPkh
  BY <1>1, <1>3 DEF FetchReceipt, GetBalanceByPkh, NoQuery
<1>4. \A r : Done(r) => query'.told = r
  BY DEF Done, QueryShape
<1>5. CASE BlockAnswered
  <2>1. PICK reply \in Replies(FALSE) :
          IF get_transaction_block(reply).kind \in NoAnswer THEN Done(get_transaction_block(reply))
          ELSE query' = [query EXCEPT !.stage = "details", !.told = get_transaction_block(reply)]
    BY <1>5 DEF BlockAnswered
  <2>2. CASE get_transaction_block(reply).kind \notin NoAnswer
    BY <1>1, <2>1, <2>2 DEF QueryShape
  <2>3. CASE get_transaction_block(reply).kind \in NoAnswer
    BY <1>1, <1>4, <2>1, <2>3 DEF NoAnswer
  <2>4. QED  BY <2>2, <2>3
<1>6. CASE DetailsAnswered
  <2>1. PICK reply \in Replies(TRUE) :
          IF get_transaction_details(reply).kind \in NoAnswer THEN Done(get_transaction_details(reply))
          ELSE Done(ReceiptOf(query.told, get_transaction_details(reply)))
    BY <1>6 DEF DetailsAnswered
  <2>2. CASE get_transaction_details(reply).kind \notin NoAnswer
    <3>1. ReceiptOf(query.told, get_transaction_details(reply)).kind = "receipt"
      BY DEF ReceiptOf
    <3>2. QED  BY <1>1, <1>4, <2>1, <2>2, <3>1
  <2>3. CASE get_transaction_details(reply).kind \in NoAnswer
    BY <1>1, <1>4, <2>1, <2>3 DEF NoAnswer
  <2>4. QED  BY <2>2, <2>3
<1>7. CASE CoinbaseAnswered
  <2>1. CASE Done(Balance("coinbase", FALSE)) /\ nodeNotes["coinbase"] # {}
    BY <1>7, <2>1, BalanceMade DEF Done, CoinbaseAnswered, NoteLocks
  <2>2. CASE \E fails \in BOOLEAN :
               query' = [query EXCEPT !.stage = "simple", !.told = [missed |-> fails]]
    BY <1>1, <2>2 DEF QueryShape
  <2>3. QED  BY <1>7, <2>1, <2>2 DEF CoinbaseAnswered
<1>8. CASE SimpleAnswered
  <2>1. CASE Done(ChainError)
    <3>1. ChainError.kind # "balance"
      BY DEF ChainError
    <3>2. QED  BY <1>1, <1>4, <2>1, <3>1
  <2>2. CASE Done(Balance("simple", query.told.missed))
    BY <1>8, <2>2, BalanceMade DEF Done, SimpleAnswered, NoteLocks, SimpleKnows
  <2>3. QED  BY <1>8, <2>1, <2>2 DEF SimpleAnswered
<1>9. CASE UNCHANGED queryVars
  BY <1>9, Zenon DEF queryVars, BalanceTells, AnswerIs
<1>10. QED
  BY <1>2, <1>3, <1>5, <1>6, <1>7, <1>8, <1>9 DEF QueryNext

\* Whatever the client asks, the answer says what was so while it asked: for every node,
\* every set of notes and every interval.
THEOREM ClientTellsCorrect == ChainSpec /\ QuerySpec => []ClientTells
<1>1. QueryInit => BalanceTells
  BY DEF QueryInit, NoQuery, BalanceTells, AnswerIs
<1>2. QuerySpec => []BalanceTells
  BY <1>1, QueryInitShape, QueryNextShape, SimpleKnowsNext, BalanceNext, PTL DEF QuerySpec
<1>3. WaitTells /\ ReceiptTells /\ BalanceTells => ClientTells
  BY DEF ClientTells
<1>4. QED
  BY <1>2, <1>3, WaitTellsCorrect, ReceiptTellsCorrect, PTL

-----------------------------------------------------------------------------
(* Checkpoint *)

\* The state of the files while a snapshot is under way and between snapshots, in a
\* directory that serves one snapshot only: meta.toml does not load before its last
\* write ends, state.jam is whole from the end of its own write, and the hash taken at
\* the start is that of the kernel if the directory is pure.
SnapshotOrder ==
  \A d \in Dirs :
    /\ uses[d] \in Nat
    /\ uses[d] = 0 => metaToml[d] \notin Builds
    /\ saving.at # "idle" /\ saving.dir = d => uses[d] # 0
    /\ uses[d] <= 1 /\ saving.at # "idle" /\ saving.dir = d =>
         /\ app \in Kernels
         /\ metaToml[d] \notin Builds
         /\ pure[d] => saving.hash = app.build
         /\ saving.at \in {"state-written", "writing-meta"} => stateJam[d] = app

\* A kernel is running while a snapshot is under way.
AppIsKernel == app \in Kernels \cup {NoApp} /\ (saving.at # "idle" => app \in Kernels)

CheckpointInv ==
  /\ source \in Builds
  /\ AppIsKernel
  /\ saving = Idle \/ saving \in [at : {"exporting", "writing-state", "state-written", "writing-meta"},
                                 dir : Dirs, hash : Builds]
  /\ DOMAIN uses = Dirs /\ DOMAIN pure = Dirs /\ DOMAIN stateJam = Dirs /\ DOMAIN metaToml = Dirs
  /\ SnapshotOrder
  /\ SnapshotTells

\* An absent or torn meta.toml does not load.
LEMMA TornDoesNotLoad == Nothing \notin Builds /\ Torn \notin Builds
  BY CheckpointAssumption

\* No kernel running is not a kernel.
LEMMA NoAppIsNoKernel == NoApp \notin Kernels
  BY CheckpointAssumption DEF Kernels

\* The first kernel is not running and no directory has been used.
LEMMA CheckpointInitInv == CheckpointInit => CheckpointInv
  BY TornDoesNotLoad
  DEF CheckpointInit, CheckpointInv, AppIsKernel, SnapshotOrder, SnapshotTells, Loads, Idle

\* Every step of the kernel, the developer, the snapshot and a crash keeps it.
LEMMA CheckpointNextInv == CheckpointInv /\ [CheckpointNext]_checkpointVars => CheckpointInv'
<1> SUFFICES ASSUME CheckpointInv, [CheckpointNext]_checkpointVars PROVE CheckpointInv'
  OBVIOUS
<1> USE TornDoesNotLoad, CheckpointAssumption
    DEF CheckpointInv, AppIsKernel, SnapshotOrder, SnapshotTells, Loads, Idle, filesStay
<1>1. CASE \E build \in Builds : Rebuild(build)
  BY <1>1 DEF Rebuild
<1>2. CASE BootFresh
  <2>1. app' \in Kernels /\ saving = Idle
    BY <1>2, NoAppIsNoKernel DEF BootFresh, Kernels
  <2>2. QED
    BY <1>2, <2>1 DEF BootFresh
<1>3. CASE Poke
  BY <1>3 DEF Poke, Kernels
<1>4. CASE Crash
  BY <1>4 DEF Crash
<1>5. ASSUME NEW d \in Dirs, SnapshotBegins(d) PROVE CheckpointInv'
  <2>1. /\ app \in Kernels /\ saving = Idle
        /\ saving' = [at |-> "exporting", dir |-> d, hash |-> source]
        /\ UNCHANGED <<source, app, stateJam, metaToml>>
    BY <1>5 DEF SnapshotBegins
  <2>2. /\ DOMAIN uses' = Dirs /\ DOMAIN pure' = Dirs
        /\ uses'[d] = uses[d] + 1 /\ (pure'[d] => source = app.build)
        /\ \A x \in Dirs \ {d} : uses'[x] = uses[x] /\ pure'[x] = pure[x]
    BY <1>5 DEF SnapshotBegins
  <2>3. uses'[d] \in Nat /\ uses'[d] # 0 /\ (uses'[d] <= 1 => uses[d] = 0)
    BY <2>2
  <2>4. SnapshotOrder'
    BY <2>1, <2>2, <2>3
  <2>5. SnapshotTells'
    BY <2>1, <2>2, <2>3
  <2>6. QED
    BY <2>1, <2>2, <2>4, <2>5
<1>6. CASE WriteStateBegins
  BY <1>6 DEF WriteStateBegins
<1>7. CASE WriteStateEnds
  BY <1>7 DEF WriteStateEnds
<1>8. CASE WriteMetaBegins
  BY <1>8 DEF WriteMetaBegins
<1>9. CASE WriteMetaEnds
  BY <1>9 DEF WriteMetaEnds
<1>10. CASE SnapshotFails
  BY <1>10 DEF SnapshotFails
<1>11. ASSUME NEW d \in Dirs, NEW strict \in BOOLEAN, Resume(d, strict) PROVE CheckpointInv'
  <2>1. saving = Idle
    BY <1>11, NoAppIsNoKernel DEF Resume
  <2>2. PICK data \in {stateJam[d].data, 0} : app' = [build |-> source, data |-> data]
    BY <1>11 DEF Resume
  <2>3. data \in 0..MaxData
    BY <1>11, <2>2 DEF Resume, Kernels
  <2>4. app' \in Kernels
    BY <2>2, <2>3 DEF Kernels
  <2>5. QED
    BY <1>11, <2>1, <2>4 DEF Resume
<1>12. CASE UNCHANGED checkpointVars
  BY <1>12 DEF checkpointVars
<1>13. QED
  BY <1>1, <1>2, <1>3, <1>4, <1>5, <1>6, <1>7, <1>8, <1>9, <1>10, <1>11, <1>12
  DEF CheckpointNext

\* Whatever is rebuilt, poked, crashed or failed in between, and for any number of
\* directories and builds.
THEOREM SnapshotTellsCorrect == CheckpointSpec => []SnapshotTells
<1>1. CheckpointInv => SnapshotTells
  BY DEF CheckpointInv
<1>2. QED
  BY <1>1, CheckpointInitInv, CheckpointNextInv, PTL DEF CheckpointSpec

-----------------------------------------------------------------------------
(* SdkSettle *)

\* What Append adds to a sequence.
LEMMA AppendAdds ==
  ASSUME NEW S, NEW s \in Seq(S), NEW e \in S
  PROVE  /\ Append(s, e) \in Seq(S)
         /\ Len(Append(s, e)) = Len(s) + 1
         /\ DOMAIN Append(s, e) = 1..(Len(s) + 1)
         /\ \A i \in 1..Len(s) : Append(s, e)[i] = s[i]
         /\ Append(s, e)[Len(s) + 1] = e
  OBVIOUS

\* What remains of a sequence without its first element.
LEMMA TailShifts ==
  ASSUME NEW S, NEW s \in Seq(S), s # <<>>
  PROVE  /\ Tail(s) \in Seq(S)
         /\ Len(Tail(s)) = Len(s) - 1
         /\ \A i \in 1..(Len(s) - 1) : Tail(s)[i] = s[i + 1]
         /\ Len(s) \in Nat /\ Len(s) > 0
         /\ Head(s) = s[1] /\ DOMAIN s = 1..Len(s)
  OBVIOUS

\* The cache with what its proof needs: the set counts as many ids as the queue.
CacheInv ==
  /\ settledOrder \in Seq(NoteIds) /\ accepted \in Seq(NoteIds)
  /\ IsFiniteSet(settledIds) /\ Cardinality(settledIds) = Len(settledOrder)
  /\ RemembersNewest

\* Accepting an id while the cache has room.
LEMMA RememberWithRoom ==
  ASSUME CacheInv, NEW id \in NoteIds, id \notin settledIds, Len(accepted) < SettledIdsCap,
         Remember(id), accepted' = Append(accepted, id)
  PROVE  CacheInv'
<1> DEFINE n == Len(accepted)
<1>1. /\ n \in Nat /\ SettledIdsCap \in Nat /\ n < SettledIdsCap
      /\ Len(settledOrder) = n /\ Remembered = n
  BY SdkAssumption DEF CacheInv, RemembersNewest, Remembered
<1>2. settledIds' = settledIds \cup {id} /\ settledOrder' = Append(settledOrder, id)
  BY <1>1 DEF Remember, CacheInv
<1>3. /\ settledOrder' \in Seq(NoteIds) /\ Len(settledOrder') = n + 1
      /\ DOMAIN settledOrder = 1..n /\ DOMAIN settledOrder' = 1..(n + 1)
      /\ \A i \in 1..n : settledOrder'[i] = settledOrder[i]
      /\ settledOrder'[n + 1] = id
  BY <1>1, <1>2, AppendAdds DEF CacheInv
<1>4. /\ accepted' \in Seq(NoteIds) /\ Len(accepted') = n + 1
      /\ \A i \in 1..n : accepted'[i] = accepted[i]
      /\ accepted'[n + 1] = id
  BY AppendAdds DEF CacheInv
<1>5. Remembered' = n + 1
  BY <1>1, <1>4 DEF Remembered
<1>6. IsFiniteSet(settledIds') /\ Cardinality(settledIds') = Len(settledOrder')
  <2>1. IsFiniteSet(settledIds) /\ Cardinality(settledIds) = n
    BY <1>1 DEF CacheInv
  <2>2. IsFiniteSet(settledIds \cup {id}) /\ Cardinality(settledIds \cup {id}) = n + 1
    BY <2>1, FS_AddElement
  <2>3. QED
    BY <1>2, <1>3, <2>2
<1>7. \A i \in 1..n : settledOrder[i] = accepted[i] /\ settledOrder[i] \in settledIds
  BY <1>1, <1>3 DEF CacheInv, RemembersNewest
<1>8. \A i \in DOMAIN settledOrder' : settledOrder'[i] = accepted'[Len(accepted') - Remembered' + i]
  BY <1>1, <1>3, <1>4, <1>5, <1>7
<1>9. settledIds' = { settledOrder'[i] : i \in DOMAIN settledOrder' }
  <2>1. settledIds = { settledOrder[i] : i \in 1..n }
    BY <1>3 DEF CacheInv, RemembersNewest
  <2>2. QED
    BY <1>1, <1>2, <1>3, <2>1
<1>10. \A i, j \in DOMAIN settledOrder' : i # j => settledOrder'[i] # settledOrder'[j]
  <2>1. \A i, j \in 1..n : i # j => settledOrder[i] # settledOrder[j]
    BY <1>3 DEF CacheInv, RemembersNewest
  <2>2. QED
    BY <1>1, <1>3, <1>7, <2>1
<1>11. QED
  BY <1>3, <1>4, <1>5, <1>6, <1>8, <1>9, <1>10 DEF CacheInv, RemembersNewest

\* Accepting an id when the cache is full: the oldest goes.
LEMMA RememberAtCap ==
  ASSUME CacheInv, NEW id \in NoteIds, id \notin settledIds, ~(Len(accepted) < SettledIdsCap),
         Remember(id), accepted' = Append(accepted, id)
  PROVE  CacheInv'
<1> DEFINE n == Len(accepted)
           cap == SettledIdsCap
<1>1. /\ n \in Nat /\ cap \in Nat /\ cap > 0 /\ n >= cap
      /\ Len(settledOrder) = cap /\ Remembered = cap
  BY SdkAssumption DEF CacheInv, RemembersNewest, Remembered
<1>2. settledOrder # <<>>
  BY <1>1 DEF CacheInv
<1>3. /\ settledIds' = (settledIds \ {Head(settledOrder)}) \cup {id}
      /\ settledOrder' = Append(Tail(settledOrder), id)
  BY <1>1, <1>2 DEF Remember, CacheInv
<1>4. /\ Tail(settledOrder) \in Seq(NoteIds) /\ Len(Tail(settledOrder)) = cap - 1
      /\ \A i \in 1..(cap - 1) : Tail(settledOrder)[i] = settledOrder[i + 1]
      /\ Head(settledOrder) = settledOrder[1] /\ DOMAIN settledOrder = 1..cap
  BY <1>1, <1>2, TailShifts DEF CacheInv
<1>5. /\ settledOrder' \in Seq(NoteIds) /\ Len(settledOrder') = cap
      /\ DOMAIN settledOrder' = 1..cap
      /\ \A i \in 1..(cap - 1) : settledOrder'[i] = settledOrder[i + 1]
      /\ settledOrder'[cap] = id
  <2>1. /\ Append(Tail(settledOrder), id) \in Seq(NoteIds)
        /\ Len(Append(Tail(settledOrder), id)) = cap - 1 + 1
        /\ DOMAIN Append(Tail(settledOrder), id) = 1..(cap - 1 + 1)
        /\ \A i \in 1..(cap - 1) : Append(Tail(settledOrder), id)[i] = Tail(settledOrder)[i]
        /\ Append(Tail(settledOrder), id)[cap - 1 + 1] = id
    BY <1>4, AppendAdds
  <2>2. cap - 1 + 1 = cap
    BY <1>1
  <2>3. QED
    BY <1>3, <1>4, <2>1, <2>2
<1>6. /\ accepted' \in Seq(NoteIds) /\ Len(accepted') = n + 1
      /\ \A i \in 1..n : accepted'[i] = accepted[i]
      /\ accepted'[n + 1] = id
  BY AppendAdds DEF CacheInv
<1>7. Remembered' = cap
  BY <1>1, <1>6 DEF Remembered
<1>8. /\ settledIds = { settledOrder[i] : i \in 1..cap }
      /\ \A i \in 1..cap : settledOrder[i] = accepted[n - cap + i]
      /\ \A i, j \in 1..cap : i # j => settledOrder[i] # settledOrder[j]
  BY <1>1, <1>4 DEF CacheInv, RemembersNewest
<1>9. IsFiniteSet(settledIds') /\ Cardinality(settledIds') = Len(settledOrder')
  <2>1. Head(settledOrder) \in settledIds
    BY <1>1, <1>4, <1>8
  <2>2. /\ IsFiniteSet(settledIds \ {Head(settledOrder)})
        /\ Cardinality(settledIds \ {Head(settledOrder)}) = cap - 1
    BY <1>1, <2>1, FS_RemoveElement DEF CacheInv
  <2>3. id \notin settledIds \ {Head(settledOrder)}
    OBVIOUS
  <2> HIDE DEF cap
  <2>4. /\ IsFiniteSet(settledIds')
        /\ Cardinality(settledIds') = cap - 1 + 1
    BY <1>3, <2>2, <2>3, FS_AddElement
  <2>5. QED
    BY <1>1, <1>5, <2>4
<1>10. \A i \in DOMAIN settledOrder' : settledOrder'[i] = accepted'[Len(accepted') - Remembered' + i]
  <2> SUFFICES ASSUME NEW i \in 1..cap PROVE settledOrder'[i] = accepted'[n + 1 - cap + i]
    BY <1>5, <1>6, <1>7
  <2>1. CASE i = cap
    BY <1>1, <1>5, <1>6, <2>1
  <2>2. CASE i # cap
    <3>1. i \in 1..(cap - 1) /\ i + 1 \in 1..cap
      BY <1>1, <2>2
    <3>2. settledOrder'[i] = accepted[n - cap + (i + 1)]
      BY <1>5, <1>8, <3>1
    <3>3. n - cap + (i + 1) \in 1..n /\ n - cap + (i + 1) = n + 1 - cap + i
      BY <1>1, <3>1
    <3>4. QED
      BY <1>6, <3>2, <3>3
  <2>3. QED
    BY <2>1, <2>2
<1>11. settledIds' = { settledOrder'[i] : i \in DOMAIN settledOrder' }
  <2>1. ASSUME NEW x \in settledIds' PROVE \E i \in 1..cap : x = settledOrder'[i]
    <3>1. CASE x = id
      BY <1>1, <1>5, <3>1
    <3>2. CASE x # id
      <4>1. PICK k \in 1..cap : x = settledOrder[k]
        BY <1>3, <1>8, <3>2
      <4>2. k # 1
        BY <1>3, <1>4, <3>2, <4>1
      <4>3. k - 1 \in 1..(cap - 1) /\ k - 1 \in 1..cap /\ (k - 1) + 1 = k
        BY <1>1, <4>2
      <4>4. QED
        BY <1>5, <4>1, <4>3
    <3>3. QED
      BY <3>1, <3>2
  <2>2. ASSUME NEW i \in 1..cap PROVE settledOrder'[i] \in settledIds'
    <3>1. CASE i = cap
      BY <1>3, <1>5, <3>1
    <3>2. CASE i # cap
      <4>1. i \in 1..(cap - 1) /\ i + 1 \in 1..cap /\ 1 \in 1..cap /\ i + 1 # 1
        BY <1>1, <3>2
      <4>2. settledOrder[i + 1] \in settledIds /\ settledOrder[i + 1] # settledOrder[1]
        BY <1>8, <4>1
      <4>3. QED
        BY <1>3, <1>4, <1>5, <4>1, <4>2
    <3>3. QED
      BY <3>1, <3>2
  <2>3. QED
    BY <1>5, <2>1, <2>2
<1>12. \A i, j \in DOMAIN settledOrder' : i # j => settledOrder'[i] # settledOrder'[j]
  <2>1. \A i \in 1..(cap - 1) : settledOrder'[i] # id
    <3> SUFFICES ASSUME NEW i \in 1..(cap - 1) PROVE settledOrder'[i] # id
      OBVIOUS
    <3>1. i + 1 \in 1..cap /\ 1 \in 1..cap /\ i + 1 # 1
      BY <1>1
    <3>2. settledOrder'[i] \in settledIds
      <4>1. settledOrder[i + 1] \in settledIds
        BY <1>8, <3>1
      <4>2. settledOrder'[i] = settledOrder[i + 1]
        BY <1>5
      <4>3. QED
        BY <4>1, <4>2
    <3>3. QED
      BY <3>2
  <2>2. ASSUME NEW i \in 1..(cap - 1), NEW j \in 1..(cap - 1), i # j
        PROVE  settledOrder'[i] # settledOrder'[j]
    <3>1. i + 1 \in 1..cap /\ j + 1 \in 1..cap /\ i + 1 # j + 1
      BY <1>1, <2>2
    <3>2. QED
      BY <1>5, <1>8, <3>1
  <2>3. \A i \in 1..cap : i = cap \/ i \in 1..(cap - 1)
    BY <1>1
  <2>4. QED
    BY <1>5, <2>1, <2>2, <2>3
<1>13. QED
  BY <1>5, <1>6, <1>7, <1>9, <1>10, <1>11, <1>12 DEF CacheInv, RemembersNewest

\* A process starts with an empty cache.
LEMMA SdkInitInv == SdkInit => CacheInv
<1> SUFFICES ASSUME SdkInit PROVE CacheInv
  OBVIOUS
<1>1. settledIds = {} /\ settledOrder = <<>> /\ accepted = <<>>
  BY DEF SdkInit
<1>2. IsFiniteSet(settledIds) /\ Cardinality(settledIds) = 0
  BY <1>1, FS_EmptySet
<1>3. QED
  BY <1>1, <1>2, SdkAssumption DEF CacheInv, RemembersNewest, Remembered

\* Only an acceptance or a restart touches the cache.
LEMMA SdkNextInv == CacheInv /\ [SdkNext]_sdkVars => CacheInv'
<1> SUFFICES ASSUME CacheInv, [SdkNext]_sdkVars PROVE CacheInv'
  OBVIOUS
<1>1. ASSUME UNCHANGED <<settledIds, settledOrder, accepted>> PROVE CacheInv'
  BY <1>1 DEF CacheInv, RemembersNewest, Remembered
<1>2. ASSUME NEW p \in SettlePayloads, SettleAccepted(p) PROVE CacheInv'
  <2>1. /\ p.id \in NoteIds /\ p.id \notin settledIds
        /\ Remember(p.id) /\ accepted' = Append(accepted, p.id)
    BY <1>2 DEF SettleAccepted, PreFlight, SettlePayloads
  <2>2. QED
    BY <2>1, RememberWithRoom, RememberAtCap
<1>3. CASE SdkRestart
  <2>1. settledIds' = {} /\ settledOrder' = <<>> /\ accepted' = <<>>
    BY <1>3 DEF SdkRestart
  <2>2. IsFiniteSet(settledIds') /\ Cardinality(settledIds') = 0
    BY <2>1, FS_EmptySet
  <2>3. QED
    BY <2>1, <2>2, SdkAssumption DEF CacheInv, RemembersNewest, Remembered
<1>4. QED
  BY <1>1, <1>2, <1>3 DEF SdkNext, sdkVars, RegisterRoot, RegisterRootRefused, SettleRefused

\* For every cap: the cache is a queue of distinct ids, the newest ones accepted, and
\* its set never falls out of step with its queue.
THEOREM RemembersNewestCorrect == SdkSpec => []RemembersNewest
<1>1. CacheInv => RemembersNewest
  BY DEF CacheInv
<1>2. QED
  BY <1>1, SdkInitInv, SdkNextInv, PTL DEF SdkSpec

-----------------------------------------------------------------------------
(* RenameKernel *)

\* Where the kernels are: each in one file.
Placed == \A k \in kernels : \E n \in KernelNames : \A m \in KernelNames : files[m] = k <=> m = n

\* What a run has done so far, by its step.
InStep ==
  /\ rename.step = "file" => Exists(rename.from) /\ ~Exists(rename.new)
  /\ rename.step \in {"toml", "readme"} => Exists(rename.new) /\ ~Exists(rename.from)

\* Every name but the one at work is that of a kernel.
Named ==
  ~cutShort =>
    /\ rename.step \in {"none", "file", "readme"} => Exists(ConfiguredKernel)
    /\ rename.step = "toml" => Exists(ConfiguredKernel) \/ ConfiguredKernel = rename.from
    /\ \A n \in readme : Exists(n) \/ (rename.step \in {"toml", "readme"} /\ n = rename.from)

\* The inductive invariant of rename-kernel.
RenameInv ==
  /\ RenameTypeOK
  /\ kernels \subseteq KernelNames
  /\ Placed
  /\ InStep
  /\ Named

\* A project in order satisfies the invariant.
LEMMA RenameInvInit == RenameInit => RenameInv
<1> SUFFICES ASSUME RenameInit PROVE RenameInv
  OBVIOUS
<1> USE RenameAssumption DEF RenameInit
<1>1. RenameTypeOK
  BY DEF RenameTypeOK, NoRename
<1>2. \A m \in KernelNames : files[m] = IF m \in kernels THEN m ELSE NoKernel
  OBVIOUS
<1>3. Placed
  BY <1>2 DEF Placed
<1>4. InStep /\ Named
  BY <1>2 DEF InStep, Named, NoRename, Exists, ConfiguredKernel
<1>5. QED
  BY <1>1, <1>3, <1>4 DEF RenameInv

\* The renaming of the file moves one kernel to a free name.
LEMMA RenameInvFile == RenameInv /\ RenameFile => RenameInv'
<1> SUFFICES ASSUME RenameInv, RenameFile PROVE RenameInv'
  OBVIOUS
<1> DEFINE from == rename.from
           new == rename.new
<1>1. /\ from \in KernelNames /\ new \in KernelNames /\ from # new
      /\ files[new] = NoKernel /\ files[from] # NoKernel
  BY DEF RenameInv, RenameTypeOK, RenameFile, InStep, Exists
<1>2. \A m \in KernelNames :
        files'[m] = IF m = from THEN NoKernel ELSE IF m = new THEN files[from] ELSE files[m]
  BY <1>1 DEF RenameInv, RenameTypeOK, RenameFile
<1>3. /\ rename'.step = "toml" /\ rename'.from = from /\ rename'.new = new
      /\ UNCHANGED <<kernelName, readme, cutShort, kernels>>
  BY DEF RenameInv, RenameTypeOK, RenameFile
<1>4. RenameTypeOK'
  BY <1>1 DEF RenameInv, RenameTypeOK, RenameFile
<1>5. Placed'
  <2> SUFFICES ASSUME NEW k \in kernels
               PROVE  \E n \in KernelNames : \A m \in KernelNames : files'[m] = k <=> m = n
    BY <1>3 DEF Placed
  <2>1. k # NoKernel
    BY RenameAssumption DEF RenameInv
  <2>2. PICK n \in KernelNames : \A m \in KernelNames : files[m] = k <=> m = n
    BY DEF RenameInv, Placed
  <2>3. CASE n = from
    BY <1>1, <1>2, <2>1, <2>2, <2>3
  <2>4. CASE n # from
    BY <1>1, <1>2, <2>1, <2>2, <2>4
  <2>5. QED
    BY <2>3, <2>4
<1>6. InStep'
  BY <1>1, <1>2, <1>3 DEF InStep, Exists
<1>7. \A n \in KernelNames : Exists(n) => Exists(n)' \/ n = from
  BY <1>1, <1>2 DEF Exists
<1>8. ConfiguredKernel' = ConfiguredKernel /\ ConfiguredKernel \in KernelNames
  BY <1>3, RenameAssumption DEF ConfiguredKernel, RenameInv, RenameTypeOK
<1>9. Named'
  <2> SUFFICES ASSUME ~cutShort'
               PROVE  /\ Exists(ConfiguredKernel)' \/ ConfiguredKernel' = rename'.from
                      /\ \A n \in readme' : Exists(n)' \/ n = rename'.from
    BY <1>3 DEF Named
  <2>1. Named /\ ~cutShort /\ rename.step = "file" /\ readme \subseteq KernelNames
    BY <1>3 DEF RenameInv, RenameFile, RenameTypeOK
  <2>2. Exists(ConfiguredKernel) /\ \A n \in readme : Exists(n)
    BY <2>1 DEF Named
  <2>3. Exists(ConfiguredKernel)' \/ ConfiguredKernel' = rename'.from
    <3>1. files[ConfiguredKernel] # NoKernel
      BY <2>2 DEF Exists
    <3>2. files'[ConfiguredKernel] # NoKernel \/ ConfiguredKernel = from
      BY <1>1, <1>2, <1>8, <3>1
    <3>3. QED
      BY <1>3, <1>8, <3>2 DEF Exists
  <2>4. \A n \in readme' : Exists(n)' \/ n = rename'.from
    BY <1>3, <1>7, <2>1, <2>2
  <2>5. QED
    BY <2>3, <2>4
<1>10. QED
  BY <1>3, <1>4, <1>5, <1>6, <1>9 DEF RenameInv

\* A run that starts found its kernel, and the new name free.
LEMMA RenameInvStarts ==
  ASSUME RenameInv, NEW from \in KernelNames, NEW new \in KernelNames, RenameStarts(from, new)
  PROVE  RenameInv'
<1>1. /\ rename' = [step |-> "file", from |-> from, new |-> new]
      /\ rename.step = "none" /\ Exists(from) /\ ~Exists(new)
      /\ UNCHANGED <<files, kernelName, readme, cutShort, kernels>>
  BY DEF RenameStarts
<1>2. RenameTypeOK' /\ Placed' /\ InStep'
  BY <1>1 DEF RenameInv, RenameTypeOK, Placed, InStep, Exists
<1>3. Named'
  BY <1>1 DEF RenameInv, Named, Exists, ConfiguredKernel
<1>4. QED
  BY <1>1, <1>2, <1>3 DEF RenameInv

\* The two rewrites replace the old name by the new one, and a run may stop.
LEMMA RenameInvRest ==
  RenameInv /\ (rewrite_nockapp_toml \/ rewrite_readme_codeblocks \/ RenameStops) => RenameInv'
<1> SUFFICES ASSUME RenameInv,
                    rewrite_nockapp_toml \/ rewrite_readme_codeblocks \/ RenameStops
             PROVE  RenameInv'
  OBVIOUS
<1>1. CASE rewrite_nockapp_toml
  <2>1. /\ rename.step = "toml" /\ rename'.step = "readme"
        /\ rename'.from = rename.from /\ rename'.new = rename.new /\ kernelName' = rename.new
        /\ rename.new \in KernelNames
        /\ UNCHANGED <<files, readme, cutShort, kernels>>
    BY <1>1 DEF rewrite_nockapp_toml, RenameInv, RenameTypeOK
  <2>2. RenameTypeOK' /\ Placed' /\ InStep'
    BY <1>1, <2>1 DEF rewrite_nockapp_toml, RenameInv, RenameTypeOK, Placed, InStep, Exists
  <2>3. Named'
    BY <2>1, RenameAssumption DEF RenameInv, Named, InStep, Exists, ConfiguredKernel
  <2>4. QED
    BY <2>1, <2>2, <2>3 DEF RenameInv
<1>2. CASE rewrite_readme_codeblocks
  <2>1. /\ rename.step = "readme" /\ rename' = NoRename
        /\ readme' = IF rename.from \in readme
                     THEN (readme \ {rename.from}) \cup {rename.new} ELSE readme
        /\ rename.new \in KernelNames
        /\ UNCHANGED <<files, kernelName, cutShort, kernels>>
    BY <1>2 DEF rewrite_readme_codeblocks, RenameInv, RenameTypeOK
  <2>2. RenameTypeOK' /\ Placed' /\ InStep'
    BY <2>1, RenameAssumption
    DEF RenameInv, RenameTypeOK, Placed, InStep, Exists, NoRename
  <2>3. Named'
    BY <2>1 DEF RenameInv, Named, InStep, Exists, ConfiguredKernel, NoRename
  <2>4. QED
    BY <2>1, <2>2, <2>3 DEF RenameInv
<1>3. CASE RenameStops
  <2>1. /\ rename' = NoRename /\ cutShort' = (cutShort \/ rename.step # "file")
        /\ UNCHANGED <<files, kernelName, readme, kernels>>
        /\ rename.step # "none"
    BY <1>3 DEF RenameStops
  <2>2. RenameTypeOK' /\ Placed' /\ InStep'
    BY <2>1, RenameAssumption
    DEF RenameInv, RenameTypeOK, Placed, InStep, Exists, NoRename
  <2>3. ~cutShort' => ~cutShort /\ rename.step = "file"
    BY <2>1
  <2>4. Named'
    BY <2>1, <2>3 DEF RenameInv, Named, Exists, ConfiguredKernel, NoRename
  <2>5. QED
    BY <2>1, <2>2, <2>4 DEF RenameInv
<1>4. QED
  BY <1>1, <1>2, <1>3

\* For any names and any number of runs, wherever they stop: no kernel is lost or
\* doubled, and what is named has a file unless some run was cut short.
THEOREM NamesHaveKernelsCorrect == RenameSpec => []NamesHaveKernels
<1>1. RenameInit => RenameInv
  BY RenameInvInit
<1>2. RenameInv /\ [RenameNext]_renameVars => RenameInv'
  <2> SUFFICES ASSUME RenameInv, [RenameNext]_renameVars PROVE RenameInv'
    OBVIOUS
  <2>1. ConfiguredKernel \in KernelNames
    BY RenameAssumption DEF RenameInv, RenameTypeOK, ConfiguredKernel
  <2>2. CASE UNCHANGED renameVars
    BY <2>2 DEF renameVars, RenameInv, RenameTypeOK, Placed, InStep, Named, Exists,
       ConfiguredKernel
  <2>3. QED
    BY <2>1, <2>2, RenameInvStarts, RenameInvFile, RenameInvRest DEF RenameNext
<1>3. RenameInv => NamesHaveKernels
  BY DEF RenameInv, Placed, Named, NamesHaveKernels
<1>4. QED
  BY <1>1, <1>2, <1>3, PTL DEF RenameSpec

-----------------------------------------------------------------------------
(* SettlementConfig *)

\* The first set of three values is what two uses of or_else come to.
LEMMA FirstOfThree ==
  ASSUME NEW a, NEW b, NEW c
  PROVE  FirstSet(<<a, b, c>>) = Or(a, Or(b, c))
<1> DEFINE v == <<a, b, c>>
           first == {i \in 1..3 : IsFirstSet(v, i)}
<1>1. v[1] = a /\ v[2] = b /\ v[3] = c /\ DOMAIN v = 1..3
  OBVIOUS
<1>2. FirstSet(v) = IF first = {} THEN Unset ELSE v[CHOOSE i \in first : TRUE]
  BY <1>1 DEF FirstSet
<1>3. \A i \in first : v[i] = Or(a, Or(b, c))
  <2> SUFFICES ASSUME NEW i \in 1..3, IsFirstSet(v, i) PROVE v[i] = Or(a, Or(b, c))
    OBVIOUS
  <2>1. v[i] # Unset /\ \A j \in 1..3 : j < i => v[j] = Unset
    BY <1>1 DEF IsFirstSet
  <2> HIDE DEF v
  <2>2. QED
    BY <1>1, <2>1 DEF Or
<1>4. first = {} => Or(a, Or(b, c)) = Unset
  <2> SUFFICES ASSUME Or(a, Or(b, c)) # Unset PROVE \E i \in 1..3 : IsFirstSet(v, i)
    OBVIOUS
  <2> HIDE DEF v
  <2>1. CASE a # Unset
    <3>1. IsFirstSet(v, 1)
      BY <1>1, <2>1 DEF IsFirstSet
    <3>2. QED
      BY <3>1
  <2>2. CASE a = Unset /\ b # Unset
    <3>1. IsFirstSet(v, 2)
      BY <1>1, <2>2 DEF IsFirstSet
    <3>2. QED
      BY <3>1
  <2>3. CASE a = Unset /\ b = Unset /\ c # Unset
    <3>1. IsFirstSet(v, 3)
      BY <1>1, <2>3 DEF IsFirstSet
    <3>2. QED
      BY <3>1
  <2>4. QED
    BY <2>1, <2>2, <2>3 DEF Or
<1> HIDE DEF v
<1>5. QED
  <2>1. CASE first = {}
    BY <1>2, <1>4, <2>1 DEF v
  <2>2. CASE first # {}
    <3>1. (CHOOSE i \in first : TRUE) \in first
      BY <2>2
    <3>2. QED
      BY <1>2, <1>3, <2>2, <3>1 DEF v
  <2>3. QED
    BY <2>1, <2>2

\* The key of the wallet is that of the phrase and account given first.
LEMMA SignerIsFirstGiven ==
  ASSUME flags \in Flags, env \in MaybePhrase, toml \in Tomls,
         NEW file,
         file = IF toml.wallet = Unset THEN [phrase |-> Unset, account |-> Unset] ELSE toml.wallet
  PROVE  wallet_role_belts(resolve_wallet) =
           IF FirstSet(<<flags.phrase, env, file.phrase>>) = Unset THEN Unset
           ELSE [phrase |-> FirstSet(<<flags.phrase, env, file.phrase>>),
                 account |-> FirstSet(<<flags.account, file.account, 0>>)]
<1> DEFINE account == Or(flags.account, Or(file.account, 0))
<1>1. /\ file.phrase = IF toml.wallet = Unset THEN Unset ELSE toml.wallet.phrase
      /\ file.account = IF toml.wallet = Unset THEN Unset ELSE toml.wallet.account
      /\ file.phrase \in MaybePhrase /\ file.account \in Accounts \cup {Unset}
  BY DEF Tomls, Wallets, MaybePhrase
<1>2. FirstSet(<<flags.phrase, env, file.phrase>>) = ResolvedPhrase
  BY FirstOfThree, <1>1 DEF ResolvedPhrase
<1>3. FirstSet(<<flags.account, file.account, 0>>) = account
  BY FirstOfThree
<1>4. ResolvedPhrase \in MaybePhrase /\ account \in Accounts
  BY <1>1, ConfigAssumption DEF ResolvedPhrase, Or, Flags
<1>5. resolve_wallet = IF toml.wallet = Unset /\ flags.account = Unset /\ ResolvedPhrase = Unset
                       THEN Unset ELSE [phrase |-> ResolvedPhrase, account |-> account]
  BY <1>1 DEF resolve_wallet
<1>6. [phrase |-> ResolvedPhrase, account |-> account] \in Wallets
  BY <1>4 DEF Wallets
<1> HIDE DEF account
<1>7. CASE ResolvedPhrase = Unset
  <2>1. resolve_wallet = Unset \/ resolve_wallet.phrase = Unset
    BY <1>5, <1>7
  <2>2. QED
    BY <1>2, <1>7, <2>1 DEF wallet_role_belts
<1>8. CASE ResolvedPhrase # Unset
  <2>1. resolve_wallet = [phrase |-> ResolvedPhrase, account |-> account]
    BY <1>5, <1>8
  <2>2. resolve_wallet # Unset /\ resolve_wallet.phrase = ResolvedPhrase
        /\ resolve_wallet.account = account
    BY <1>6, <2>1, ConfigAssumption
  <2>3. QED
    BY <1>2, <1>3, <1>8, <2>2 DEF wallet_role_belts
<1>9. QED
  BY <1>7, <1>8

\* For any phrases, accounts and endpoints, whatever is set where: what a hull boots
\* with is what it was asked for.
THEOREM BootedAsAskedCorrect == ConfigSpec => []BootedAsAsked
<1> DEFINE Given == flags \in Flags /\ env \in MaybePhrase /\ toml \in Tomls
           AsResolved == config \in {Unset, Resolved}
<1>1. ConfigInit => Given /\ AsResolved
  BY DEF ConfigInit
<1>2. Given /\ AsResolved /\ [Boot]_configVars => (Given /\ AsResolved)'
  <2> SUFFICES ASSUME Given, AsResolved, [Boot]_configVars PROVE (Given /\ AsResolved)'
    OBVIOUS
  <2>1. UNCHANGED <<flags, env, toml>>
    BY DEF Boot, configVars
  <2>2. Resolved' = Resolved
    BY <2>1 DEF Resolved, ResolvedMode, resolve_local, resolve_fakenet, resolve_dumbnet,
       resolve_wallet, ResolvedPhrase, wallet_role_belts, Or
  <2>3. QED
    BY <2>1, <2>2 DEF Boot, configVars
<1>3. Given /\ AsResolved => BootedAsAsked
  <2> SUFFICES ASSUME Given, config = Resolved, config # Unset, config # Refused
               PROVE  BootedAsAsked
    BY DEF BootedAsAsked
  <2> DEFINE file == IF toml.wallet = Unset THEN [phrase |-> Unset, account |-> Unset]
                     ELSE toml.wallet
             phrase == FirstSet(<<flags.phrase, env, file.phrase>>)
             signer == wallet_role_belts(resolve_wallet)
  <2>1. file = IF toml.wallet = Unset THEN [phrase |-> Unset, account |-> Unset]
               ELSE toml.wallet
    OBVIOUS
  <2> HIDE DEF file
  <2>2. signer = IF phrase = Unset THEN Unset
                 ELSE [phrase |-> phrase, account |-> FirstSet(<<flags.account, file.account, 0>>)]
    BY <2>1, SignerIsFirstGiven
  <2>3. flags.mode # Unset => ResolvedMode = flags.mode
    BY DEF ResolvedMode, Or
  <2> HIDE DEF phrase
  <2>4. CASE ResolvedMode = "local"
    <3>1. config = resolve_local
      BY <2>4 DEF Resolved
    <3>2. /\ config.mode = "local" /\ config.endpoint = Unset /\ config.key = Unset
          /\ config.auto_submit = FALSE /\ config.wallet = resolve_wallet
      BY <3>1 DEF resolve_local
    <3>3. ~can_submit(config)
      BY <3>2 DEF can_submit
    <3>4. config.key # DemoKey
      BY <3>2, ConfigAssumption
    <3>5. intent_signer_belts(config) = signer
      BY <3>2 DEF intent_signer_belts
    <3>6. QED
      BY <2>2, <2>3, <2>4, <3>2, <3>3, <3>4, <3>5 DEF BootedAsAsked, file, phrase
  <2>5. CASE ResolvedMode = "fakenet"
    <3>1. config = resolve_fakenet
      BY <2>5 DEF Resolved
    <3>2. config.mode = "fakenet" /\ config.wallet = resolve_wallet
      BY <3>1 DEF resolve_fakenet
    <3>3. intent_signer_belts(config) = signer
      BY <3>2 DEF intent_signer_belts
    <3>4. QED
      BY <2>2, <2>3, <2>5, <3>2, <3>3 DEF BootedAsAsked, file, phrase
  <2>6. CASE ResolvedMode = "dumbnet"
    <3>1. config = resolve_dumbnet /\ config.key # DemoKey
      BY <2>6 DEF Resolved
    <3>2. /\ config.mode = "dumbnet" /\ config.key = wallet_role_belts(resolve_wallet)
          /\ config.wallet = resolve_wallet
      BY <3>1 DEF resolve_dumbnet
    <3>3. intent_signer_belts(config) = signer
      BY <3>2 DEF intent_signer_belts
    <3>4. QED
      BY <2>2, <2>3, <2>6, <3>1, <3>2, <3>3 DEF BootedAsAsked, file, phrase
  <2>7. ResolvedMode \in Modes
    BY DEF ResolvedMode, Or, Modes, Flags
  <2>8. QED
    BY <2>4, <2>5, <2>6, <2>7 DEF Modes
<1> HIDE DEF Given, AsResolved
<1>4. QED
  BY <1>1, <1>2, <1>3, PTL DEF ConfigSpec

-----------------------------------------------------------------------------
(* SiwnReplay: each theorem names what it needs of the windows and of how long *)
(* a call is under way                                                         *)

\* Where each call stands in time: its message was in force when it began, and its
\* stamp lies between then and now.
CallsInTime ==
  \A c \in Callers : call[c] # NoCall =>
    LET m == call[c].message IN
      /\ m \in Messages /\ call[c].began \in Nat
      /\ IssuedAt(m) <= call[c].began /\ call[c].began < Expires(m)
      /\ call[c].began <= now /\ now <= call[c].began + MaxStall
      /\ call[c].phase \in {"checked", "stamped", "swept"}
      /\ call[c].phase # "checked" =>
           call[c].at \in Nat /\ call[c].began <= call[c].at /\ call[c].at <= now

\* Entries are stamps of acceptances, each given while its message was in force.
StampsInTime ==
  /\ DOMAIN cache \subseteq Messages
  /\ \A m \in DOMAIN cache : cache[m] \in Nat /\ IssuedAt(m) <= cache[m] /\ cache[m] <= now
  /\ \A m \in DOMAIN cache : \E k \in DOMAIN siwnAccepted : siwnAccepted[k].message = m

Timely ==
  /\ now \in Nat
  /\ siwnAccepted \in Seq([message : Messages, at : Nat])
  /\ DOMAIN call = Callers
  /\ CallsInTime
  /\ StampsInTime

-----------------------------------------------------------------------------
\* Facts about the constants.
LEMMA Numbers ==
  /\ MaxWindow \in Nat /\ MaxStall \in Nat /\ MaxTime \in Nat
  /\ \A m \in Messages : /\ IssuedAt(m) \in Nat /\ Expires(m) \in Nat
                         /\ Window(m) \in Nat /\ Window(m) <= MaxWindow
  BY SiwnAssumption DEF Window

\* An entry at index k of a log stays where it is when another is appended.
LEMMA AppendKeeps ==
  ASSUME NEW S, NEW s \in Seq(S), NEW e \in S
  PROVE  /\ Append(s, e) \in Seq(S)
         /\ DOMAIN Append(s, e) = DOMAIN s \cup {Len(s) + 1}
         /\ Append(s, e)[Len(s) + 1] = e
         /\ \A k \in DOMAIN s : Append(s, e)[k] = s[k] /\ k \in 1..Len(s)
  OBVIOUS

\* An entry of a log is one of those it was typed to hold.
LEMMA EntryTyped ==
  ASSUME NEW S, NEW s \in Seq(S), NEW k \in DOMAIN s
  PROVE  s[k] \in S
  OBVIOUS

\* The clock starts at zero with no call under way and an empty cache.
LEMMA TimelyInit == SiwnInit => Timely
  BY SMT DEF SiwnInit, Timely, CallsInTime, StampsInTime

\* Every step of the clock, of a call or of the cache keeps them in time.
LEMMA TimelyNext == Timely /\ [SiwnNext]_siwnVars => Timely'
<1> SUFFICES ASSUME Timely, [SiwnNext]_siwnVars PROVE Timely'
  OBVIOUS
<1> USE Numbers
<1>1. CASE Tick
  <2>1. now' = now + 1 /\ UNCHANGED <<cache, call, siwnAccepted>>
    BY <1>1 DEF Tick
  <2>2. CallsInTime'
    BY <1>1, <2>1 DEF Tick, Timely, CallsInTime
  <2>3. StampsInTime'
    BY <2>1 DEF Timely, StampsInTime
  <2>4. QED
    BY <2>1, <2>2, <2>3 DEF Timely
<1>2. ASSUME NEW c \in Callers, NEW m \in Messages, Check(c, m) PROVE Timely'
  <2>1. ASSUME NEW d \in Callers PROVE call'[d] = IF d = c THEN call'[c] ELSE call[d]
    BY <1>2 DEF Check, Timely
  <2>2. /\ call'[c].phase = "checked" /\ call'[c].message = m /\ call'[c].began = now
        /\ IssuedAt(m) <= now /\ now < Expires(m) /\ now' = now /\ now \in Nat
    BY <1>2 DEF Check, Timely
  <2>3. now <= now + MaxStall
    BY <2>2
  <2>4. CallsInTime'
    <3>1. ASSUME NEW d \in Callers, d # c, call'[d] # NoCall
          PROVE  call'[d] = call[d] /\ now' = now /\ call[d] # NoCall
      BY <2>1, <2>2, <3>1
    <3>2. SUFFICES ASSUME NEW d \in Callers, (call[d] # NoCall)'
                   PROVE  LET k == call'[d].message IN
                          /\ k \in Messages /\ call'[d].began \in Nat
                          /\ IssuedAt(k) <= call'[d].began /\ call'[d].began < Expires(k)
                          /\ call'[d].began <= now' /\ now' <= call'[d].began + MaxStall
                          /\ call'[d].phase \in {"checked", "stamped", "swept"}
                          /\ call'[d].phase # "checked" =>
                               call'[d].at \in Nat /\ call'[d].began <= call'[d].at /\ call'[d].at <= now'
      BY DEF CallsInTime
    <3>3. CASE d = c
      BY <2>2, <2>3, <3>3
    <3>4. CASE d # c
      BY <3>1, <3>2, <3>4 DEF Timely, CallsInTime
    <3>5. QED
      BY <3>3, <3>4
  <2>5. StampsInTime' /\ UNCHANGED <<now, siwnAccepted>> /\ DOMAIN call' = Callers
    BY <1>2 DEF Check, Timely, StampsInTime
  <2>6. QED
    BY <2>4, <2>5 DEF Timely
<1>3. ASSUME NEW c \in Callers, Stamp(c) PROVE Timely'
  <2>1. CallsInTime'
    BY <1>3 DEF Stamp, Timely, CallsInTime, NoCall
  <2>2. StampsInTime' /\ UNCHANGED <<now, siwnAccepted>> /\ DOMAIN call' = Callers
    BY <1>3 DEF Stamp, Timely, StampsInTime
  <2>3. QED
    BY <2>1, <2>2 DEF Timely
<1>4. ASSUME NEW c \in Callers, Sweep(c) PROVE Timely'
  <2>1. CallsInTime'
    BY <1>4 DEF Sweep, Timely, CallsInTime, NoCall
  <2>2. StampsInTime'
    BY <1>4 DEF Sweep, Timely, StampsInTime
  <2>3. UNCHANGED <<now, siwnAccepted>> /\ DOMAIN call' = Callers
    BY <1>4 DEF Sweep, Timely
  <2>4. QED
    BY <2>1, <2>2, <2>3 DEF Timely
<1>5. ASSUME NEW c \in Callers, RefuseReplay(c) PROVE Timely'
  <2>1. CallsInTime'
    BY <1>5 DEF RefuseReplay, Timely, CallsInTime, NoCall
  <2>2. StampsInTime' /\ UNCHANGED <<now, siwnAccepted>> /\ DOMAIN call' = Callers
    BY <1>5 DEF RefuseReplay, Timely, StampsInTime
  <2>3. QED
    BY <2>1, <2>2 DEF Timely
<1>6. ASSUME NEW c \in Callers, Accept(c) PROVE Timely'
  <2> DEFINE m == call[c].message
             new == [message |-> m, at |-> call[c].at]
  <2>1. /\ call[c] # NoCall /\ call[c].phase # "checked"
        /\ m \in Messages /\ call[c].at \in Nat /\ call[c].at <= now
        /\ IssuedAt(m) <= call[c].at
    <3>1. call[c] # NoCall /\ call[c].phase # "checked"
      BY <1>6 DEF Accept, NoCall
    <3>2. /\ m \in Messages /\ call[c].began \in Nat /\ IssuedAt(m) <= call[c].began
          /\ call[c].at \in Nat /\ call[c].began <= call[c].at /\ call[c].at <= now
      BY <3>1 DEF Timely, CallsInTime
    <3>3. QED
      BY <3>1, <3>2
  <2>2. /\ siwnAccepted' \in Seq([message : Messages, at : Nat])
        /\ \A k \in DOMAIN siwnAccepted :
             k \in DOMAIN siwnAccepted' /\ siwnAccepted'[k] = siwnAccepted[k]
        /\ \E k \in DOMAIN siwnAccepted' : siwnAccepted'[k].message = m
    <3>1. new \in [message : Messages, at : Nat]
      BY <2>1
    <3>2. siwnAccepted' = Append(siwnAccepted, new)
      BY <1>6 DEF Accept
    <3>3. QED
      BY <3>1, <3>2, AppendKeeps DEF Timely
  <2>3. /\ now' = now
        /\ cache' = [x \in DOMAIN cache \cup {m} |-> IF x = m THEN call[c].at ELSE cache[x]]
        /\ call' = [call EXCEPT ![c] = NoCall]
    BY <1>6 DEF Accept
  <2> HIDE DEF m, new
  <2>4. CallsInTime' /\ DOMAIN call' = Callers
    BY <2>3 DEF Timely, CallsInTime, NoCall
  <2>5. StampsInTime'
    BY <2>1, <2>2, <2>3 DEF Timely, StampsInTime, m
  <2>6. QED
    BY <2>2, <2>3, <2>4, <2>5 DEF Timely
<1>7. CASE UNCHANGED siwnVars
  BY <1>7 DEF siwnVars, Timely, CallsInTime, StampsInTime
<1>8. QED
  BY <1>1, <1>2, <1>3, <1>4, <1>5, <1>6, <1>7 DEF SiwnNext

\* The clock, the calls and the cache stay in time, for all windows and stalls.
THEOREM TimelyCorrect == SiwnSpec => []Timely
<1>1. SiwnInit => Timely
  BY TimelyInit
<1>2. Timely /\ [SiwnNext]_siwnVars => Timely'
  BY TimelyNext
<1>3. QED
  BY <1>1, <1>2, PTL DEF SiwnSpec

-----------------------------------------------------------------------------
\* No call is refused as a replay unless its message was accepted before: an entry in
\* the cache is there since an acceptance.  For all windows and stalls.
THEOREM NoFalseReplayCorrect == SiwnSpec => NoFalseReplay
<1> DEFINE OnlyRefused == \A c \in Callers :
       call[c].phase = "swept" /\ call'[c] = NoCall /\ siwnAccepted' = siwnAccepted
         => \E k \in DOMAIN siwnAccepted : siwnAccepted[k].message = call[c].message
<1>1. Timely /\ [SiwnNext]_siwnVars => [OnlyRefused]_siwnVars
  <2> SUFFICES ASSUME Timely, SiwnNext, NEW c \in Callers,
                      call[c].phase = "swept", call'[c] = NoCall, siwnAccepted' = siwnAccepted
               PROVE  \E k \in DOMAIN siwnAccepted : siwnAccepted[k].message = call[c].message
    OBVIOUS
  <2>1. SeenBefore(c) =>
          \E k \in DOMAIN siwnAccepted : siwnAccepted[k].message = call[c].message
    BY DEF SeenBefore, Timely, StampsInTime
  <2>2. call[c] # NoCall
    BY DEF NoCall
  <2>3. ASSUME NEW d \in Callers, Accept(d) PROVE FALSE
    <3>1. siwnAccepted' = Append(siwnAccepted, [message |-> call[d].message, at |-> call[d].at])
      BY <2>3 DEF Accept
    <3>2. call[d] # NoCall /\ call[d].phase # "checked"
      BY <2>3 DEF Accept, NoCall
    <3>3. [message |-> call[d].message, at |-> call[d].at] \in [message : Messages, at : Nat]
      BY <3>2 DEF Timely, CallsInTime
    <3>4. Len(siwnAccepted') = Len(siwnAccepted) + 1 /\ Len(siwnAccepted) \in Nat
      BY <3>1, <3>3, SMT DEF Timely
    <3>5. QED
      BY <3>4
  <2>4. ASSUME NEW d \in Callers, RefuseReplay(d)
        PROVE  \E k \in DOMAIN siwnAccepted : siwnAccepted[k].message = call[c].message
    BY <2>1, <2>2, <2>4 DEF RefuseReplay, Timely
  <2>5. QED
    BY <2>2, <2>3, <2>4 DEF SiwnNext, Tick, Check, Stamp, Sweep, Timely, NoCall
<1>2. QED
  BY <1>1, TimelyCorrect, PTL DEF SiwnSpec, NoFalseReplay

-----------------------------------------------------------------------------
(* The cache is bounded if no call is under way for longer than the longest window.  *)

\* What one step does to the bound on the cache.
LEMMA CacheBoundedNext ==
  ASSUME MaxStall <= MaxWindow, Timely, CacheBounded, [SiwnNext]_siwnVars
  PROVE  CacheBounded'
<1> USE Numbers
<1>1. CASE Tick \/ UNCHANGED siwnVars
  BY <1>1 DEF Tick, siwnVars, CacheBounded
<1>2. ASSUME NEW c \in Callers, NEW m \in Messages, Check(c, m) PROVE CacheBounded'
  BY <1>2 DEF Check, CacheBounded, Timely
<1>3. ASSUME NEW c \in Callers, Stamp(c) PROVE CacheBounded'
  BY <1>3 DEF Stamp, CacheBounded, Timely
<1>4. ASSUME NEW c \in Callers, Sweep(c) PROVE CacheBounded'
  <2>1. /\ DOMAIN cache' \subseteq DOMAIN cache
        /\ \A x \in DOMAIN cache' : /\ cache'[x] = cache[x]
                                   /\ Age(call[c].at, cache[x]) <= Window(call[c].message)
    BY <1>4 DEF Sweep
  <2>2. /\ DOMAIN call' = Callers /\ call'[c].phase = "swept" /\ call'[c].at = call[c].at
        /\ \A d \in Callers : d # c => call'[d] = call[d]
    BY <1>4 DEF Sweep, Timely
  <2>3. call[c].at \in Nat /\ Window(call[c].message) <= MaxWindow
    BY <1>4 DEF Sweep, Timely, CallsInTime, NoCall
  <2>4. \A x \in DOMAIN cache' : call[c].at <= cache'[x] + MaxWindow
    <3> SUFFICES ASSUME NEW x \in DOMAIN cache' PROVE call[c].at <= cache'[x] + MaxWindow
      OBVIOUS
    <3>1. cache[x] \in Nat /\ cache'[x] = cache[x] /\ Age(call[c].at, cache[x]) <= Window(call[c].message)
      BY <2>1 DEF Timely, StampsInTime
    <3>2. Window(call[c].message) \in Nat
      BY <1>4 DEF Sweep, Timely, CallsInTime, NoCall
    <3>3. QED
      BY <2>3, <3>1, <3>2, SMT DEF Age
  <2>5. QED
    BY <2>1, <2>2, <2>4 DEF CacheBounded
<1>5. ASSUME NEW c \in Callers, RefuseReplay(c) PROVE CacheBounded'
  BY <1>5 DEF RefuseReplay, CacheBounded, Timely, NoCall
<1>6. ASSUME NEW c \in Callers, Accept(c) PROVE CacheBounded'
  <2>1. /\ call[c].began \in Nat /\ call[c].at \in Nat
        /\ call[c].began <= call[c].at /\ now <= call[c].began + MaxStall
    BY <1>6 DEF Accept, Timely, CallsInTime, NoCall
  <2>2. /\ cache' = [x \in DOMAIN cache \cup {call[c].message} |->
                       IF x = call[c].message THEN call[c].at ELSE cache[x]]
        /\ call' = [call EXCEPT ![c] = NoCall]
    BY <1>6 DEF Accept
  <2>3. ASSUME NEW d \in Callers, call'[d].phase = "swept"
       PROVE call'[d] = call[d] /\ call[d].at <= now /\ call[d].at \in Nat
    BY <2>2, <2>3 DEF Timely, CallsInTime, NoCall
  <2>4. ASSUME NEW d \in Callers, call'[d].phase = "swept", NEW x \in DOMAIN cache'
        PROVE  call'[d].at <= cache'[x] + MaxWindow
    <3>1. CASE x = call[c].message
      BY <2>1, <2>2, <2>3, <2>4, <3>1 DEF Timely
    <3>2. CASE x # call[c].message
      BY <2>2, <2>3, <2>4, <3>2 DEF CacheBounded
    <3>3. QED
      BY <3>1, <3>2
  <2>5. QED
    BY <2>4 DEF CacheBounded
<1>7. QED
  BY <1>1, <1>2, <1>3, <1>4, <1>5, <1>6 DEF SiwnNext

\* Sweeping on use keeps the cache bounded: once a call is past its sweep no entry is
\* older than the longest window, whatever windows the messages have.
THEOREM CacheBoundedCorrect ==
  ASSUME MaxStall <= MaxWindow PROVE SiwnSpec => []CacheBounded
<1>1. SiwnInit => CacheBounded
  BY DEF SiwnInit, CacheBounded
<1>2. Timely /\ CacheBounded /\ [SiwnNext]_siwnVars => CacheBounded'
  BY CacheBoundedNext
<1>3. QED
  BY <1>1, <1>2, TimelyCorrect, PTL DEF SiwnSpec

-----------------------------------------------------------------------------
(* A message is accepted once, if all have windows of one length within the cap and  *)
(* no call is under way for more than a tick.                                        *)

OneWindow ==
  \E w \in 0..MaxWindow : \A m \in Messages : Expires(m) = IssuedAt(m) + w

\* An entry is swept only when its message has expired.
KeptWhileInForce ==
  \A k \in DOMAIN siwnAccepted :
    siwnAccepted[k].message \in DOMAIN cache \/ Expires(siwnAccepted[k].message) < now

\* A stamp older than the window is of a message that has expired.
LEMMA OldIsExpired ==
  ASSUME OneWindow, NEW m \in Messages, NEW n \in Messages, NEW at \in Nat, NEW stamp \in Nat,
         IssuedAt(m) <= stamp, Age(at, stamp) > Window(n)
  PROVE  Expires(m) < at
<1>1. PICK w \in 0..MaxWindow : \A x \in Messages : Expires(x) = IssuedAt(x) + w
  BY DEF OneWindow
<1>2. Window(n) = w
  BY <1>1, Numbers DEF Window
<1>3. QED
  BY <1>1, <1>2, Numbers DEF Age

\* A call that finds its message absent or old is the first to have it accepted.
LEMMA FirstAcceptance ==
  ASSUME OneWindow, MaxStall <= 1, Timely, KeptWhileInForce,
         NEW c \in Callers, Accept(c),
         NEW k \in DOMAIN siwnAccepted
  PROVE  siwnAccepted[k].message # call[c].message
<1>1. SUFFICES ASSUME siwnAccepted[k].message = call[c].message PROVE FALSE
  OBVIOUS
<1> DEFINE m == call[c].message
<1>2. /\ m \in Messages /\ call[c].began \in Nat /\ call[c].began < Expires(m)
      /\ now <= call[c].began + MaxStall /\ call[c].at \in Nat /\ call[c].at <= now
  BY DEF Accept, Timely, CallsInTime, NoCall
<1>9. Expires(m) \in Nat /\ now \in Nat /\ MaxStall \in Nat
  BY <1>2, Numbers DEF Timely
<1>3. Expires(m) < now
  <2>1. CASE m \notin DOMAIN cache
    BY <1>1, <2>1 DEF KeptWhileInForce
  <2>2. CASE m \in DOMAIN cache
    <3>1. Age(call[c].at, cache[m]) > Window(m)
      <4>1. cache[m] \in Nat
        BY <2>2 DEF Timely, StampsInTime
      <4>2. Age(call[c].at, cache[m]) \in Int /\ Window(m) \in Int
        BY <1>2, <4>1, Numbers DEF Age
      <4>3. ~ (Age(call[c].at, cache[m]) <= Window(m))
        BY <2>2 DEF Accept, SeenBefore
      <4>4. QED
        BY <4>2, <4>3
    <3>2. Expires(m) < call[c].at
      BY <1>2, <2>2, <3>1, OldIsExpired DEF Timely, StampsInTime
    <3>3. QED
      BY <1>2, <1>9, <3>2
  <2>3. QED
    BY <2>1, <2>2
<1>4. QED
  BY <1>2, <1>3, <1>9

\* What one step does to acceptances and to the entries kept for them.
LEMMA AcceptedOnceNext ==
  ASSUME OneWindow, MaxStall <= 1, Timely, KeptWhileInForce, AcceptedOnce, [SiwnNext]_siwnVars
  PROVE  KeptWhileInForce' /\ AcceptedOnce'
<1> USE Numbers
<1>1. CASE Tick
  <2>1. now' = now + 1 /\ cache' = cache /\ siwnAccepted' = siwnAccepted
    BY <1>1 DEF Tick
  <2>2. ASSUME NEW k \in DOMAIN siwnAccepted, Expires(siwnAccepted[k].message) < now
        PROVE  Expires(siwnAccepted[k].message) < now'
    <3>1. siwnAccepted[k] \in [message : Messages, at : Nat]
      BY EntryTyped DEF Timely
    <3>2. siwnAccepted[k].message \in Messages
      BY <3>1
    <3>3. Expires(siwnAccepted[k].message) \in Nat /\ now \in Nat
      BY <3>2 DEF Timely
    <3>4. QED
      BY <2>1, <2>2, <3>3
  <2>3. QED
    BY <2>1, <2>2 DEF KeptWhileInForce, AcceptedOnce
<1>2. ASSUME NEW c \in Callers, NEW m \in Messages, Check(c, m)
      PROVE  KeptWhileInForce' /\ AcceptedOnce'
  BY <1>2 DEF Check, KeptWhileInForce, AcceptedOnce
<1>3. ASSUME NEW c \in Callers, Stamp(c) PROVE KeptWhileInForce' /\ AcceptedOnce'
  BY <1>3 DEF Stamp, KeptWhileInForce, AcceptedOnce
<1>4. ASSUME NEW c \in Callers, Sweep(c) PROVE KeptWhileInForce' /\ AcceptedOnce'
  <2>1. now' = now /\ siwnAccepted' = siwnAccepted
    BY <1>4 DEF Sweep
  <2>2. /\ call[c].message \in Messages /\ call[c].at \in Nat /\ call[c].at <= now
    BY <1>4 DEF Sweep, Timely, CallsInTime, NoCall
  <2>3. ASSUME NEW m \in DOMAIN cache, m \notin DOMAIN cache' PROVE Expires(m) < now
    <3>1. ~ (Age(call[c].at, cache[m]) <= Window(call[c].message))
      BY <1>4, <2>3 DEF Sweep
    <3>2. m \in Messages /\ cache[m] \in Nat /\ IssuedAt(m) <= cache[m]
      BY DEF Timely, StampsInTime
    <3>3. Age(call[c].at, cache[m]) > Window(call[c].message)
      <4>1. Age(call[c].at, cache[m]) \in Int /\ Window(call[c].message) \in Int
        BY <2>2, <3>2 DEF Age
      <4>2. QED
        BY <3>1, <4>1
    <3>4. Expires(m) < call[c].at
      BY <2>2, <3>2, <3>3, OldIsExpired
    <3>5. QED
      BY <2>2, <3>2, <3>4 DEF Timely
  <2>4. QED
    BY <2>1, <2>3 DEF KeptWhileInForce, AcceptedOnce
<1>5. ASSUME NEW c \in Callers, RefuseReplay(c) PROVE KeptWhileInForce' /\ AcceptedOnce'
  BY <1>5 DEF RefuseReplay, KeptWhileInForce, AcceptedOnce
<1>6. ASSUME NEW c \in Callers, Accept(c) PROVE KeptWhileInForce' /\ AcceptedOnce'
  <2> DEFINE m == call[c].message
             new == [message |-> m, at |-> call[c].at]
  <2>1. new \in [message : Messages, at : Nat]
    BY <1>6 DEF Accept, Timely, CallsInTime, NoCall
  <2>2. siwnAccepted' = Append(siwnAccepted, new)
    BY <1>6 DEF Accept
  <2>3. DOMAIN cache' = DOMAIN cache \cup {m} /\ now' = now
    BY <1>6 DEF Accept
  <2>4. \A k \in DOMAIN siwnAccepted : siwnAccepted[k].message # m
    BY <1>6, FirstAcceptance
  <2>5. new.message = m
    OBVIOUS
  <2> HIDE DEF new, m
  <2>6. /\ DOMAIN siwnAccepted' = DOMAIN siwnAccepted \cup {Len(siwnAccepted) + 1}
        /\ siwnAccepted'[Len(siwnAccepted) + 1] = new
        /\ \A k \in DOMAIN siwnAccepted : siwnAccepted'[k] = siwnAccepted[k]
    BY <2>1, <2>2, AppendKeeps DEF Timely
  <2>7. KeptWhileInForce'
    BY <2>3, <2>5, <2>6 DEF KeptWhileInForce
  <2>8. AcceptedOnce'
    BY <2>4, <2>5, <2>6 DEF AcceptedOnce
  <2>9. QED
    BY <2>7, <2>8
<1>7. CASE UNCHANGED siwnVars
  BY <1>7 DEF siwnVars, KeptWhileInForce, AcceptedOnce
<1>8. QED
  BY <1>1, <1>2, <1>3, <1>4, <1>5, <1>6, <1>7 DEF SiwnNext

\* No interleaving of any number of callers accepts a message twice.
THEOREM AcceptedOnceCorrect ==
  ASSUME OneWindow, MaxStall <= 1 PROVE SiwnSpec => []AcceptedOnce
<1>1. SiwnInit => KeptWhileInForce /\ AcceptedOnce
  BY DEF SiwnInit, KeptWhileInForce, AcceptedOnce
<1>2. Timely /\ KeptWhileInForce /\ AcceptedOnce /\ [SiwnNext]_siwnVars => KeptWhileInForce' /\ AcceptedOnce'
  BY AcceptedOnceNext
<1>3. QED
  BY <1>1, <1>2, TimelyCorrect, PTL DEF SiwnSpec

-----------------------------------------------------------------------------
(* Watch *)

\* FlattenSeq: the function it chooses is the recursive one.
FlatStep(F, seqs, i) == IF i = 1 THEN seqs[i] ELSE F[i - 1] \o seqs[i]
IsFlat(F, seqs, n) == F = [i \in 1 .. n |-> FlatStep(F, seqs, i)]

\* There is such a function for any list of lists.
LEMMA FlatExists ==
  ASSUME NEW seqs, NEW n \in Nat
  PROVE  \E F : IsFlat(F, seqs, n)
<1> DEFINE N == {m \in Nat : \E F : F = [i \in 1 .. m |-> FlatStep(F, seqs, i)]}
<1>1. 0 \in N
  <2>1. << >> = [i \in 1 .. 0 |-> FlatStep(<< >>, seqs, i)]
    OBVIOUS
  <2>2. QED  BY <2>1
<1>2. ASSUME NEW m \in Nat, m \in N
      PROVE  m + 1 \in N
  <2>1. PICK F : F = [i \in 1 .. m |-> FlatStep(F, seqs, i)]
    BY <1>2
  <2> DEFINE G == [i \in 1 .. (m + 1) |-> IF i = m + 1 THEN FlatStep(F, seqs, i) ELSE F[i]]
  <2>2. ASSUME NEW i \in 1 .. (m + 1) PROVE G[i] = FlatStep(G, seqs, i)
    <3>1. i # 1 => i - 1 \in 1 .. m /\ i - 1 # m + 1 /\ G[i - 1] = F[i - 1]
      OBVIOUS
    <3>2. FlatStep(G, seqs, i) = FlatStep(F, seqs, i)
      <4> HIDE DEF G, N
      <4>1. CASE i = 1
        BY <4>1, Zenon DEF FlatStep
      <4>2. CASE i # 1
        <5>1. G[i - 1] = F[i - 1]
          BY <3>1, <4>2
        <5>2. QED  BY <4>2, <5>1, Zenon DEF FlatStep
      <4>3. QED  BY <4>1, <4>2
    <3>3. i # m + 1 => i \in 1 .. m /\ F[i] = FlatStep(F, seqs, i)
      BY <2>1
    <3>4. QED  BY <3>2, <3>3
  <2>3. G = [i \in 1 .. (m + 1) |-> FlatStep(G, seqs, i)]
    <3>1. G = [i \in 1 .. (m + 1) |-> G[i]]
      OBVIOUS
    <3> HIDE DEF G
    <3>2. QED  BY <2>2, <3>1
  <2> HIDE DEF G
  <2>4. QED
    BY <2>3
<1>3. n \in N
  <2> HIDE DEF N
  <2>1. QED  BY <1>1, <1>2, Induction
<1>4. QED
  BY <1>3 DEF IsFlat

\* What it computes, of lists over T.
IsFlattened(F, seqs, n, T) ==
  /\ n \in Nat
  /\ \A i \in 1 .. n : seqs[i] \in Seq(T) /\ F[i] \in Seq(T)
  /\ n >= 1 => F[1] = seqs[1]
  /\ \A i \in 2 .. n : F[i] = Joined(F[i - 1], seqs[i])

\* FlattenSeq has the last of its values.
LEMMA FlatIs ==
  ASSUME NEW T, NEW seqs \in Seq(Seq(T)), seqs # << >>
  PROVE  \E F : IsFlattened(F, seqs, Len(seqs), T) /\ FlattenSeq(seqs) = F[Len(seqs)]
<1> DEFINE n == Len(seqs)
           F == CHOOSE flatten :
                  flatten = [i \in 1 .. Len(seqs) |->
                               IF i = 1 THEN seqs[i] ELSE flatten[i - 1] \o seqs[i]]
<1>1. n \in Nat /\ n # 0 /\ \A i \in 1 .. n : seqs[i] \in Seq(T)
  OBVIOUS
<1>2. FlattenSeq(seqs) = F[n]
  BY <1>1, Zenon DEF FlattenSeq
<1>3. IsFlat(F, seqs, n)
  <2>1. PICK G : IsFlat(G, seqs, n)
    BY <1>1, FlatExists
  <2>2. QED
    BY <2>1, Zenon DEF IsFlat, FlatStep
<1> HIDE DEF F, n
<1>4. \A i \in 1 .. n : F[i] = FlatStep(F, seqs, i)
  BY <1>3 DEF IsFlat
<1>5. F[1] = seqs[1]
  BY <1>1, <1>4 DEF FlatStep
<1>6. ASSUME NEW i \in 2 .. n PROVE F[i] = Joined(F[i - 1], seqs[i])
  <2>1. i \in 1 .. n /\ i # 1
    BY <1>1
  <2>2. F[i] = FlatStep(F, seqs, i)
    BY <1>4, <2>1
  <2>3. QED  BY <2>1, <2>2, Zenon DEF FlatStep, Joined
<1> DEFINE N == {k \in Nat : k + 1 <= n => F[k + 1] \in Seq(T)}
<1>7. 0 \in N
  BY <1>1, <1>5
<1>8. ASSUME NEW k \in Nat, k \in N PROVE k + 1 \in N
  <2>1. CASE (k + 1) + 1 <= n
    <3>1. (k + 1) + 1 \in 2 .. n /\ ((k + 1) + 1) - 1 = k + 1 /\ (k + 1) + 1 \in 1 .. n
      BY <1>1, <2>1
    <3>2. PICK u, v : u = F[k + 1] /\ v = seqs[(k + 1) + 1]
      OBVIOUS
    <3>3. u \in Seq(T) /\ v \in Seq(T)
      BY <1>1, <1>8, <2>1, <3>1, <3>2
    <3>4. u \o v \in Seq(T)
      BY <3>3
    <3>5. F[(k + 1) + 1] = u \o v
      BY <1>6, <3>1, <3>2 DEF Joined
    <3>6. F[(k + 1) + 1] \in Seq(T)
      BY <3>4, <3>5, Zenon
    <3>7. QED  BY <3>6
  <2>2. QED  BY <1>1, <2>1
<1> HIDE DEF N
<1>9. Nat \subseteq N
  BY <1>7, <1>8, Induction
<1>10. ASSUME NEW i \in 1 .. n PROVE F[i] \in Seq(T)
  <2>1. i - 1 \in N /\ (i - 1) + 1 = i
    BY <1>1, <1>9
  <2>2. QED  BY <1>1, <2>1 DEF N
<1>11. IsFlattened(F, seqs, n, T)
  BY <1>1, <1>5, <1>6, <1>10 DEF IsFlattened
<1>12. QED
  BY <1>2, <1>11 DEF n

\* One list more is joined to what came before.
LEMMA FlattenMore ==
  ASSUME NEW T, NEW seqs \in Seq(Seq(T)), NEW x \in Seq(T)
  PROVE  FlattenSeq(seqs) \in Seq(T) /\ FlattenSeq(Added(seqs, x)) = Joined(FlattenSeq(seqs), x)
<1>1. PICK S : S = Seq(T)
  OBVIOUS
<1>2. seqs \in Seq(S) /\ x \in S
  BY <1>1
<1> DEFINE more == Append(seqs, x)
           n == Len(seqs)
<1>3. /\ more \in Seq(S) /\ more # << >> /\ Len(more) = n + 1 /\ n \in Nat
      /\ more[n + 1] = x /\ \A i \in 1 .. n : more[i] = seqs[i]
      /\ seqs = << >> <=> n = 0
  BY <1>2
<1> HIDE DEF more, n
<1>4. PICK G : IsFlattened(G, more, n + 1, T) /\ FlattenSeq(more) = G[n + 1]
  BY <1>1, <1>3, FlatIs
<1>5. CASE n = 0
  <2>1. FlattenSeq(seqs) = << >>
    BY <1>3, <1>5 DEF FlattenSeq, n
  <2>2. FlattenSeq(more) = x
    BY <1>3, <1>4, <1>5 DEF IsFlattened
  <2>3. << >> \in Seq(T) /\ << >> \o x = x
    OBVIOUS
  <2>4. QED  BY <2>1, <2>2, <2>3 DEF Joined, Added, more
<1>6. CASE n # 0
  <2>1. PICK F : IsFlattened(F, seqs, n, T) /\ FlattenSeq(seqs) = F[n]
    BY <1>1, <1>2, <1>3, <1>6, FlatIs DEF n
  <2> DEFINE N == {k \in Nat : k + 1 <= n => G[k + 1] = F[k + 1]}
  <2>2. 0 \in N
    BY <1>3, <1>4, <1>6, <2>1 DEF IsFlattened
  <2>3. ASSUME NEW k \in Nat, k \in N PROVE k + 1 \in N
    <3>1. CASE (k + 1) + 1 <= n
      <4>1. /\ (k + 1) + 1 \in 2 .. n /\ (k + 1) + 1 \in 2 .. (n + 1) /\ ((k + 1) + 1) - 1 = k + 1
            /\ (k + 1) + 1 \in 1 .. n
        BY <1>3, <3>1
      <4>2. F[(k + 1) + 1] = Joined(F[k + 1], seqs[(k + 1) + 1])
        BY <2>1, <4>1 DEF IsFlattened
      <4>3. G[(k + 1) + 1] = Joined(G[k + 1], more[(k + 1) + 1])
        BY <1>4, <4>1 DEF IsFlattened
      <4>4. G[k + 1] = F[k + 1]
        BY <1>3, <2>3, <3>1
      <4>5. QED  BY <1>3, <4>1, <4>2, <4>3, <4>4
    <3>2. QED  BY <1>3, <3>1
  <2> HIDE DEF N
  <2>4. Nat \subseteq N
    BY <2>2, <2>3, Induction
  <2>5. G[n] = F[n]
    <3>1. n - 1 \in N /\ (n - 1) + 1 = n
      BY <1>3, <1>6, <2>4
    <3>2. QED  BY <3>1 DEF N
  <2>6. G[n + 1] = Joined(G[n], x)
    <3>1. n + 1 \in 2 .. (n + 1) /\ (n + 1) - 1 = n
      BY <1>3, <1>6
    <3>2. QED  BY <1>3, <1>4, <3>1 DEF IsFlattened
  <2>7. F[n] \in Seq(T)
    BY <1>3, <1>6, <2>1 DEF IsFlattened
  <2>8. QED  BY <1>4, <2>1, <2>5, <2>6, <2>7 DEF Added, more
<1>7. QED  BY <1>5, <1>6

\* What is left of what was sent, when one more is sent.
LEMMA SentMore ==
  ASSUME NEW T, NEW s \in Seq(T), NEW x \in T, NEW L, x \notin Range(s), L \subseteq Range(s)
  PROVE  Only(Added(s, x), Range(Added(s, x)) \ L) = Added(Only(s, Range(s) \ L), x)
<1> DEFINE more == Append(s, x)
           S == Range(more) \ L
<1>1. Len(s) \in Nat /\ Len(more) = Len(s) + 1 /\ DOMAIN more = 1 .. Len(more) /\ DOMAIN s = 1 .. Len(s)
      /\ more[Len(s) + 1] = x /\ \A i \in 1 .. Len(s) : more[i] = s[i]
  OBVIOUS
<1>2. x \in S
  <2> HIDE DEF more
  <2>1. x \in Range(more)
    BY <1>1 DEF Range
  <2>2. QED  BY <2>1
<1>3. \A i \in 1 .. Len(s) : s[i] \in S <=> s[i] \in Range(s) \ L
  <2> HIDE DEF more
  <2>1. \A i \in 1 .. Len(s) : s[i] \in Range(more) /\ s[i] \in Range(s)
    BY <1>1 DEF Range
  <2>2. QED  BY <2>1
<1> HIDE DEF S
<1>4. Only(s, S) = Only(s, Range(s) \ L)
  BY <1>3, OnlySame
<1>5. Only(Append(s, x), S) = Append(Only(s, S), x)
  BY <1>2, OnlyAppend
<1>6. QED
  BY <1>4, <1>5 DEF S, Added

\* The head of the second part of a filtered list, whose members differ, is taken out.
LEMMA HeadLost ==
  ASSUME NEW T, NEW s \in Seq(T), Differ(s), NEW K, NEW q \in Seq(T), NEW rx \in Seq(T),
         rx # << >>, Joined(q, rx) = Only(s, K)
  PROVE  Joined(q, Tail(rx)) = Only(s, K \ {Head(rx)})
<1> DEFINE h == Head(rx)
           R == K \ {h}
           one == << h >>
           m == Len(q)
           n == Len(rx)
<1>1. /\ m \in Nat /\ n \in Nat /\ n >= 1 /\ h = rx[1] /\ rx[1] \in T /\ one \in Seq(T)
      /\ Len(one) = 1 /\ one[1] = h
      /\ Tail(rx) \in Seq(T) /\ Len(Tail(rx)) = n - 1 /\ \A i \in 1 .. (n - 1) : Tail(rx)[i] = rx[i + 1]
  OBVIOUS
<1>2. /\ q \o rx \in Seq(T) /\ Len(q \o rx) = m + n
      /\ \A i \in 1 .. m : (q \o rx)[i] = q[i]
      /\ \A i \in 1 .. n : (q \o rx)[m + i] = rx[i]
  BY <1>1
<1>3. q \o rx = Only(s, K)
  BY DEF Joined
<1>4. q \o rx \in Seq(K)
  BY <1>3, OnlyType
<1>5. Differ(q \o rx)
  BY <1>3, OnlyOnce
<1> HIDE DEF m, n, one, h
<1>6. \A i \in 1 .. (m + n) : i # m + 1 => (q \o rx)[i] \in R
  <2>1. (q \o rx)[m + 1] = h
    BY <1>1, <1>2
  <2>2. \A i \in 1 .. (m + n) : (q \o rx)[i] \in K
    BY <1>2, <1>4
  <2>3. \A i \in 1 .. (m + n) : (q \o rx)[i] = (q \o rx)[m + 1] => i = m + 1
    BY <1>1, <1>2, <1>5 DEF Differ
  <2>4. QED  BY <2>1, <2>2, <2>3
<1>7. Only(q, R) = q
  <2>1. \A i \in 1 .. Len(q) : q[i] \in R
    BY <1>1, <1>2, <1>6 DEF m
  <2> HIDE DEF R
  <2>2. QED  BY <2>1, OnlyAll
<1>8. Only(Tail(rx), R) = Tail(rx)
  <2>1. \A i \in 1 .. Len(Tail(rx)) : Tail(rx)[i] \in R
    <3> SUFFICES ASSUME NEW i \in 1 .. (n - 1) PROVE Tail(rx)[i] \in R
      BY <1>1
    <3>1. i + 1 \in 1 .. n /\ m + (i + 1) \in 1 .. (m + n) /\ m + (i + 1) # m + 1
      BY <1>1
    <3>2. Tail(rx)[i] = (q \o rx)[m + (i + 1)]
      BY <1>1, <1>2, <3>1
    <3>3. QED  BY <1>6, <3>1, <3>2
  <2> HIDE DEF R
  <2>2. QED  BY <1>1, <2>1, OnlyAll
<1>9. Only(one, R) = << >>
  <2>1. \A i \in 1 .. Len(one) : one[i] \notin R
    BY <1>1
  <2> HIDE DEF R
  <2>2. QED  BY <1>1, <2>1, OnlyNone
<1> HIDE DEF R
<1>11. Only(rx, R) = Tail(rx)
  <2>1. Only(rx, R) = Joined(Only(one, R), Only(Tail(rx), R))
    BY HeadFirst DEF one, h
  <2>2. Only(rx, R) = << >> \o Tail(rx)
    BY <1>8, <1>9, <2>1 DEF Joined
  <2>3. QED
    BY <1>1, <2>2
<1>12. Only(q \o rx, R) = q \o Tail(rx)
  <2>1. Only(Joined(q, rx), R) = Joined(Only(q, R), Only(rx, R))
    BY OnlyConcat
  <2>2. QED  BY <1>7, <1>11, <2>1 DEF Joined
<1>13. Only(Only(s, K), R) = Only(s, R)
  <2>1. R \subseteq K
    BY DEF R
  <2>2. QED  BY <2>1, OnlyOnly
<1>14. QED
  BY <1>3, <1>12, <1>13 DEF R, h, Joined

Emissions == [of : 1 .. MaxCommands, place : 1 .. MaxEffects, tag : EffectTags]
Lines == [kind : {"error", "poke", "peek", "kernel-died"}, num : 0 .. MaxCommands,
          effects : Seq(Emissions), shown : BOOLEAN]

\* All the effects of the rows.
Printed(lines) == FlattenSeq([i \in DOMAIN lines |-> lines[i].effects])

\* The last command whose effects may have come.
Answered == IF repl = "poking" THEN event_num - 1 ELSE event_num

WatchTyped ==
  /\ repl \in {"reading", "poking", "draining", "peeking", "ended"}
  /\ event_num \in 0 .. MaxCommands
  /\ repl = "poking" => event_num >= 1
  /\ tasks \in [1 .. MaxCommands -> Seq(Emissions)]
  /\ sent \in Seq(Emissions) /\ effects \in Seq(Emissions) /\ effect_rx \in Seq(Emissions)
  /\ rows \in Seq(Lines)
  /\ lagged \subseteq Range(sent)

\* A task has the later effects of its command in their order, after those sent.
Ordered ==
  /\ Differ(sent)
  /\ \A s \in 1 .. Len(sent) : sent[s].of <= Answered
  /\ \A n \in 1 .. MaxCommands :
       /\ tasks[n] # << >> => n <= Answered
       /\ \A i \in 1 .. Len(tasks[n]) : tasks[n][i].of = n
       /\ \A i, j \in 1 .. Len(tasks[n]) : i < j => tasks[n][i].place < tasks[n][j].place
       /\ \A s \in 1 .. Len(sent), i \in 1 .. Len(tasks[n]) :
            sent[s].of = n => sent[s].place < tasks[n][i].place

Conserved ==
  Joined(Joined(Printed(rows), effects), effect_rx) = Only(sent, Range(sent) \ lagged)

Told ==
  \A i \in 1 .. Len(rows) : \A k \in 1 .. Len(rows[i].effects) :
    /\ rows[i].effects[k].of <= rows[i].num
    /\ filter = [on |-> "effect", tag |-> rows[i].effects[k].tag] => rows[i].shown

WatchInv == WatchTyped /\ Ordered /\ Conserved /\ Told

\* A row more.
LEMMA PrintedMore ==
  ASSUME NEW lines \in Seq(Lines), NEW line \in Lines
  PROVE  /\ Printed(lines) \in Seq(Emissions)
         /\ Printed(Added(lines, line)) = Joined(Printed(lines), line.effects)
<1> DEFINE seen == [i \in DOMAIN lines |-> lines[i].effects]
           more == Append(lines, line)
           seenMore == [i \in DOMAIN more |-> more[i].effects]
<1>1. /\ Len(lines) \in Nat /\ DOMAIN lines = 1 .. Len(lines) /\ DOMAIN more = 1 .. (Len(lines) + 1)
      /\ more[Len(lines) + 1] = line /\ \A i \in 1 .. Len(lines) : more[i] = lines[i]
      /\ \A i \in 1 .. Len(lines) : lines[i] \in Lines
  OBVIOUS
<1>2. line.effects \in Seq(Emissions) /\ \A i \in 1 .. Len(lines) : lines[i].effects \in Seq(Emissions)
  <2>1. \A l \in Lines : l.effects \in Seq(Emissions)
    BY DEF Lines
  <2>2. QED  BY <1>1, <2>1
<1> HIDE DEF more
<1>3. PICK E : E = Seq(Emissions)
  OBVIOUS
<1>4. seen \in Seq(E) /\ Len(seen) = Len(lines)
  BY <1>1, <1>2, <1>3
<1>5. seenMore = Append(seen, line.effects)
  <2>1. PICK x : x = line.effects
    OBVIOUS
  <2>2. x \in E
    BY <1>2, <1>3, <2>1
  <2>3. seenMore \in Seq(E) /\ Len(seenMore) = Len(lines) + 1
        /\ \A i \in 1 .. (Len(lines) + 1) : seenMore[i] = IF i = Len(lines) + 1 THEN x ELSE lines[i].effects
    <3>1. \A i \in 1 .. (Len(lines) + 1) :
            more[i].effects = IF i = Len(lines) + 1 THEN x ELSE lines[i].effects
      BY <1>1, <2>1
    <3>2. \A i \in 1 .. (Len(lines) + 1) : more[i].effects \in E
      <4>1. \A i \in 1 .. (Len(lines) + 1) : i # Len(lines) + 1 => i \in 1 .. Len(lines)
        BY <1>1
      <4>2. QED  BY <1>2, <1>3, <2>2, <3>1, <4>1
    <3>3. seenMore = [i \in 1 .. (Len(lines) + 1) |-> more[i].effects]
      BY <1>1
    <3> HIDE DEF seen
    <3>4. \A i \in 1 .. (Len(lines) + 1) : seenMore[i] = more[i].effects
      BY <3>3
    <3>5. seenMore \in Seq(E) /\ Len(seenMore) = Len(lines) + 1
      BY <1>1, <3>2, <3>3
    <3>6. QED  BY <3>1, <3>4, <3>5
  <2>4. /\ Append(seen, x) \in Seq(E) /\ Len(Append(seen, x)) = Len(lines) + 1
        /\ \A i \in 1 .. (Len(lines) + 1) :
             Append(seen, x)[i] = IF i = Len(lines) + 1 THEN x ELSE seen[i]
    <3> HIDE DEF seen, seenMore
    <3>1. QED  BY <1>1, <1>4, <2>2
  <2>5. \A i \in 1 .. Len(lines) : seen[i] = lines[i].effects
    BY <1>1
  <2> HIDE DEF seen, seenMore
  <2>6. \A i \in 1 .. Len(seenMore) : seenMore[i] = Append(seen, x)[i]
    BY <1>1, <2>3, <2>4, <2>5
  <2>7. seenMore = Append(seen, x)
    BY <2>3, <2>4, <2>6, SeqEqual
  <2>8. QED  BY <2>1, <2>7
<1> HIDE DEF seen, seenMore
<1>6. /\ FlattenSeq(seen) \in Seq(Emissions)
      /\ FlattenSeq(Added(seen, line.effects)) = Joined(FlattenSeq(seen), line.effects)
  BY <1>2, <1>3, <1>4, FlattenMore
<1>7. QED
  BY <1>5, <1>6 DEF Printed, Added, seen, seenMore, more

\* Nothing has been sent or printed when the session begins.
LEMMA WatchInvInit == WatchInit => WatchInv
<1> SUFFICES ASSUME WatchInit PROVE WatchInv
  OBVIOUS
<1>1. WatchTyped
  BY WatchAssumption DEF WatchInit, WatchTyped
<1>2. Ordered
  BY DEF WatchInit, Ordered, Differ
<1>3. Conserved
  <2>1. rows = << >> /\ effects = << >> /\ effect_rx = << >> /\ sent = << >>
    BY DEF WatchInit
  <2>2. Printed(rows) = << >>
    <3>1. PICK l : l = [i \in DOMAIN rows |-> rows[i].effects]
      OBVIOUS
    <3>2. l = << >> /\ Len(l) = 0
      BY <2>1, <3>1
    <3>3. FlattenSeq(l) = l
      BY <3>2, Zenon DEF FlattenSeq
    <3>4. QED  BY <3>1, <3>2, <3>3 DEF Printed
  <2>3. Joined(Joined(<< >>, << >>), << >>) = << >>
    BY DEF Joined
  <2>4. Only(<< >>, Range(sent) \ lagged) = << >>
    <3>1. << >> \in Seq({}) /\ \A k \in 1 .. Len(<< >>) : << >>[k] \notin Range(sent) \ lagged
      OBVIOUS
    <3>2. QED  BY <3>1, OnlyNone
  <2>5. QED  BY <2>1, <2>2, <2>3, <2>4 DEF Conserved
<1>4. Told
  BY DEF WatchInit, Told
<1>5. QED  BY <1>1, <1>2, <1>3, <1>4 DEF WatchInv

\* A row with no effects tells nothing more.
LEMMA EmptyRow ==
  ASSUME WatchInv, NEW kind \in {"error", "peek", "kernel-died"}, NEW num \in 0 .. MaxCommands,
         Write(kind, num, << >>), UNCHANGED <<filter, effects, effect_rx, sent, lagged>>
  PROVE  rows' \in Seq(Lines) /\ Conserved' /\ Told'
<1> DEFINE line == Row(kind, num, << >>)
<1>1. line \in Lines /\ line.effects = << >>
  <2>1. << >> \in Seq(Emissions)
    OBVIOUS
  <2>2. (filter.on = "effect" /\ kind = "poke" =>
           \E i \in DOMAIN << >> : << >>[i].tag = filter.tag) \in BOOLEAN
    BY Zenon
  <2>3. QED  BY <2>1, <2>2 DEF Lines, Row
<1>2. rows \in Seq(Lines)
  BY DEF WatchInv, WatchTyped
<1>3. rows' = Append(rows, line)
  BY DEF Write
<1> HIDE DEF line
<1>4. rows' \in Seq(Lines)
  BY <1>1, <1>2, <1>3
<1>5. Conserved'
  <2>1. Printed(rows) \in Seq(Emissions) /\ Printed(rows') = Joined(Printed(rows), << >>)
    BY <1>1, <1>2, <1>3, PrintedMore DEF Added
  <2>2. Printed(rows') = Printed(rows)
    BY <2>1, JoinedNothing
  <2>3. QED  BY <2>2 DEF WatchInv, Conserved
<1>6. Told'
  <2>1. /\ Len(rows) \in Nat /\ Len(rows') = Len(rows) + 1 /\ rows'[Len(rows) + 1] = line
        /\ \A i \in 1 .. Len(rows) : rows'[i] = rows[i]
    BY <1>1, <1>2, <1>3
  <2>2. Told /\ filter' = filter
    BY DEF WatchInv
  <2>3. QED  BY <1>1, <2>1, <2>2 DEF Told
<1>7. QED  BY <1>4, <1>5, <1>6

\* The end of a window: what was drained is in the row.
LEMMA WindowRow ==
  ASSUME WatchInv, WindowEnds
  PROVE  rows' \in Seq(Lines) /\ Conserved' /\ Told'
<1> DEFINE line == Row("poke", event_num, effects)
<1>1. /\ rows \in Seq(Lines) /\ effects \in Seq(Emissions) /\ event_num \in 0 .. MaxCommands
      /\ effect_rx \in Seq(Emissions)
  BY DEF WatchInv, WatchTyped
<1>2. line.effects = effects /\ line.num = event_num
  BY DEF Row
<1>3. line \in Lines
  <2>1. (filter.on = "effect" /\ "poke" = "poke" =>
           \E i \in DOMAIN effects : effects[i].tag = filter.tag) \in BOOLEAN
    BY Zenon
  <2>2. QED  BY <1>1, <2>1 DEF Lines, Row
<1>4. \A k \in 1 .. Len(effects) :
        filter = [on |-> "effect", tag |-> effects[k].tag] => line.shown
  <2>1. DOMAIN effects = 1 .. Len(effects)
    BY <1>1
  <2>2. ASSUME NEW k \in 1 .. Len(effects), filter = [on |-> "effect", tag |-> effects[k].tag]
        PROVE  line.shown
    <3>1. effects[k].tag = filter.tag
      BY <2>2
    <3>2. line.shown = (filter.on = "effect" /\ "poke" = "poke" =>
                          \E i \in DOMAIN effects : effects[i].tag = filter.tag)
      BY Zenon DEF Row
    <3>3. QED  BY <2>1, <3>1, <3>2, Zenon
  <2>3. QED  BY <2>2
<1>5. rows' = Append(rows, line) /\ effects' = << >> /\ filter' = filter
      /\ effect_rx' = effect_rx /\ sent' = sent /\ lagged' = lagged
  BY DEF WindowEnds, Write, channelVars
<1> HIDE DEF line
<1>6. rows' \in Seq(Lines)
  BY <1>1, <1>3, <1>5
<1>7. Conserved'
  <2>1. Printed(rows) \in Seq(Emissions) /\ Printed(rows') = Joined(Printed(rows), effects)
    BY <1>1, <1>2, <1>3, <1>5, PrintedMore DEF Added
  <2>2. PICK p : p = Printed(rows')
    OBVIOUS
  <2>3. p \in Seq(Emissions)
    BY <1>1, <2>1, <2>2, JoinedParts DEF IsJoined
  <2>4. Joined(p, << >>) = p
    BY <2>3, JoinedNothing
  <2>5. QED  BY <1>5, <2>1, <2>2, <2>4 DEF WatchInv, Conserved
<1>8. ASSUME NEW k \in 1 .. Len(effects) PROVE effects[k].of <= event_num
  <2>1. PICK p, d : p = Printed(rows) /\ d = Joined(p, effects)
    OBVIOUS
  <2>2. p \in Seq(Emissions)
    BY <1>1, <1>3, <2>1, PrintedMore
  <2>3. d \in Seq(Emissions)
    BY <1>1, <2>1, <2>2, JoinedParts DEF IsJoined
  <2>4. sent \in Seq(Emissions)
    BY DEF WatchInv, WatchTyped
  <2>5. Joined(d, effect_rx) \in Seq(Range(sent) \ lagged)
    <3>1. Joined(d, effect_rx) = Only(sent, Range(sent) \ lagged)
      BY <2>1 DEF WatchInv, Conserved
    <3>2. QED  BY <2>4, <3>1, OnlyType
  <2>6. d \in Seq(Range(sent) \ lagged)
    BY <1>1, <2>3, <2>5, PartsIn
  <2>7. effects \in Seq(Range(sent) \ lagged)
    BY <1>1, <2>1, <2>2, <2>6, PartsIn
  <2>8. effects[k] \in Range(sent)
    BY <2>7
  <2>9. PICK s \in 1 .. Len(sent) : effects[k] = sent[s]
    BY <2>4, <2>8 DEF Range
  <2>10. sent[s].of <= Answered /\ Answered = event_num
    BY DEF WatchInv, Ordered, WindowEnds, Answered
  <2>11. QED  BY <2>9, <2>10
<1>9. Told'
  <2>1. /\ Len(rows) \in Nat /\ Len(rows') = Len(rows) + 1 /\ rows'[Len(rows) + 1] = line
        /\ \A i \in 1 .. Len(rows) : rows'[i] = rows[i]
    BY <1>1, <1>3, <1>5
  <2>2. Told
    BY DEF WatchInv
  <2>3. ASSUME NEW i \in 1 .. Len(rows'), NEW k \in 1 .. Len(rows'[i].effects)
        PROVE  /\ rows'[i].effects[k].of <= rows'[i].num
               /\ filter = [on |-> "effect", tag |-> rows'[i].effects[k].tag] => rows'[i].shown
    <3>1. CASE i = Len(rows) + 1
      <4>1. rows'[i] = line /\ k \in 1 .. Len(effects)
        BY <1>2, <2>1, <3>1
      <4>2. QED  BY <1>2, <1>4, <1>8, <4>1
    <3>2. CASE i # Len(rows) + 1
      <4>1. i \in 1 .. Len(rows) /\ rows'[i] = rows[i]
        BY <2>1, <3>2
      <4>2. QED  BY <2>2, <4>1 DEF Told
    <3>3. QED  BY <3>1, <3>2
  <2>4. QED  BY <1>5, <2>3 DEF Told
<1>10. QED  BY <1>6, <1>7, <1>9

\* The receiver takes the oldest effect.
LEMMA DrainKeeps ==
  ASSUME WatchInv, DrainOne
  PROVE  effects' \in Seq(Emissions) /\ effect_rx' \in Seq(Emissions) /\ Conserved'
<1> DEFINE h == Head(effect_rx)
<1>1. /\ rows \in Seq(Lines) /\ effects \in Seq(Emissions) /\ effect_rx \in Seq(Emissions)
      /\ effect_rx # << >>
      /\ effects' = Added(effects, h) /\ effect_rx' = Tail(effect_rx)
      /\ rows' = rows /\ sent' = sent /\ lagged' = lagged
  BY DEF WatchInv, WatchTyped, DrainOne, Added
<1>2. h \in Emissions /\ Tail(effect_rx) \in Seq(Emissions)
  BY <1>1
<1>3. Added(effects, h) \in Seq(Emissions)
  BY <1>1, <1>2 DEF Added
<1>4. PICK p : p = Printed(rows) /\ p \in Seq(Emissions)
  <2>1. \E line \in Lines : TRUE
    <3>1. [kind |-> "error", num |-> 0, effects |-> << >>, shown |-> TRUE] \in Lines
      BY WatchAssumption DEF Lines
    <3>2. QED  BY <3>1
  <2>2. QED  BY <1>1, <2>1, PrintedMore
<1> HIDE DEF h
<1>5. PICK d : d = Joined(p, effects) /\ d \in Seq(Emissions)
  BY <1>1, <1>4, JoinedParts DEF IsJoined
<1>6. Joined(p, Added(effects, h)) = Added(d, h)
  BY <1>1, <1>2, <1>4, <1>5, AddedLast
<1>7. Joined(Added(d, h), Tail(effect_rx)) = Joined(d, effect_rx)
  BY <1>1, <1>5, HeadMoved DEF h
<1>8. QED
  BY <1>1, <1>2, <1>3, <1>4, <1>5, <1>6, <1>7 DEF WatchInv, Conserved

\* A broadcast, with room in the channel or without.
LEMMA BroadcastKeeps ==
  ASSUME WatchInv, NEW n \in 1 .. MaxCommands, Broadcast(n)
  PROVE  /\ sent' \in Seq(Emissions) /\ effect_rx' \in Seq(Emissions)
         /\ lagged' \subseteq Range(sent') /\ Conserved'
<1> DEFINE x == Head(tasks[n])
<1>1. /\ rows \in Seq(Lines) /\ effects \in Seq(Emissions) /\ effect_rx \in Seq(Emissions)
      /\ sent \in Seq(Emissions) /\ tasks[n] \in Seq(Emissions) /\ tasks[n] # << >>
      /\ lagged \subseteq Range(sent) /\ Differ(sent)
      /\ sent' = Added(sent, x) /\ rows' = rows /\ effects' = effects
  BY DEF WatchInv, WatchTyped, Ordered, Broadcast, Added
<1>2. x \in Emissions /\ x = tasks[n][1] /\ 1 \in 1 .. Len(tasks[n])
  BY <1>1
<1>3. x \notin Range(sent)
  <2>1. ASSUME NEW s \in 1 .. Len(sent), sent[s] = x PROVE FALSE
    <3>1. x.of = n
      BY <1>2 DEF WatchInv, Ordered
    <3>2. sent[s].place < tasks[n][1].place
      BY <1>2, <2>1, <3>1 DEF WatchInv, Ordered
    <3>3. x.place \in Int
      BY <1>2, WatchAssumption DEF Emissions
    <3>4. QED  BY <1>2, <2>1, <3>2, <3>3
  <2>2. DOMAIN sent = 1 .. Len(sent)
    BY <1>1
  <2> HIDE DEF x
  <2>3. QED  BY <2>1, <2>2, Zenon DEF Range
<1>4. PICK p : p = Printed(rows) /\ p \in Seq(Emissions)
  <2>1. \E line \in Lines : TRUE
    <3>1. [kind |-> "error", num |-> 0, effects |-> << >>, shown |-> TRUE] \in Lines
      BY WatchAssumption DEF Lines
    <3>2. QED  BY <3>1
  <2>2. QED  BY <1>1, <2>1, PrintedMore
<1>5. PICK d : d = Joined(p, effects) /\ d \in Seq(Emissions)
  BY <1>1, <1>4, JoinedParts DEF IsJoined
<1>6. Joined(d, effect_rx) = Only(sent, Range(sent) \ lagged)
  BY <1>4, <1>5 DEF WatchInv, Conserved
<1>7. sent' \in Seq(Emissions) /\ Range(sent) \subseteq Range(sent')
  <2> HIDE DEF x
  <2>1. /\ Added(sent, x) \in Seq(Emissions) /\ Len(Added(sent, x)) = Len(sent) + 1 /\ Len(sent) \in Nat
        /\ \A i \in 1 .. Len(sent) : Added(sent, x)[i] = sent[i]
    BY <1>1, <1>2 DEF Added
  <2>2. DOMAIN sent = 1 .. Len(sent) /\ DOMAIN Added(sent, x) = 1 .. (Len(sent) + 1)
    BY <1>1, <2>1
  <2>3. QED  BY <1>1, <2>1, <2>2 DEF Range
<1>8. CASE Len(effect_rx) < ChannelCap
  <2>1. effect_rx' = Added(effect_rx, x) /\ lagged' = lagged
    BY <1>8 DEF Broadcast, Added
  <2> HIDE DEF x
  <2>2. Added(effect_rx, x) \in Seq(Emissions)
    BY <1>1, <1>2 DEF Added
  <2>3. Joined(d, Added(effect_rx, x)) = Added(Joined(d, effect_rx), x)
    BY <1>1, <1>2, <1>5, AddedLast
  <2>4. Only(Added(sent, x), Range(Added(sent, x)) \ lagged) = Added(Only(sent, Range(sent) \ lagged), x)
    <3>1. sent \in Seq(Emissions) /\ x \in Emissions /\ x \notin Range(sent) /\ lagged \subseteq Range(sent)
      BY <1>1, <1>2, <1>3
    <3>2. QED  BY ONLY <3>1, SentMore
  <2>5. Conserved'
    BY <1>1, <1>4, <1>5, <1>6, <2>1, <2>3, <2>4 DEF Conserved
  <2>6. QED  BY <1>1, <1>7, <2>1, <2>2, <2>5
<1>9. CASE ~(Len(effect_rx) < ChannelCap)
  <2> DEFINE h == Head(effect_rx)
             K == Range(sent) \ lagged
  <2>1. effect_rx' = Added(Tail(effect_rx), x) /\ lagged' = lagged \cup {h} /\ effect_rx # << >>
    BY <1>1, <1>9, WatchAssumption DEF Broadcast, Added
  <2> HIDE DEF x
  <2>2. Tail(effect_rx) \in Seq(Emissions) /\ h = effect_rx[1] /\ 1 \in 1 .. Len(effect_rx)
    BY <1>1, <2>1
  <2>3. Added(Tail(effect_rx), x) \in Seq(Emissions)
    BY <1>2, <2>2 DEF Added
  <2>4. h \in K
    <3> HIDE DEF K, h
    <3>1. Joined(d, effect_rx) \in Seq(K)
      BY <1>1, <1>6, OnlyType DEF K
    <3>2. effect_rx \in Seq(K)
      BY <1>1, <1>5, <3>1, PartsIn
    <3>3. QED  BY <2>2, <3>2
  <2> HIDE DEF h
  <2>5. lagged \cup {h} \subseteq Range(sent) /\ K \ {h} = Range(sent) \ (lagged \cup {h})
    BY <1>1, <2>4
  <2>6. Joined(d, Tail(effect_rx)) = Only(sent, K \ {h})
    <3> HIDE DEF K
    <3>1. Joined(d, effect_rx) = Only(sent, K)
      BY <1>6 DEF K
    <3>2. QED  BY <1>1, <1>5, <2>1, <3>1, HeadLost DEF h
  <2>7. Joined(d, Added(Tail(effect_rx), x)) = Added(Joined(d, Tail(effect_rx)), x)
    <3>1. PICK t : t = Tail(effect_rx)
      OBVIOUS
    <3>2. t \in Seq(Emissions) /\ x \in Emissions
      BY <1>2, <2>2, <3>1
    <3>3. Joined(d, Added(t, x)) = Added(Joined(d, t), x)
      BY <1>5, <3>2, AddedLast
    <3>4. QED  BY <3>1, <3>3
  <2>8. Only(Added(sent, x), Range(Added(sent, x)) \ (lagged \cup {h}))
          = Added(Only(sent, Range(sent) \ (lagged \cup {h})), x)
    <3>1. PICK l : l = lagged \cup {h}
      OBVIOUS
    <3>2. l \subseteq Range(sent) /\ x \in Emissions /\ sent \in Seq(Emissions)
      BY <1>1, <1>2, <2>5, <3>1
    <3>3. Only(Added(sent, x), Range(Added(sent, x)) \ l) = Added(Only(sent, Range(sent) \ l), x)
      BY <1>3, <3>2, SentMore
    <3>4. QED  BY <3>1, <3>3
  <2>9. Conserved'
    BY <1>1, <1>4, <1>5, <2>1, <2>5, <2>6, <2>7, <2>8 DEF Conserved
  <2>10. QED  BY <1>1, <1>7, <2>1, <2>3, <2>5, <2>9
<1>10. QED  BY <1>8, <1>9

\* The order of what is sent and of what is to be sent.
LEMMA OrderedNext ==
  ASSUME WatchInv, WatchNext
  PROVE  Ordered'
<1>1. /\ repl \in {"reading", "poking", "draining", "peeking", "ended"}
      /\ event_num \in 0 .. MaxCommands
      /\ repl = "poking" => event_num >= 1
      /\ tasks \in [1 .. MaxCommands -> Seq(Emissions)] /\ sent \in Seq(Emissions)
  BY DEF WatchInv, WatchTyped
<1>2. Answered \in Int /\ \A s \in 1 .. Len(sent) : sent[s] \in Emissions
  <2>1. event_num \in Int
    BY <1>1, WatchAssumption
  <2>2. Answered \in Int
    BY <2>1 DEF Answered
  <2>3. QED  BY <1>1, <2>2
<1>3. \A e \in Emissions : e.of \in Int /\ e.place \in Int
  BY WatchAssumption DEF Emissions
<1>4. Ordered
  BY DEF WatchInv
<1>5. ASSUME UNCHANGED <<sent, tasks>>, Answered <= Answered', Answered' \in Int
      PROVE  Ordered'
  <2>1. /\ \A s \in 1 .. Len(sent) : sent[s].of \in Int
        /\ \A n \in 1 .. MaxCommands : n \in Int
    BY <1>2, <1>3, WatchAssumption
  <2>2. \A s \in 1 .. Len(sent) : sent[s].of <= Answered'
    BY <1>2, <1>4, <1>5, <2>1 DEF Ordered
  <2>3. \A n \in 1 .. MaxCommands : tasks[n] # << >> => n <= Answered'
    BY <1>2, <1>4, <1>5, <2>1 DEF Ordered
  <2>4. QED  BY <1>4, <1>5, <2>2, <2>3 DEF Ordered
<1>6. CASE \/ ReadGarbage \/ Quit \/ NoticeDeath \/ DrainOne \/ WindowEnds \/ PokeErrs
           \/ PeekAnswered \/ KernelDies
           \/ \E tag \in Causes :
                ReadFiltered(tag) \/ ReadPoke(tag) \/ ReadPeek(tag) \/ ReadUndecodable(tag)
  <2>1. UNCHANGED <<sent, tasks>>
    BY <1>6 DEF ReadGarbage, Quit, NoticeDeath, DrainOne, WindowEnds, PokeErrs, PeekAnswered,
       KernelDies, ReadFiltered, ReadPoke, ReadPeek, ReadUndecodable, channelVars, kernelVars
  <2>2. \/ event_num' = event_num /\ (repl' = repl \/ repl' # "poking")
        \/ event_num' = event_num + 1 /\ repl # "poking"
    BY <1>6 DEF ReadGarbage, Quit, NoticeDeath, DrainOne, WindowEnds, PokeErrs, PeekAnswered,
       KernelDies, ReadFiltered, ReadPoke, ReadPeek, ReadUndecodable, Numbered, AwaitsLine
  <2>3. Answered <= Answered' /\ Answered' \in Int
    <3>1. event_num \in Int
      BY <1>1, WatchAssumption
    <3>2. QED  BY <2>2, <3>1 DEF Answered
  <2>4. QED  BY <1>5, <2>1, <2>3
<1>7. ASSUME NEW list \in EffectLists, KernelRunsPoke(list)
      PROVE  Ordered'
  <2> DEFINE new == [i \in DOMAIN list |-> [of |-> event_num, place |-> i, tag |-> list[i]]]
  <2>1. PICK k \in 0 .. MaxEffects : list \in [1 .. k -> EffectTags]
    BY DEF EffectLists
  <2>2. /\ event_num \in 1 .. MaxCommands /\ Answered = event_num - 1 /\ Answered' = event_num
        /\ sent' = sent
        /\ tasks' = [tasks EXCEPT ![event_num] = new]
    <3>1. repl = "poking" /\ repl' = "draining" /\ event_num' = event_num /\ sent' = sent
      BY <1>7 DEF KernelRunsPoke, channelVars
    <3>2. tasks' = [tasks EXCEPT ![event_num] = new]
      BY <1>7 DEF KernelRunsPoke
    <3> HIDE DEF new
    <3>3. event_num \in 1 .. MaxCommands
      BY <1>1, <3>1, WatchAssumption
    <3>4. QED  BY <3>1, <3>2, <3>3 DEF Answered
  <2>3. Len(new) = k /\ \A i \in 1 .. k : new[i].of = event_num /\ new[i].place = i
    BY <2>1, WatchAssumption
  <2> HIDE DEF new
  <2>4. \A s \in 1 .. Len(sent) : sent[s].of # event_num /\ sent[s].of <= Answered'
    BY <1>2, <1>3, <1>4, <2>2 DEF Ordered
  <2>5. \A n \in 1 .. MaxCommands :
          /\ n # event_num => tasks'[n] = tasks[n]
          /\ n = event_num => tasks'[n] = new
    BY <1>1, <2>2
  <2>6. ASSUME NEW n \in 1 .. MaxCommands
        PROVE  /\ tasks'[n] # << >> => n <= Answered'
               /\ \A i \in 1 .. Len(tasks'[n]) : tasks'[n][i].of = n
               /\ \A i, j \in 1 .. Len(tasks'[n]) : i < j => tasks'[n][i].place < tasks'[n][j].place
               /\ \A s \in 1 .. Len(sent), i \in 1 .. Len(tasks'[n]) :
                    sent[s].of = n => sent[s].place < tasks'[n][i].place
    <3>1. CASE n = event_num
      BY <2>2, <2>3, <2>4, <2>5, <3>1
    <3>2. CASE n # event_num
      <4>1. tasks'[n] = tasks[n] /\ Answered <= Answered' /\ n \in Int /\ Answered' \in Int
        BY <1>1, <2>2, <2>5, <3>2, WatchAssumption
      <4>2. QED  BY <1>2, <1>4, <4>1 DEF Ordered
    <3>3. QED  BY <3>1, <3>2
  <2>7. QED  BY <1>4, <2>2, <2>4, <2>6 DEF Ordered
<1>8. ASSUME NEW n \in 1 .. MaxCommands, Broadcast(n)
      PROVE  Ordered'
  <2> DEFINE x == Head(tasks[n])
             t == Tail(tasks[n])
             m == Len(sent)
  <2>1. /\ tasks[n] # << >> /\ sent' = Append(sent, x) /\ tasks' = [tasks EXCEPT ![n] = t]
        /\ Answered' = Answered /\ tasks[n] \in Seq(Emissions)
    BY <1>1, <1>8 DEF Broadcast, Answered
  <2>2. /\ x = tasks[n][1] /\ x \in Emissions /\ Len(tasks[n]) \in Nat /\ Len(tasks[n]) >= 1
        /\ t \in Seq(Emissions) /\ Len(t) = Len(tasks[n]) - 1
        /\ \A i \in 1 .. Len(t) : t[i] = tasks[n][i + 1]
    BY <2>1
  <2> HIDE DEF t, x
  <2>3. /\ m \in Nat /\ Len(sent') = m + 1 /\ sent'[m + 1] = x
        /\ \A s \in 1 .. m : sent'[s] = sent[s]
    BY <1>1, <2>1, <2>2
  <2> HIDE DEF m
  <2>4. x.of = n /\ n <= Answered /\ x.place \in Int
    BY <1>3, <1>4, <2>1, <2>2 DEF Ordered
  <2>5. \A s \in 1 .. m : sent[s] # x
    <3>1. SUFFICES ASSUME NEW s \in 1 .. m, sent[s] = x PROVE FALSE
      OBVIOUS
    <3>2. sent[s].place < tasks[n][1].place
      BY <1>4, <2>2, <2>4, <3>1 DEF Ordered, m
    <3>3. QED  BY <2>2, <2>4, <3>1, <3>2
  <2>6. Differ(sent')
    BY <1>4, <2>3, <2>5 DEF Ordered, Differ, m
  <2>7. \A s \in 1 .. Len(sent') : sent'[s].of <= Answered'
    BY <1>4, <2>1, <2>3, <2>4 DEF Ordered, m
  <2>8. \A k \in 1 .. MaxCommands : tasks'[k] = IF k = n THEN t ELSE tasks[k]
    BY <1>1, <2>1
  <2>9. /\ \A i \in 1 .. Len(t) : t[i].of = n /\ x.place < t[i].place
        /\ \A i, j \in 1 .. Len(t) : i < j => t[i].place < t[j].place
    <3>1. \A i \in 1 .. Len(t) : i + 1 \in 1 .. Len(tasks[n]) /\ 1 < i + 1
      BY <2>2
    <3>2. 1 \in 1 .. Len(tasks[n])
      BY <2>2
    <3>3. \A i \in 1 .. Len(t) : t[i].of = n
      BY <1>4, <2>2, <3>1 DEF Ordered
    <3>4. \A i \in 1 .. Len(t) : x.place < t[i].place
      BY <1>4, <2>2, <3>1, <3>2 DEF Ordered
    <3>5. ASSUME NEW i \in 1 .. Len(t), NEW j \in 1 .. Len(t), i < j
          PROVE  t[i].place < t[j].place
      <4>1. i + 1 < j + 1
        BY <2>2, <3>5
      <4>2. tasks[n][i + 1].place < tasks[n][j + 1].place
        BY <1>4, <3>1, <4>1 DEF Ordered
      <4>3. QED  BY <2>2, <4>2
    <3>6. QED  BY <3>3, <3>4, <3>5
  <2>10. ASSUME NEW k \in 1 .. MaxCommands
         PROVE  /\ tasks'[k] # << >> => k <= Answered'
                /\ \A i \in 1 .. Len(tasks'[k]) : tasks'[k][i].of = k
                /\ \A i, j \in 1 .. Len(tasks'[k]) : i < j => tasks'[k][i].place < tasks'[k][j].place
                /\ \A s \in 1 .. Len(sent'), i \in 1 .. Len(tasks'[k]) :
                     sent'[s].of = k => sent'[s].place < tasks'[k][i].place
    <3>1. CASE k = n
      <4>1. tasks'[k] = t
        BY <2>8, <3>1
      <4>2. ASSUME NEW s \in 1 .. m, NEW i \in 1 .. Len(t), sent[s].of = n
            PROVE  sent[s].place < t[i].place
        <5>1. i + 1 \in 1 .. Len(tasks[n])
          BY <2>2
        <5>2. sent[s].place < tasks[n][i + 1].place
          BY <1>4, <4>2, <5>1 DEF Ordered, m
        <5>3. QED  BY <2>2, <5>2
      <4>3. \A s \in 1 .. Len(sent'), i \in 1 .. Len(t) :
              sent'[s].of = n => sent'[s].place < t[i].place
        BY <2>3, <2>9, <4>2
      <4>4. QED  BY <2>1, <2>4, <2>9, <3>1, <4>1, <4>3
    <3>2. CASE k # n
      <4>1. tasks'[k] = tasks[k]
        BY <2>8, <3>2
      <4>2. \A s \in 1 .. Len(sent'), i \in 1 .. Len(tasks[k]) :
              sent'[s].of = k => sent'[s].place < tasks[k][i].place
        BY <1>4, <2>3, <2>4, <3>2 DEF Ordered, m
      <4>3. QED  BY <1>4, <2>1, <4>1, <4>2 DEF Ordered
    <3>3. QED  BY <3>1, <3>2
  <2>11. QED  BY <2>6, <2>7, <2>10 DEF Ordered
<1>9. QED
  BY <1>6, <1>7, <1>8 DEF WatchNext

\* One step keeps the invariant.
LEMMA WatchInvNext == WatchInv /\ [WatchNext]_watchVars => WatchInv'
<1> SUFFICES ASSUME WatchInv, [WatchNext]_watchVars PROVE WatchInv'
  OBVIOUS
<1>1. /\ repl \in {"reading", "poking", "draining", "peeking", "ended"}
      /\ event_num \in 0 .. MaxCommands
      /\ repl = "poking" => event_num >= 1
      /\ tasks \in [1 .. MaxCommands -> Seq(Emissions)]
      /\ sent \in Seq(Emissions) /\ effects \in Seq(Emissions) /\ effect_rx \in Seq(Emissions)
      /\ rows \in Seq(Lines)
      /\ lagged \subseteq Range(sent)
      /\ MaxCommands \in Nat
  BY WatchAssumption DEF WatchInv, WatchTyped
<1>2. ASSUME UNCHANGED <<filter, effects, effect_rx, sent, lagged, rows>>
      PROVE  Conserved' /\ Told'
  BY <1>2 DEF WatchInv, Conserved, Told
<1>3. CASE \/ ReadGarbage \/ NoticeDeath \/ PeekAnswered
  <2>1. PICK kind \in {"error", "peek", "kernel-died"}, num \in 0 .. MaxCommands :
          Write(kind, num, << >>)
    <3>1. CASE ReadGarbage
      <4>1. event_num' \in 0 .. MaxCommands /\ Write("error", event_num', << >>)
        BY <1>1, <3>1 DEF ReadGarbage, Numbered
      <4>2. QED  BY <4>1
    <3>2. CASE NoticeDeath
      BY <1>1, <3>2 DEF NoticeDeath
    <3>3. CASE PeekAnswered
      BY <1>1, <3>3 DEF PeekAnswered
    <3>4. QED  BY <1>3, <3>1, <3>2, <3>3
  <2>2. UNCHANGED <<filter, effects, effect_rx, sent, lagged, tasks>>
    BY <1>3 DEF ReadGarbage, NoticeDeath, PeekAnswered, kernelVars, channelVars
  <2>3. rows' \in Seq(Lines) /\ Conserved' /\ Told'
    BY <2>1, <2>2, EmptyRow
  <2>4. event_num' \in 0 .. MaxCommands /\ repl' \in {"reading", "ended"}
    BY <1>1, <1>3 DEF ReadGarbage, NoticeDeath, PeekAnswered, Numbered, AwaitsLine
  <2>5. WatchTyped'
    BY <1>1, <2>2, <2>3, <2>4 DEF WatchTyped
  <2>6. Ordered'
    BY <1>3, OrderedNext DEF WatchNext
  <2>7. QED  BY <2>3, <2>5, <2>6 DEF WatchInv
<1>4. CASE \/ Quit \/ PokeErrs \/ KernelDies
           \/ \E tag \in Causes :
                ReadFiltered(tag) \/ ReadPoke(tag) \/ ReadPeek(tag) \/ ReadUndecodable(tag)
  <2>1. UNCHANGED <<filter, effects, effect_rx, sent, lagged, rows, tasks>>
    BY <1>4 DEF Quit, PokeErrs, KernelDies, ReadFiltered, ReadPoke, ReadPeek, ReadUndecodable,
       kernelVars, channelVars
  <2>2. /\ event_num' \in 0 .. MaxCommands
        /\ repl' \in {"reading", "poking", "draining", "peeking", "ended"}
        /\ repl' = "poking" => event_num' >= 1
    BY <1>1, <1>4 DEF Quit, PokeErrs, KernelDies, ReadFiltered, ReadPoke, ReadPeek, ReadUndecodable,
       Numbered, AwaitsLine
  <2>3. WatchTyped'
    BY <1>1, <2>1, <2>2 DEF WatchTyped
  <2>4. Ordered'
    BY <1>4, OrderedNext DEF WatchNext
  <2>5. QED  BY <1>2, <2>1, <2>3, <2>4 DEF WatchInv
<1>5. CASE DrainOne
  <2>1. effects' \in Seq(Emissions) /\ effect_rx' \in Seq(Emissions) /\ Conserved'
    BY <1>5, DrainKeeps
  <2>2. UNCHANGED <<repl, event_num, filter, rows, sent, lagged, tasks>>
    BY <1>5 DEF DrainOne, kernelVars
  <2>3. WatchTyped' /\ Told'
    BY <1>1, <2>1, <2>2 DEF WatchTyped, WatchInv, Told
  <2>4. QED  BY <1>5, <2>1, <2>3, OrderedNext DEF WatchInv, WatchNext
<1>6. CASE WindowEnds
  <2>1. rows' \in Seq(Lines) /\ Conserved' /\ Told'
    BY <1>6, WindowRow
  <2>2. /\ repl' = "reading" /\ effects' = << >>
        /\ UNCHANGED <<event_num, effect_rx, sent, lagged, tasks>>
    BY <1>6 DEF WindowEnds, kernelVars, channelVars
  <2>3. WatchTyped'
    BY <1>1, <2>1, <2>2 DEF WatchTyped
  <2>4. QED  BY <1>6, <2>1, <2>3, OrderedNext DEF WatchInv, WatchNext
<1>7. ASSUME NEW list \in EffectLists, KernelRunsPoke(list)
      PROVE  WatchInv'
  <2> DEFINE new == [i \in DOMAIN list |-> [of |-> event_num, place |-> i, tag |-> list[i]]]
  <2>1. PICK k \in 0 .. MaxEffects : list \in [1 .. k -> EffectTags]
    BY DEF EffectLists
  <2>2. repl = "poking" /\ repl' = "draining" /\ tasks' = [tasks EXCEPT ![event_num] = new]
        /\ UNCHANGED <<event_num, filter, effects, effect_rx, sent, lagged, rows>>
    BY <1>7 DEF KernelRunsPoke, channelVars
  <2>3. event_num \in 1 .. MaxCommands
    BY <1>1, <2>2
  <2>4. new \in Seq(Emissions)
    <3>1. DOMAIN list = 1 .. k /\ k \in Nat /\ k <= MaxEffects
      BY <2>1, WatchAssumption
    <3>2. \A i \in 1 .. k : [of |-> event_num, place |-> i, tag |-> list[i]] \in Emissions
      BY <2>1, <2>3, <3>1, WatchAssumption DEF Emissions
    <3>3. QED  BY <3>1, <3>2
  <2> HIDE DEF new
  <2>5. tasks' \in [1 .. MaxCommands -> Seq(Emissions)]
    BY <1>1, <2>2, <2>4
  <2>6. WatchTyped'
    BY <1>1, <2>2, <2>5 DEF WatchTyped
  <2>7. QED  BY <1>2, <1>7, <2>2, <2>6, OrderedNext DEF WatchInv, WatchNext
<1>8. ASSUME NEW n \in 1 .. MaxCommands, Broadcast(n)
      PROVE  WatchInv'
  <2>1. /\ sent' \in Seq(Emissions) /\ effect_rx' \in Seq(Emissions)
        /\ lagged' \subseteq Range(sent') /\ Conserved'
    BY <1>8, BroadcastKeeps
  <2>2. /\ tasks[n] # << >> /\ tasks' = [tasks EXCEPT ![n] = Tail(@)]
        /\ UNCHANGED <<repl, event_num, filter, effects, rows>>
    BY <1>8 DEF Broadcast
  <2>3. tasks' \in [1 .. MaxCommands -> Seq(Emissions)]
    <3>1. tasks[n] \in Seq(Emissions) /\ Tail(tasks[n]) \in Seq(Emissions)
      BY <1>1, <2>2
    <3>2. QED  BY <1>1, <2>2, <3>1
  <2>4. WatchTyped' /\ Told'
    BY <1>1, <2>1, <2>2, <2>3 DEF WatchTyped, WatchInv, Told
  <2>5. QED  BY <1>8, <2>1, <2>4, OrderedNext DEF WatchInv, WatchNext
<1>9. CASE UNCHANGED watchVars
  BY <1>9 DEF watchVars, WatchInv, WatchTyped, Ordered, Answered, Conserved, Told
<1>10. QED
  BY <1>3, <1>4, <1>5, <1>6, <1>7, <1>8, <1>9 DEF WatchNext

\* Every effect is in one row's drain, in the order of the broadcast, or waits in the
\* channel, or was told as lagged; and an effect filter holds back no row that has what
\* it asks for. For every number of commands and of effects, and every channel.
THEOREM EffectsConservedCorrect == WatchSpec => []EffectsConserved
<1>1. WatchInv => EffectsConserved
  <2> SUFFICES ASSUME WatchInv PROVE EffectsConserved
    OBVIOUS
  <2>1. FlattenSeq([i \in DOMAIN rows |-> rows[i].effects]) \o effects \o effect_rx
          = Only(sent, Range(sent) \ lagged)
    BY Zenon DEF WatchInv, Conserved, Joined, Printed
  <2>2. /\ DOMAIN rows = 1 .. Len(rows)
        /\ \A i \in 1 .. Len(rows) : DOMAIN rows[i].effects = 1 .. Len(rows[i].effects)
    <3>1. rows \in Seq(Lines)
      BY DEF WatchInv, WatchTyped
    <3>2. \A l \in Lines : DOMAIN l.effects = 1 .. Len(l.effects)
      BY DEF Lines
    <3>3. QED  BY <3>1, <3>2
  <2>3. \A i \in DOMAIN rows : \A k \in DOMAIN rows[i].effects :
          /\ rows[i].effects[k].of <= rows[i].num
          /\ filter = [on |-> "effect", tag |-> rows[i].effects[k].tag] => rows[i].shown
    BY <2>2, Zenon DEF WatchInv, Told
  <2>4. QED  BY <2>1, <2>3, Zenon DEF EffectsConserved
<1>2. QED
  BY <1>1, WatchInvInit, WatchInvNext, PTL DEF WatchSpec

-----------------------------------------------------------------------------
(* GraftInject *)

\* What the file can hold.
Variants == Grafts \cup {"domain-effect", "effect-placeholder"}
Files == [sections : [BlockMarkers -> Seq(BlockType)], union : Seq(Variants), overlay : Seq(Grafts),
          present : SUBSET Markers, own : SUBSET Libs]

\* The blocks of the grafts in names, and the others.
OfGrafts(names) == {b \in BlockType : b.graft \in names}
Others(names) == {b \in BlockType : b.graft \notin names}

\* Both are filters by sets that do not depend on the list.
LEMMA BlocksAre ==
  ASSUME NEW blocks \in Seq(BlockType), NEW names
  PROVE  /\ BlocksOf(blocks, names) = Only(blocks, OfGrafts(names))
         /\ Without(blocks, names) = Only(blocks, Others(names))
<1>1. \A i \in 1 .. Len(blocks) : blocks[i] \in BlockType /\ blocks[i] \in Range(blocks)
  BY DEF Range
<1>2. \A i \in 1 .. Len(blocks) :
        blocks[i] \in {b \in Range(blocks) : b.graft \in names} <=> blocks[i] \in OfGrafts(names)
  BY <1>1 DEF OfGrafts
<1>3. \A i \in 1 .. Len(blocks) :
        blocks[i] \in {b \in Range(blocks) : b.graft \notin names} <=> blocks[i] \in Others(names)
  BY <1>1 DEF Others
<1>4. Only(blocks, {b \in Range(blocks) : b.graft \in names}) = Only(blocks, OfGrafts(names))
  <2>1. PICK S : S = {b \in Range(blocks) : b.graft \in names}
    OBVIOUS
  <2>2. \A i \in 1 .. Len(blocks) : blocks[i] \in S <=> blocks[i] \in OfGrafts(names)
    BY <1>2, <2>1
  <2>3. Only(blocks, S) = Only(blocks, OfGrafts(names))
    BY <2>2, OnlySame
  <2>4. QED  BY <2>1, <2>3
<1>5. Only(blocks, {b \in Range(blocks) : b.graft \notin names}) = Only(blocks, Others(names))
  <2>1. PICK S : S = {b \in Range(blocks) : b.graft \notin names}
    OBVIOUS
  <2>2. \A i \in 1 .. Len(blocks) : blocks[i] \in S <=> blocks[i] \in Others(names)
    BY <1>3, <2>1
  <2>3. Only(blocks, S) = Only(blocks, Others(names))
    BY <2>2, OnlySame
  <2>4. QED  BY <2>1, <2>3
<1>6. QED
  BY <1>4, <1>5 DEF BlocksOf, Without

\* Those that each leaves are lists of such blocks.
LEMMA BlocksTyped ==
  ASSUME NEW blocks \in Seq(BlockType), NEW names
  PROVE  /\ BlocksOf(blocks, names) \in Seq(BlockType) /\ BlocksOf(blocks, names) \in Seq(OfGrafts(names))
         /\ Without(blocks, names) \in Seq(BlockType) /\ Without(blocks, names) \in Seq(Others(names))
BY BlocksAre, OnlyType

\* Of a list with nothing of the grafts in names.
LEMMA BlocksNone ==
  ASSUME NEW blocks \in Seq(BlockType), NEW names,
         \A i \in 1 .. Len(blocks) : blocks[i].graft \notin names
  PROVE  BlocksOf(blocks, names) = << >> /\ Without(blocks, names) = blocks
<1>1. \A i \in 1 .. Len(blocks) : blocks[i] \in Others(names) /\ blocks[i] \notin OfGrafts(names)
  BY DEF Others, OfGrafts
<1>2. Only(blocks, Others(names)) = blocks
  BY <1>1, OnlyAll
<1>3. Only(blocks, OfGrafts(names)) = << >>
  BY <1>1, OnlyNone
<1>4. QED  BY <1>2, <1>3, BlocksAre

\* Of a list with nothing but blocks of the grafts in names.
LEMMA BlocksEvery ==
  ASSUME NEW blocks \in Seq(BlockType), NEW names,
         \A i \in 1 .. Len(blocks) : blocks[i].graft \in names
  PROVE  BlocksOf(blocks, names) = blocks /\ Without(blocks, names) = << >>
<1>1. \A i \in 1 .. Len(blocks) : blocks[i] \in OfGrafts(names) /\ blocks[i] \notin Others(names)
  BY DEF Others, OfGrafts
<1>2. Only(blocks, OfGrafts(names)) = blocks
  BY <1>1, OnlyAll
<1>3. Only(blocks, Others(names)) = << >>
  BY <1>1, OnlyNone
<1>4. QED  BY <1>2, <1>3, BlocksAre

\* Blocks are taken from two lists that are joined as from each of them.
LEMMA BlocksJoined ==
  ASSUME NEW a \in Seq(BlockType), NEW b \in Seq(BlockType), NEW names
  PROVE  /\ Joined(a, b) \in Seq(BlockType)
         /\ BlocksOf(Joined(a, b), names) = Joined(BlocksOf(a, names), BlocksOf(b, names))
         /\ Without(Joined(a, b), names) = Joined(Without(a, names), Without(b, names))
<1>1. a \o b \in Seq(BlockType)
  OBVIOUS
<1>2. /\ Only(a \o b, OfGrafts(names)) = Only(a, OfGrafts(names)) \o Only(b, OfGrafts(names))
      /\ Only(a \o b, Others(names)) = Only(a, Others(names)) \o Only(b, Others(names))
  <2>1. PICK S, R : S = OfGrafts(names) /\ R = Others(names)
    OBVIOUS
  <2>2. Only(Joined(a, b), S) = Joined(Only(a, S), Only(b, S))
    BY OnlyConcat
  <2>3. Only(Joined(a, b), R) = Joined(Only(a, R), Only(b, R))
    BY OnlyConcat
  <2>4. QED  BY <2>1, <2>2, <2>3 DEF Joined
<1>3. BlocksOf(a \o b, names) = Only(a \o b, OfGrafts(names))
      /\ Without(a \o b, names) = Only(a \o b, Others(names))
  <2>1. PICK l : l = a \o b
    OBVIOUS
  <2>2. BlocksOf(l, names) = Only(l, OfGrafts(names)) /\ Without(l, names) = Only(l, Others(names))
    BY <1>1, <2>1, BlocksAre
  <2>3. QED  BY <2>1, <2>2
<1>4. /\ BlocksOf(a, names) = Only(a, OfGrafts(names)) /\ Without(a, names) = Only(a, Others(names))
      /\ BlocksOf(b, names) = Only(b, OfGrafts(names)) /\ Without(b, names) = Only(b, Others(names))
  BY BlocksAre
<1>5. QED
  BY <1>1, <1>2, <1>3, <1>4 DEF Joined

\* The grafts at a marker: those of the active ones that have a block there.
LEMMA GraftsAtAre ==
  ASSUME NEW m, NEW sel \in Seq(Grafts), NEW lib
  PROVE  /\ GraftsAt(m, sel, lib) \in Seq(Grafts)
         /\ \A i \in 1 .. Len(GraftsAt(m, sel, lib)) :
              /\ GraftsAt(m, sel, lib)[i] \in Range(sel)
              /\ m \in Contributes(GraftsAt(m, sel, lib)[i], lib[GraftsAt(m, sel, lib)[i]])
         /\ \A g \in Range(sel) :
              m \in Contributes(g, lib[g]) => g \in Range(GraftsAt(m, sel, lib))
<1> DEFINE S == {g \in Grafts : m \in Contributes(g, lib[g])}
           at == Only(sel, S)
           R == Range(sel)
<1>1. at = GraftsAt(m, sel, lib)
  BY DEF GraftsAt
<1>2. DOMAIN sel = 1 .. Len(sel) /\ R \subseteq Grafts /\ sel \in Seq(R)
  BY DEF Range
<1> HIDE DEF S, R
<1>3. at \in Seq(Grafts) /\ at \in Seq(S) /\ at \in Seq(R)
  BY <1>2, OnlyType
<1>4. ASSUME NEW g \in R, m \in Contributes(g, lib[g]) PROVE g \in Range(at)
  <2>1. PICK i \in 1 .. Len(sel) : sel[i] = g
    BY <1>2 DEF R, Range
  <2>2. sel[i] \in S
    BY <1>2, <1>4, <2>1 DEF S
  <2>3. PICK j \in 1 .. Len(at) : at[j] = sel[i]
    BY <2>1, <2>2, OnlyHas
  <2> HIDE DEF at
  <2>4. DOMAIN at = 1 .. Len(at)
    BY <1>3
  <2>5. QED  BY <2>1, <2>3, <2>4 DEF Range
<1> HIDE DEF at
<1>5. \A i \in 1 .. Len(at) : at[i] \in R /\ at[i] \in S
  BY <1>3
<1>6. \A i \in 1 .. Len(at) : at[i] \in Range(sel) /\ m \in Contributes(at[i], lib[at[i]])
  BY <1>5 DEF R, S
<1>7. QED
  BY <1>1, <1>3, <1>4, <1>6 DEF R

\* A block that is written anew: current, and with the libraries that nothing before
\* it imports.
IsEmitted(new, m, at, rest, own, lib) ==
  /\ new \in Seq(BlockType) /\ Len(new) = Len(at)
  /\ \A i \in 1 .. Len(at) :
       new[i].graft = at[i] /\ new[i].sha = lib[at[i]] /\ new[i].body = lib[at[i]]
  /\ \A i \in 1 .. Len(at) : m = "imports" =>
       new[i].libs = ImportsOf(at[i]) \ (own \cup LibsOf(rest)
                                         \cup UNION { ImportsOf(at[j]) : j \in 1..(i - 1) })

\* emit_imports_block and its like write such blocks.
LEMMA EmittedIs ==
  ASSUME NEW m, NEW at \in Seq(Grafts), NEW rest, NEW own, NEW lib \in [Grafts -> Versions]
  PROVE  IsEmitted(Emitted(m, at, rest, own, lib), m, at, rest, own, lib)
<1> DEFINE block(i) ==
             [graft |-> at[i], sha |-> lib[at[i]], body |-> lib[at[i]],
              libs |-> IF m = "imports"
                       THEN ImportsOf(at[i]) \ (own \cup LibsOf(rest)
                                                \cup UNION { ImportsOf(at[j]) : j \in 1..(i - 1) })
                       ELSE {}]
           new == Emitted(m, at, rest, own, lib)
<1>1. DOMAIN at = 1 .. Len(at) /\ Len(at) \in Nat /\ \A i \in 1 .. Len(at) : at[i] \in Grafts
  OBVIOUS
<1>2. new = [i \in 1 .. Len(at) |-> block(i)]
  BY <1>1, Zenon DEF Emitted
<1>3. ASSUME NEW i \in 1 .. Len(at) PROVE block(i) \in BlockType
  <2>1. at[i] \in Grafts /\ lib[at[i]] \in Versions
    BY <1>1
  <2>2. block(i).libs \in SUBSET Libs
    <3>1. ImportsOf(at[i]) \subseteq Libs
      BY <2>1, InjectAssumption DEF Grafts
    <3>2. QED  BY <3>1
  <2> DEFINE libs == IF m = "imports"
                     THEN ImportsOf(at[i]) \ (own \cup LibsOf(rest)
                                              \cup UNION { ImportsOf(at[j]) : j \in 1..(i - 1) })
                     ELSE {}
  <2>3. libs \in SUBSET Libs
    BY <2>2
  <2>4. block(i) = [graft |-> at[i], sha |-> lib[at[i]], body |-> lib[at[i]], libs |-> libs]
    OBVIOUS
  <2> HIDE DEF libs, block
  <2>5. QED  BY <2>1, <2>3, <2>4 DEF BlockType
<1>4. \A i \in 1 .. Len(at) :
        /\ block(i).graft = at[i] /\ block(i).sha = lib[at[i]] /\ block(i).body = lib[at[i]]
        /\ m = "imports" =>
             block(i).libs = ImportsOf(at[i]) \ (own \cup LibsOf(rest)
                                                 \cup UNION { ImportsOf(at[j]) : j \in 1..(i - 1) })
  OBVIOUS
<1> HIDE DEF block, new
<1>5. new \in Seq(BlockType) /\ Len(new) = Len(at) /\ \A i \in 1 .. Len(at) : new[i] = block(i)
  BY <1>1, <1>2, <1>3
<1>6. QED
  BY <1>4, <1>5 DEF IsEmitted, new

\* What a run makes of a section: the blocks that are written anew, and the rest.
RestOf(k, m, sel, lib) ==
  Without(BlocksOf(k.sections[m], Range(sel)), Range(GraftsAt(m, sel, lib)))
NewOf(k, m, sel, lib) ==
  Emitted(m, GraftsAt(m, sel, lib), RestOf(k, m, sel, lib), k.own, lib)
SectionOf(k, m, sel, lib) == Canonicalized(Pruned(k, sel), m, sel, lib)

\* canonicalize_marker_section, by its cases.
LEMMA SectionIs ==
  ASSUME NEW k, NEW m \in BlockMarkers, NEW sel, NEW lib
  PROVE  SectionOf(k, m, sel, lib) =
           IF GraftsAt(m, sel, lib) = << >> \/ m \notin k.present
           THEN BlocksOf(k.sections[m], Range(sel))
           ELSE IF m = "peek" THEN Joined(RestOf(k, m, sel, lib), NewOf(k, m, sel, lib))
           ELSE Joined(NewOf(k, m, sel, lib), RestOf(k, m, sel, lib))
<1>1. /\ Pruned(k, sel).sections[m] = BlocksOf(k.sections[m], Range(sel))
      /\ Pruned(k, sel).present = k.present /\ Pruned(k, sel).own = k.own
  BY DEF Pruned, Kernel
<1>2. QED
  BY <1>1, Zenon DEF SectionOf, Canonicalized, RestOf, NewOf, Joined

\* A section after a run.
IsSection(c, k, m, sel, lib) ==
  /\ c \in Seq(BlockType)
  /\ \A i \in 1 .. Len(c) : c[i].graft \in Range(sel)
  /\ m \in k.present =>
       /\ BlocksOf(c, Range(GraftsAt(m, sel, lib))) = NewOf(k, m, sel, lib)
       /\ Without(c, Range(GraftsAt(m, sel, lib))) = RestOf(k, m, sel, lib)

\* After a run the blocks of the grafts at a marker are those written anew.
LEMMA SectionDone ==
  ASSUME NEW k \in Files, NEW m \in BlockMarkers, NEW sel \in Seq(Grafts),
         NEW lib \in [Grafts -> Versions]
  PROVE  IsSection(SectionOf(k, m, sel, lib), k, m, sel, lib)
<1> DEFINE at == GraftsAt(m, sel, lib)
           before == k.sections[m]
           kept == BlocksOf(before, Range(sel))
           rest == RestOf(k, m, sel, lib)
           new == NewOf(k, m, sel, lib)
           c == SectionOf(k, m, sel, lib)
<1>1. before \in Seq(BlockType)
  BY DEF Files
<1>2. at \in Seq(Grafts) /\ \A i \in 1 .. Len(at) : at[i] \in Range(sel)
  BY GraftsAtAre
<1>3. rest = Without(kept, Range(at))
  BY DEF RestOf
<1>4. IsEmitted(new, m, at, rest, k.own, lib)
  <2> HIDE DEF rest
  <2>1. new = Emitted(m, at, rest, k.own, lib)
    BY DEF NewOf, rest
  <2> HIDE DEF new, at
  <2>2. QED  BY <1>2, <2>1, EmittedIs
<1>5. c = IF at = << >> \/ m \notin k.present THEN kept
          ELSE IF m = "peek" THEN Joined(rest, new) ELSE Joined(new, rest)
  BY SectionIs
<1> HIDE DEF at, before, rest, new, c
<1>6. kept \in Seq(BlockType) /\ \A i \in 1 .. Len(kept) : kept[i].graft \in Range(sel)
  <2>1. kept \in Seq(BlockType) /\ kept \in Seq(OfGrafts(Range(sel)))
    BY <1>1, BlocksTyped
  <2> HIDE DEF kept
  <2>2. \A i \in 1 .. Len(kept) : kept[i] \in OfGrafts(Range(sel))
    BY <2>1
  <2>3. QED  BY <2>1, <2>2 DEF OfGrafts
<1> HIDE DEF kept
<1>7. /\ rest \in Seq(BlockType)
      /\ \A i \in 1 .. Len(rest) : rest[i].graft \notin Range(at) /\ rest[i].graft \in Range(sel)
  <2>1. rest \in Seq(BlockType) /\ rest \in Seq(Others(Range(at)))
    BY <1>3, <1>6, BlocksTyped
  <2>2. \A i \in 1 .. Len(rest) : rest[i].graft \notin Range(at)
    <3>1. \A i \in 1 .. Len(rest) : rest[i] \in Others(Range(at))
      BY <2>1
    <3>2. QED  BY <3>1 DEF Others
  <2>3. kept \in Seq(OfGrafts(Range(sel)))
    <3>1. \A i \in 1 .. Len(kept) : kept[i] \in OfGrafts(Range(sel))
      BY <1>6 DEF OfGrafts
    <3>2. QED  BY <1>6, <3>1
  <2>4. Only(kept, Others(Range(at))) \in Seq(OfGrafts(Range(sel)))
    BY <2>3, OnlyType
  <2>5. rest = Only(kept, Others(Range(at)))
    BY <1>3, <1>6, BlocksAre
  <2>6. \A i \in 1 .. Len(rest) : rest[i] \in OfGrafts(Range(sel))
    BY <2>4, <2>5
  <2>7. QED  BY <2>1, <2>2, <2>6 DEF OfGrafts
<1>8. /\ new \in Seq(BlockType) /\ Len(new) = Len(at)
      /\ \A i \in 1 .. Len(new) : new[i].graft = at[i]
  BY <1>4 DEF IsEmitted
<1>9. \A i \in 1 .. Len(new) : new[i].graft \in Range(at) /\ new[i].graft \in Range(sel)
  <2>1. DOMAIN at = 1 .. Len(at)
    BY <1>2
  <2>2. QED  BY <1>2, <1>8, <2>1 DEF Range
<1>10. /\ BlocksOf(new, Range(at)) = new /\ Without(new, Range(at)) = << >>
       /\ BlocksOf(rest, Range(at)) = << >> /\ Without(rest, Range(at)) = rest
  BY <1>7, <1>8, <1>9, BlocksEvery, BlocksNone
<1>11. \A l \in Seq(BlockType) : Joined(l, << >>) = l /\ Joined(<< >>, l) = l
  BY DEF Joined
<1>12. CASE at = << >>
  <2>1. new = << >> /\ Range(at) = {}
    BY <1>8, <1>12 DEF Range
  <2>2. c = kept
    BY <1>5, <1>12
  <2>3. BlocksOf(kept, Range(at)) = << >>
    BY <1>6, <2>1, BlocksNone
  <2>4. QED
    BY <1>3, <1>6, <2>1, <2>2, <2>3 DEF IsSection, at, new, rest, c
<1>13. CASE m \notin k.present
  BY <1>5, <1>6, <1>13 DEF IsSection, c
<1>14. ASSUME at # << >>, m \in k.present, NEW a \in Seq(BlockType), NEW b \in Seq(BlockType),
              c = Joined(a, b),
              (a = rest /\ b = new) \/ (a = new /\ b = rest)
       PROVE  IsSection(c, k, m, sel, lib)
  <2>1. c \in Seq(BlockType)
    BY <1>14, BlocksJoined
  <2>2. BlocksOf(c, Range(at)) = new /\ Without(c, Range(at)) = rest
    <3>1. /\ BlocksOf(c, Range(at)) = Joined(BlocksOf(a, Range(at)), BlocksOf(b, Range(at)))
          /\ Without(c, Range(at)) = Joined(Without(a, Range(at)), Without(b, Range(at)))
      BY <1>14, BlocksJoined
    <3>2. QED  BY <1>7, <1>8, <1>10, <1>11, <1>14, <3>1
  <2>3. \A i \in 1 .. Len(c) : c[i].graft \in Range(sel)
    <3>1. /\ Len(a) \in Nat /\ Len(b) \in Nat /\ Len(a \o b) = Len(a) + Len(b)
          /\ \A i \in 1 .. Len(a) : (a \o b)[i] = a[i]
          /\ \A i \in 1 .. Len(b) : (a \o b)[Len(a) + i] = b[i]
      OBVIOUS
    <3>2. \A i \in 1 .. Len(a) : a[i].graft \in Range(sel)
      BY <1>7, <1>9, <1>14
    <3>3. \A i \in 1 .. Len(b) : b[i].graft \in Range(sel)
      BY <1>7, <1>9, <1>14
    <3>4. ASSUME NEW i \in 1 .. (Len(a) + Len(b)) PROVE (a \o b)[i].graft \in Range(sel)
      <4>1. CASE i <= Len(a)
        BY <3>1, <3>2, <4>1
      <4>2. CASE ~(i <= Len(a))
        <5>1. PICK j \in 1 .. Len(b) : i = Len(a) + j
          <6>1. i - Len(a) \in 1 .. Len(b) /\ i = Len(a) + (i - Len(a))
            BY <3>1, <4>2
          <6>2. QED  BY <6>1
        <5>2. QED  BY <3>1, <3>3, <5>1
      <4>3. QED  BY <4>1, <4>2
    <3>5. QED  BY <1>14, <3>1, <3>4 DEF Joined
  <2>4. QED
    BY <2>1, <2>2, <2>3 DEF IsSection, at, new, rest
<1>15. QED
  <2>1. CASE at # << >> /\ m \in k.present /\ m = "peek"
    BY <1>5, <1>7, <1>8, <1>14, <2>1 DEF c
  <2>2. CASE at # << >> /\ m \in k.present /\ m # "peek"
    BY <1>5, <1>7, <1>8, <1>14, <2>2 DEF c
  <2>3. QED  BY <1>12, <1>13, <2>1, <2>2 DEF c

\* What a run writes.
LEMMA InjectedIs ==
  ASSUME NEW k, NEW sel, NEW lib
  PROVE  Injected(k, sel, lib) =
           Kernel([m \in BlockMarkers |-> SectionOf(k, m, sel, lib)],
                  emit_effect_union(k, sel), emit_load_defaults(k, sel, lib), k.present, k.own)
<1>1. Pruned(k, sel).present = k.present /\ Pruned(k, sel).union = k.union
      /\ Pruned(k, sel).overlay = k.overlay
  BY DEF Pruned, Kernel
<1>2. emit_effect_union(Pruned(k, sel), sel) = emit_effect_union(k, sel)
  BY <1>1, Zenon DEF emit_effect_union
<1>3. emit_load_defaults(Pruned(k, sel), sel, lib) = emit_load_defaults(k, sel, lib)
  BY <1>1, Zenon DEF emit_load_defaults
<1>4. Injected(k, sel, lib) =
        Kernel([m \in BlockMarkers |-> Canonicalized(Pruned(k, sel), m, sel, lib)],
               emit_effect_union(Pruned(k, sel), sel), emit_load_defaults(Pruned(k, sel), sel, lib),
               k.present, k.own)
  BY Zenon DEF Injected
<1>5. QED
  BY <1>2, <1>3, <1>4, Zenon DEF SectionOf

\* The union of effects has those of the active grafts, in their order, and the
\* application's own if the file has its marker.
IsUnion(u, sel, present) ==
  /\ u # << >>
  /\ Only(u, Grafts) = Only(sel, {g \in Grafts : HasEffect(g)})
  /\ "domain-effect" \in Range(u) <=> "domain-effect" \in present

\* emit_effect_union writes such a union.
LEMMA UnionIs ==
  ASSUME NEW k \in Files, NEW sel \in Seq(Grafts)
  PROVE  /\ emit_effect_union(k, sel) \in Seq(Variants)
         /\ "effect-union" \in k.present => IsUnion(emit_effect_union(k, sel), sel, k.present)
<1> DEFINE H == {g \in Grafts : HasEffect(g)}
           ours == Only(sel, H)
           own == IF "domain-effect" \in k.present THEN <<"domain-effect">> ELSE << >>
           u == emit_effect_union(k, sel)
<1>1. "domain-effect" \notin Grafts /\ "effect-placeholder" \notin Grafts
      /\ "domain-effect" # "effect-placeholder"
  BY InjectAssumption DEF Grafts
<1>2. u = IF "effect-union" \notin k.present THEN k.union
          ELSE IF ours \o own = << >> THEN <<"effect-placeholder">> ELSE ours \o own
  BY Zenon DEF emit_effect_union
<1> HIDE DEF u
<1>3. k.union \in Seq(Variants)
  BY DEF Files
<1>4. ours \in Seq(H) /\ ours \in Seq(Grafts) /\ ours \in Seq(Variants)
  <2>1. sel \in Seq(Variants)
    BY DEF Variants
  <2> HIDE DEF H
  <2>2. QED  BY <2>1, OnlyType
<1>5. own \in Seq(Variants)
  <2>1. <<"domain-effect">> \in Seq(Variants) /\ << >> \in Seq(Variants)
    BY DEF Variants
  <2>2. QED  BY <2>1, Zenon
<1>6. Only(ours, Grafts) = ours
  <2>1. \A i \in 1 .. Len(ours) : ours[i] \in Grafts
    BY <1>4
  <2> HIDE DEF ours
  <2>2. QED  BY <1>4, <2>1, OnlyAll
<1>7. Only(own, Grafts) = << >>
  <2>1. \A i \in 1 .. Len(own) : own[i] \notin Grafts
    BY <1>1
  <2> HIDE DEF own
  <2>2. QED  BY <1>5, <2>1, OnlyNone
<1> HIDE DEF ours
<1>8. /\ "domain-effect" \in k.present => Len(own) = 1 /\ own[1] = "domain-effect"
      /\ "domain-effect" \notin k.present => own = << >>
  OBVIOUS
<1> HIDE DEF own
<1>9. ours \o own \in Seq(Variants)
  BY <1>4, <1>5
<1>10. Only(ours \o own, Grafts) = ours
  <2>1. Only(Joined(ours, own), Grafts) = Joined(Only(ours, Grafts), Only(own, Grafts))
    BY <1>4, <1>5, OnlyConcat
  <2>2. QED  BY <1>4, <1>6, <1>7, <2>1 DEF Joined
<1>11. "domain-effect" \in Range(ours \o own) <=> "domain-effect" \in k.present
  <2>1. /\ Len(ours) \in Nat /\ Len(own) \in Nat /\ Len(ours \o own) = Len(ours) + Len(own)
        /\ DOMAIN (ours \o own) = 1 .. (Len(ours) + Len(own))
        /\ \A i \in 1 .. Len(ours) : (ours \o own)[i] = ours[i]
        /\ \A i \in 1 .. Len(own) : (ours \o own)[Len(ours) + i] = own[i]
    BY <1>4, <1>5
  <2>2. \A i \in 1 .. Len(ours) : ours[i] # "domain-effect"
    BY <1>1, <1>4
  <2>3. CASE "domain-effect" \in k.present
    <3>1. Len(ours) + 1 \in DOMAIN (ours \o own) /\ (ours \o own)[Len(ours) + 1] = "domain-effect"
      BY <1>8, <2>1, <2>3
    <3>2. "domain-effect" \in Range(ours \o own)
      BY <3>1, Zenon DEF Range
    <3>3. QED  BY <2>3, <3>2
  <2>4. CASE "domain-effect" \notin k.present
    <3>1. \A i \in DOMAIN (ours \o own) : (ours \o own)[i] # "domain-effect"
      BY <1>8, <2>1, <2>2, <2>4
    <3>2. "domain-effect" \notin Range(ours \o own)
      BY <3>1, Zenon DEF Range
    <3>3. QED  BY <2>4, <3>2
  <2>5. QED  BY <2>3, <2>4
<1>12. <<"effect-placeholder">> \in Seq(Variants) /\ <<"effect-placeholder">> # << >>
  BY DEF Variants
<1>13. u \in Seq(Variants)
  BY <1>2, <1>3, <1>9, <1>12
<1>14. ASSUME "effect-union" \in k.present PROVE IsUnion(u, sel, k.present)
  <2>1. CASE ours \o own = << >>
    <3>1. u = <<"effect-placeholder">>
      BY <1>2, <1>14, <2>1
    <3>2. ours = << >>
      BY <1>4, <1>5, <2>1
    <3>3. Only(u, Grafts) = << >>
      <4>1. \A i \in 1 .. Len(u) : u[i] \notin Grafts
        BY <1>1, <3>1
      <4>2. QED  BY <1>13, <4>1, OnlyNone
    <3>4. "domain-effect" \notin Range(u)
      BY <1>1, <3>1 DEF Range
    <3>5. "domain-effect" \notin k.present
      <4>1. Range(ours \o own) = {}
        BY <2>1 DEF Range
      <4>2. QED  BY <1>11, <4>1
    <3>6. QED  BY <1>12, <3>1, <3>2, <3>3, <3>4, <3>5 DEF IsUnion, ours
  <2>2. CASE ours \o own # << >>
    <3>1. u = ours \o own
      BY <1>2, <1>14, <2>2
    <3>2. QED  BY <1>10, <1>11, <2>2, <3>1, Zenon DEF IsUnion, ours
  <2>3. QED  BY <2>1, <2>2
<1>15. QED
  BY <1>13, <1>14 DEF u

\* A run writes a file, and changes neither its markers nor its own imports.
LEMMA InjectedTyped ==
  ASSUME NEW k \in Files, NEW sel \in Seq(Grafts), NEW lib \in [Grafts -> Versions]
  PROVE  /\ Injected(k, sel, lib) \in Files
         /\ Injected(k, sel, lib).present = k.present /\ Injected(k, sel, lib).own = k.own
         /\ Injected(k, sel, lib).union = emit_effect_union(k, sel)
         /\ Injected(k, sel, lib).overlay = emit_load_defaults(k, sel, lib)
         /\ \A m \in BlockMarkers : Injected(k, sel, lib).sections[m] = SectionOf(k, m, sel, lib)
<1> DEFINE sections == [m \in BlockMarkers |-> SectionOf(k, m, sel, lib)]
           union == emit_effect_union(k, sel)
           overlay == emit_load_defaults(k, sel, lib)
<1>1. \A m \in BlockMarkers : SectionOf(k, m, sel, lib) \in Seq(BlockType)
  BY SectionDone DEF IsSection
<1>2. sections \in [BlockMarkers -> Seq(BlockType)]
  BY <1>1
<1>3. union \in Seq(Variants)
  BY UnionIs
<1>4. overlay \in Seq(Grafts)
  <2>1. k.overlay \in Seq(Grafts)
    BY DEF Files
  <2>2. GraftsAt("state", sel, lib) \in Seq(Grafts)
    BY GraftsAtAre
  <2>3. QED  BY <2>1, <2>2 DEF emit_load_defaults
<1>5. k.present \in SUBSET Markers /\ k.own \in SUBSET Libs
  BY DEF Files
<1>6. Injected(k, sel, lib) = Kernel(sections, union, overlay, k.present, k.own)
  BY InjectedIs, Zenon
<1>7. \A m \in BlockMarkers : sections[m] = SectionOf(k, m, sel, lib)
  OBVIOUS
<1> HIDE DEF sections, union, overlay
<1>8. QED
  BY <1>2, <1>3, <1>4, <1>5, <1>6, <1>7 DEF Kernel, Files, union, overlay

\* A second run changes nothing.
LEMMA InjectedTwice ==
  ASSUME NEW k \in Files, NEW sel \in Seq(Grafts), NEW lib \in [Grafts -> Versions]
  PROVE  Injected(Injected(k, sel, lib), sel, lib) = Injected(k, sel, lib)
<1>1. PICK o : o = Injected(k, sel, lib)
  OBVIOUS
<1>2. /\ o \in Files /\ o.present = k.present /\ o.own = k.own
      /\ o.union = emit_effect_union(k, sel) /\ o.overlay = emit_load_defaults(k, sel, lib)
      /\ \A m \in BlockMarkers : o.sections[m] = SectionOf(k, m, sel, lib)
  BY <1>1, InjectedTyped
<1>3. ASSUME NEW m \in BlockMarkers
      PROVE  SectionOf(o, m, sel, lib) = o.sections[m]
  <2> DEFINE at == GraftsAt(m, sel, lib)
             c == o.sections[m]
  <2>1. IsSection(c, k, m, sel, lib)
    BY <1>2, SectionDone
  <2>2. BlocksOf(c, Range(sel)) = c
    BY <2>1, BlocksEvery DEF IsSection
  <2>3. SectionOf(o, m, sel, lib) =
          IF at = << >> \/ m \notin o.present THEN BlocksOf(c, Range(sel))
          ELSE IF m = "peek" THEN Joined(RestOf(o, m, sel, lib), NewOf(o, m, sel, lib))
          ELSE Joined(NewOf(o, m, sel, lib), RestOf(o, m, sel, lib))
    BY SectionIs
  <2>4. c = IF at = << >> \/ m \notin k.present THEN BlocksOf(k.sections[m], Range(sel))
            ELSE IF m = "peek" THEN Joined(RestOf(k, m, sel, lib), NewOf(k, m, sel, lib))
            ELSE Joined(NewOf(k, m, sel, lib), RestOf(k, m, sel, lib))
    <3>1. c = SectionOf(k, m, sel, lib)
      BY <1>2
    <3>2. QED  BY <3>1, SectionIs
  <2>5. m \in k.present =>
          RestOf(o, m, sel, lib) = RestOf(k, m, sel, lib) /\ NewOf(o, m, sel, lib) = NewOf(k, m, sel, lib)
    <3>1. SUFFICES ASSUME m \in k.present
                   PROVE  RestOf(o, m, sel, lib) = RestOf(k, m, sel, lib)
                          /\ NewOf(o, m, sel, lib) = NewOf(k, m, sel, lib)
      OBVIOUS
    <3>2. Without(c, Range(at)) = RestOf(k, m, sel, lib)
      BY <2>1, <3>1 DEF IsSection
    <3>3. RestOf(o, m, sel, lib) = RestOf(k, m, sel, lib)
      BY <2>2, <3>2 DEF RestOf
    <3>4. QED  BY <1>2, <3>3, Zenon DEF NewOf
  <2>6. QED  BY <1>2, <2>2, <2>3, <2>4, <2>5
<1>4. emit_effect_union(o, sel) = o.union
  <2>1. CASE "effect-union" \in k.present
    <3>1. emit_effect_union(o, sel) = emit_effect_union(k, sel)
      BY <1>2, <2>1, Zenon DEF emit_effect_union
    <3>2. QED  BY <1>2, <3>1
  <2>2. CASE "effect-union" \notin k.present
    BY <1>2, <2>2, Zenon DEF emit_effect_union
  <2>3. QED  BY <2>1, <2>2
<1>5. emit_load_defaults(o, sel, lib) = o.overlay
  BY <1>2 DEF emit_load_defaults
<1>6. o = Kernel(o.sections, o.union, o.overlay, o.present, o.own)
      /\ o.sections = [m \in BlockMarkers |-> o.sections[m]]
  BY <1>2 DEF Files, Kernel
<1>7. [m \in BlockMarkers |-> SectionOf(o, m, sel, lib)] = o.sections
  BY <1>3, <1>6
<1>8. Injected(o, sel, lib) =
        Kernel([m \in BlockMarkers |-> SectionOf(o, m, sel, lib)],
               emit_effect_union(o, sel), emit_load_defaults(o, sel, lib), o.present, o.own)
  BY InjectedIs
<1>9. Injected(o, sel, lib) = o
  BY <1>4, <1>5, <1>6, <1>7, <1>8
<1>10. QED  BY <1>1, <1>9

\* What a block of an active graft at m is, after a run: one that was written anew.
LEMMA BlockIsNew ==
  ASSUME NEW k \in Files, NEW m \in BlockMarkers, NEW sel \in Seq(Grafts),
         NEW lib \in [Grafts -> Versions], NEW c, IsSection(c, k, m, sel, lib), m \in k.present,
         NEW i \in 1 .. Len(c), c[i].graft \in Range(GraftsAt(m, sel, lib))
  PROVE  \E j \in 1 .. Len(NewOf(k, m, sel, lib)) : NewOf(k, m, sel, lib)[j] = c[i]
<1> DEFINE names == Range(GraftsAt(m, sel, lib))
           new == NewOf(k, m, sel, lib)
<1>1. c \in Seq(BlockType) /\ c[i] \in BlockType /\ BlocksOf(c, names) = new
  BY DEF IsSection
<1> HIDE DEF names, new
<1>2. c[i] \in OfGrafts(names)
  BY <1>1 DEF OfGrafts, names
<1>3. \E j \in 1 .. Len(Only(c, OfGrafts(names))) : Only(c, OfGrafts(names))[j] = c[i]
  BY <1>1, <1>2, OnlyHas
<1>4. Only(c, OfGrafts(names)) = new
  BY <1>1, BlocksAre
<1>5. QED
  BY <1>3, <1>4 DEF new

\* The blocks of the active grafts that are written anew.
LEMMA NewIs ==
  ASSUME NEW k \in Files, NEW m \in BlockMarkers, NEW sel \in Seq(Grafts),
         NEW lib \in [Grafts -> Versions]
  PROVE  IsEmitted(NewOf(k, m, sel, lib), m, GraftsAt(m, sel, lib), RestOf(k, m, sel, lib), k.own, lib)
<1>1. PICK at, rest : at = GraftsAt(m, sel, lib) /\ rest = RestOf(k, m, sel, lib)
  OBVIOUS
<1>2. at \in Seq(Grafts)
  BY <1>1, GraftsAtAre
<1>3. IsEmitted(Emitted(m, at, rest, k.own, lib), m, at, rest, k.own, lib)
  BY <1>2, EmittedIs
<1>4. QED
  BY <1>1, <1>3 DEF NewOf

\* The parts of AppliedLayout, of a file, an active set and a library.
SectionsLaid(k, sel, lib) ==
  \A m \in BlockMarkers \cap k.present :
    Found(BlocksOf(k.sections[m], Range(GraftsAt(m, sel, lib)))) =
      LET at == GraftsAt(m, sel, lib) IN
        [i \in DOMAIN at |-> [graft |-> at[i], sha |-> lib[at[i]], body |-> lib[at[i]]]]
ActiveOnly(k, sel) ==
  \A m \in BlockMarkers : \A i \in DOMAIN k.sections[m] : k.sections[m][i].graft \in Range(sel)
Imported(k, sel, lib) ==
  \A g \in Range(GraftsAt("imports", sel, lib)), l \in Libs :
    l \in ImportsOf(g) => l \in k.own \cup LibsOf(k.sections["imports"])
ImportedOnce(k, sel, lib) ==
  \A i, j \in DOMAIN k.sections["imports"] :
    i # j /\ k.sections["imports"][i].graft \in Range(GraftsAt("imports", sel, lib))
    => k.sections["imports"][i].libs \cap k.sections["imports"][j].libs = {}

\* A run, of the active set sel, on a file k that has the markers it needs.
Ran(k, sel, lib, o) ==
  /\ k \in Files /\ sel \in Seq(Grafts) /\ lib \in [Grafts -> Versions]
  /\ Placeable(k, sel, lib)
  /\ o = Injected(k, sel, lib)

\* What a run makes of the sections.
LEMMA RanSections ==
  ASSUME NEW k, NEW sel, NEW lib, NEW o, Ran(k, sel, lib, o)
  PROVE  /\ o \in Files /\ o.present = k.present /\ o.own = k.own
         /\ \A m \in BlockMarkers : IsSection(o.sections[m], k, m, sel, lib)
BY InjectedTyped, SectionDone DEF Ran

\* The blocks are those of the active set, current, in order and once each.
LEMMA RanLaysSections ==
  ASSUME NEW k, NEW sel, NEW lib, NEW o, Ran(k, sel, lib, o)
  PROVE  SectionsLaid(o, sel, lib) /\ ActiveOnly(o, sel)
<1>1. k \in Files /\ sel \in Seq(Grafts) /\ lib \in [Grafts -> Versions]
  BY DEF Ran
<1>2. ASSUME NEW m \in BlockMarkers \cap o.present
      PROVE  Found(BlocksOf(o.sections[m], Range(GraftsAt(m, sel, lib)))) =
               LET at == GraftsAt(m, sel, lib) IN
                 [i \in DOMAIN at |-> [graft |-> at[i], sha |-> lib[at[i]], body |-> lib[at[i]]]]
  <2>1. PICK at, new : at = GraftsAt(m, sel, lib) /\ new = NewOf(k, m, sel, lib)
    OBVIOUS
  <2>2. BlocksOf(o.sections[m], Range(at)) = new
    BY <1>2, <2>1, RanSections DEF IsSection
  <2>3. /\ new \in Seq(BlockType) /\ Len(new) = Len(at)
        /\ \A i \in 1 .. Len(at) :
             new[i].graft = at[i] /\ new[i].sha = lib[at[i]] /\ new[i].body = lib[at[i]]
    BY <1>1, <2>1, NewIs DEF IsEmitted
  <2>4. at \in Seq(Grafts)
    BY <1>1, <2>1, GraftsAtAre
  <2>5. DOMAIN new = 1 .. Len(at) /\ DOMAIN at = 1 .. Len(at)
    BY <2>3, <2>4
  <2>6. Found(new) = [i \in DOMAIN at |-> [graft |-> at[i], sha |-> lib[at[i]], body |-> lib[at[i]]]]
    BY <2>3, <2>5 DEF Found
  <2>7. QED  BY <2>1, <2>2, <2>6
<1>3. ASSUME NEW m \in BlockMarkers, NEW i \in DOMAIN o.sections[m]
      PROVE  o.sections[m][i].graft \in Range(sel)
  <2>1. IsSection(o.sections[m], k, m, sel, lib)
    BY RanSections
  <2>2. DOMAIN o.sections[m] = 1 .. Len(o.sections[m])
    BY <2>1 DEF IsSection
  <2>3. QED  BY <2>1, <2>2 DEF IsSection
<1>4. QED
  BY <1>2, <1>3, Zenon DEF SectionsLaid, ActiveOnly

\* What a run places has its marker in the file.
LEMMA RanHasMarker ==
  ASSUME NEW k, NEW sel, NEW lib, NEW o, Ran(k, sel, lib, o),
         NEW m, NEW g \in Range(GraftsAt(m, sel, lib))
  PROVE  m \in k.present /\ g \in Range(sel) /\ m \in Contributes(g, lib[g])
<1>1. /\ GraftsAt(m, sel, lib) \in Seq(Grafts)
      /\ \A i \in 1 .. Len(GraftsAt(m, sel, lib)) :
           /\ GraftsAt(m, sel, lib)[i] \in Range(sel)
           /\ m \in Contributes(GraftsAt(m, sel, lib)[i], lib[GraftsAt(m, sel, lib)[i]])
  BY GraftsAtAre DEF Ran
<1>2. PICK i \in 1 .. Len(GraftsAt(m, sel, lib)) : g = GraftsAt(m, sel, lib)[i]
  BY <1>1 DEF Range
<1>3. QED
  BY <1>1, <1>2 DEF Ran, Placeable

\* What a run writes is no hand edit.
LEMMA RanLeavesNoEdits ==
  ASSUME NEW k, NEW sel, NEW lib, NEW o, Ran(k, sel, lib, o)
  PROVE  HandEdits(o, sel, lib) = {}
<1>1. SUFFICES ASSUME NEW m \in HandEditMarkers, NEW i \in DOMAIN o.sections[m],
                      o.sections[m][i].graft \in Range(sel),
                      m \in Contributes(o.sections[m][i].graft, lib[o.sections[m][i].graft])
               PROVE  o.sections[m][i].body = o.sections[m][i].sha
  BY Zenon DEF HandEdits
<1>2. PICK c, b : c = o.sections[m] /\ b = c[i]
  OBVIOUS
<1>3. /\ m \in BlockMarkers
      /\ k \in Files /\ sel \in Seq(Grafts) /\ lib \in [Grafts -> Versions]
  BY InjectAssumption DEF Ran
<1>4. IsSection(c, k, m, sel, lib)
  BY <1>2, <1>3, RanSections
<1>5. i \in 1 .. Len(c)
  BY <1>1, <1>2, <1>4 DEF IsSection
<1>6. b.graft \in Range(GraftsAt(m, sel, lib))
  BY <1>1, <1>2, <1>3, GraftsAtAre
<1>7. m \in k.present
  BY <1>6, RanHasMarker
<1>8. PICK j \in 1 .. Len(NewOf(k, m, sel, lib)) : NewOf(k, m, sel, lib)[j] = b
  BY <1>2, <1>3, <1>4, <1>5, <1>6, <1>7, BlockIsNew
<1>9. b.body = b.sha
  BY <1>3, <1>8, NewIs DEF IsEmitted
<1>10. QED  BY <1>2, <1>9

\* A run imports what the active grafts need.
LEMMA RanImports ==
  ASSUME NEW k, NEW sel, NEW lib, NEW o, Ran(k, sel, lib, o)
  PROVE  Imported(o, sel, lib)
<1> DEFINE m == "imports"
<1>1. SUFFICES ASSUME NEW g \in Range(GraftsAt(m, sel, lib)), NEW l \in Libs,
                      l \in ImportsOf(g), l \notin o.own
               PROVE  l \in LibsOf(o.sections[m])
  BY DEF Imported
<1>2. /\ m \in BlockMarkers /\ m \in k.present
      /\ k \in Files /\ sel \in Seq(Grafts) /\ lib \in [Grafts -> Versions]
  BY InjectAssumption, RanHasMarker DEF Ran
<1>3. PICK at, new, rest, c : /\ at = GraftsAt(m, sel, lib) /\ new = NewOf(k, m, sel, lib)
                              /\ rest = RestOf(k, m, sel, lib) /\ c = o.sections[m]
  OBVIOUS
<1>4. c \in Seq(BlockType) /\ BlocksOf(c, Range(at)) = new /\ Without(c, Range(at)) = rest
  BY <1>2, <1>3, RanSections DEF IsSection
<1>5. IsEmitted(new, m, at, rest, k.own, lib) /\ at \in Seq(Grafts) /\ o.own = k.own
  BY <1>2, <1>3, NewIs, GraftsAtAre, RanSections
<1>6. new \in Seq(Range(c)) /\ rest \in Seq(Range(c))
  <2>1. c \in Seq(Range(c))
    BY <1>4 DEF Range
  <2>2. new = Only(c, OfGrafts(Range(at))) /\ rest = Only(c, Others(Range(at)))
    BY <1>4, BlocksAre
  <2>3. QED  BY <2>1, <2>2, OnlyType
<1>7. DOMAIN c = 1 .. Len(c) /\ DOMAIN rest = 1 .. Len(rest)
  BY <1>4, <1>6
<1>8. ASSUME NEW b \in Range(c), l \in b.libs PROVE l \in LibsOf(c)
  <2>1. PICK i \in DOMAIN c : c[i] = b
    BY DEF Range
  <2>2. QED  BY <1>8, <2>1 DEF LibsOf
<1>9. CASE l \in LibsOf(rest)
  <2>1. PICK r \in 1 .. Len(rest) : l \in rest[r].libs
    BY <1>7, <1>9 DEF LibsOf
  <2>2. rest[r] \in Range(c)
    BY <1>6, <2>1
  <2>3. QED  BY <1>3, <1>8, <2>1, <2>2
<1>10. CASE l \notin LibsOf(rest)
  <2> DEFINE J == {j \in 1 .. Len(at) : l \in ImportsOf(at[j])}
  <2>1. J \subseteq Nat /\ J # {}
    <3>1. DOMAIN at = 1 .. Len(at) /\ Len(at) \in Nat
      BY <1>5
    <3>2. PICK j \in 1 .. Len(at) : at[j] = g
      BY <1>1, <1>3, <3>1 DEF Range
    <3>3. j \in J
      BY <1>1, <3>2
    <3>4. QED  BY <3>1, <3>3
  <2>2. PICK q \in J : \A y \in J : q <= y
    BY <2>1, Least
  <2>3. q \in 1 .. Len(at) /\ l \in ImportsOf(at[q]) /\ Len(at) \in Nat
    BY <1>5
  <2>4. \A j \in 1 .. (q - 1) : l \notin ImportsOf(at[j])
    <3>1. SUFFICES ASSUME NEW j \in 1 .. (q - 1), l \in ImportsOf(at[j]) PROVE FALSE
      OBVIOUS
    <3>2. j \in 1 .. Len(at) /\ ~(q <= j)
      BY <2>3
    <3>3. j \in J
      BY <3>1, <3>2
    <3>4. QED  BY <2>2, <3>2, <3>3
  <2> HIDE DEF J
  <2>5. l \notin UNION { ImportsOf(at[j]) : j \in 1..(q - 1) }
    BY <2>4
  <2>6. new[q].libs = ImportsOf(at[q]) \ (k.own \cup LibsOf(rest)
                                          \cup UNION { ImportsOf(at[j]) : j \in 1..(q - 1) })
    BY <1>5, <2>3, Zenon DEF IsEmitted
  <2>7. l \in new[q].libs
    BY <1>1, <1>5, <1>10, <2>3, <2>5, <2>6
  <2>8. q \in 1 .. Len(new)
    BY <1>5, <2>3 DEF IsEmitted
  <2>9. new[q] \in Range(c)
    BY <1>6, <2>8
  <2>10. QED  BY <1>3, <1>8, <2>7, <2>9
<1>11. QED  BY <1>9, <1>10

\* And none of what it writes imports what another line of it, or of the file, does.
LEMMA RanImportsOnce ==
  ASSUME NEW k, NEW sel, NEW lib, NEW o, Ran(k, sel, lib, o)
  PROVE  ImportedOnce(o, sel, lib)
<1> DEFINE m == "imports"
<1>1. SUFFICES ASSUME NEW i \in DOMAIN o.sections[m], NEW j \in DOMAIN o.sections[m], i # j,
                      o.sections[m][i].graft \in Range(GraftsAt(m, sel, lib))
               PROVE  o.sections[m][i].libs \cap o.sections[m][j].libs = {}
  BY Zenon DEF ImportedOnce
<1>2. /\ m \in BlockMarkers /\ m \in k.present
      /\ k \in Files /\ sel \in Seq(Grafts) /\ lib \in [Grafts -> Versions]
  BY <1>1, InjectAssumption, RanHasMarker DEF Ran
<1>3. PICK at, new, rest, c : /\ at = GraftsAt(m, sel, lib) /\ new = NewOf(k, m, sel, lib)
                              /\ rest = RestOf(k, m, sel, lib) /\ c = o.sections[m]
  OBVIOUS
<1>4. c \in Seq(BlockType) /\ Without(c, Range(at)) = rest
  BY <1>2, <1>3, RanSections DEF IsSection
<1>5. IsEmitted(new, m, at, rest, k.own, lib) /\ at \in Seq(Grafts)
  BY <1>2, <1>3, NewIs, GraftsAtAre
<1>6. c = Joined(new, rest)
  <2>1. at # << >>
    BY <1>1, <1>3 DEF Range
  <2>2. c = SectionOf(k, m, sel, lib)
    BY <1>2, <1>3, InjectedTyped DEF Ran
  <2>3. QED  BY <1>2, <1>3, <2>1, <2>2, SectionIs
<1>7. /\ rest \in Seq(BlockType) /\ \A r \in 1 .. Len(rest) : rest[r].graft \notin Range(at)
  <2>1. rest \in Seq(BlockType) /\ rest \in Seq(Others(Range(at)))
    BY <1>4, BlocksTyped
  <2>2. \A r \in 1 .. Len(rest) : rest[r] \in Others(Range(at))
    BY <2>1
  <2>3. QED  BY <2>1, <2>2 DEF Others
<1>8. /\ new \in Seq(BlockType) /\ Len(new) = Len(at) /\ Len(at) \in Nat
      /\ \A p \in 1 .. Len(at) :
           new[p].libs = ImportsOf(at[p]) \ (k.own \cup LibsOf(rest)
                                             \cup UNION { ImportsOf(at[q]) : q \in 1..(p - 1) })
  BY <1>5 DEF IsEmitted
<1>9. /\ Len(rest) \in Nat /\ DOMAIN c = 1 .. (Len(at) + Len(rest))
      /\ \A p \in 1 .. Len(at) : c[p] = new[p]
      /\ \A r \in 1 .. Len(rest) : c[Len(at) + r] = rest[r]
  <2>1. IsJoined(c, new, rest, BlockType)
    BY <1>6, <1>7, <1>8, JoinedParts
  <2>2. DOMAIN c = 1 .. Len(c)
    BY <1>4
  <2>3. QED  BY <1>8, <2>1, <2>2 DEF IsJoined
<1>10. i \in 1 .. Len(at)
  <2>1. SUFFICES ASSUME i \notin 1 .. Len(at) PROVE FALSE
    OBVIOUS
  <2>2. i \in 1 .. (Len(at) + Len(rest))
    BY <1>1, <1>3, <1>9
  <2>3. i - Len(at) \in 1 .. Len(rest) /\ i = Len(at) + (i - Len(at))
    BY <1>8, <1>9, <2>1, <2>2
  <2>4. c[i] = rest[i - Len(at)]
    BY <1>9, <2>3
  <2>5. QED  BY <1>1, <1>3, <1>7, <2>3, <2>4
<1>11. ASSUME NEW p \in 1 .. Len(at), NEW q \in 1 .. Len(at), p < q
       PROVE  new[p].libs \cap new[q].libs = {}
  <2>1. new[p].libs \subseteq ImportsOf(at[p])
    BY <1>8
  <2>2. p \in 1 .. (q - 1)
    BY <1>8, <1>11
  <2>3. ImportsOf(at[p]) \subseteq UNION { ImportsOf(at[r]) : r \in 1..(q - 1) }
    BY <2>2
  <2>4. new[q].libs \cap UNION { ImportsOf(at[r]) : r \in 1..(q - 1) } = {}
    BY <1>8
  <2>5. QED  BY <2>1, <2>3, <2>4
<1>12. CASE j \in 1 .. Len(at)
  <2>1. i < j \/ j < i
    BY <1>1, <1>8, <1>10, <1>12
  <2>2. new[i].libs \cap new[j].libs = {}
    BY <1>10, <1>11, <1>12, <2>1
  <2>3. QED  BY <1>3, <1>9, <1>10, <1>12, <2>2
<1>13. CASE j \notin 1 .. Len(at)
  <2>1. j \in 1 .. (Len(at) + Len(rest))
    BY <1>1, <1>3, <1>9
  <2>2. j - Len(at) \in 1 .. Len(rest) /\ j = Len(at) + (j - Len(at))
    BY <1>8, <1>9, <1>13, <2>1
  <2>3. PICK r \in 1 .. Len(rest) : c[j] = rest[r]
    BY <1>9, <2>2
  <2>4. rest[r].libs \subseteq LibsOf(rest)
    BY <1>7, <2>3 DEF LibsOf
  <2>5. new[i].libs \cap LibsOf(rest) = {}
    BY <1>8, <1>10
  <2>6. QED  BY <1>3, <1>9, <1>10, <2>3, <2>4, <2>5
<1>14. QED  BY <1>12, <1>13

\* The file after a run.
Laid(k, sel, lib) ==
  /\ SectionsLaid(k, sel, lib) /\ ActiveOnly(k, sel)
  /\ Imported(k, sel, lib) /\ ImportedOnce(k, sel, lib)
  /\ "effect-union" \in k.present => IsUnion(k.union, sel, k.present)
  /\ "load-defaults" \in k.present => k.overlay = GraftsAt("state", sel, lib)
  /\ Injected(k, sel, lib) = k
  /\ HandEdits(k, sel, lib) = {}

\* A run lays out the file for its active set.
LEMMA RanLays ==
  ASSUME NEW k, NEW sel, NEW lib, NEW o, Ran(k, sel, lib, o)
  PROVE  Laid(o, sel, lib)
<1>1. SectionsLaid(o, sel, lib) /\ ActiveOnly(o, sel) /\ Imported(o, sel, lib)
      /\ ImportedOnce(o, sel, lib) /\ HandEdits(o, sel, lib) = {}
  BY RanLaysSections, RanImports, RanImportsOnce, RanLeavesNoEdits
<1>2. k \in Files /\ sel \in Seq(Grafts) /\ lib \in [Grafts -> Versions]
      /\ o = Injected(k, sel, lib)
  BY DEF Ran
<1>3. /\ o.present = k.present /\ o.union = emit_effect_union(k, sel)
      /\ o.overlay = emit_load_defaults(k, sel, lib)
  BY <1>2, InjectedTyped
<1>4. "effect-union" \in o.present => IsUnion(o.union, sel, o.present)
  BY <1>2, <1>3, UnionIs
<1>5. "load-defaults" \in o.present => o.overlay = GraftsAt("state", sel, lib)
  BY <1>3 DEF emit_load_defaults
<1>6. Injected(o, sel, lib) = o
  BY <1>2, InjectedTwice
<1>7. QED  BY <1>1, <1>4, <1>5, <1>6 DEF Laid

\* Which is what AppliedLayout says of the last run.
LEMMA LaidIs ==
  ASSUME \A n \in DOMAIN applied : Laid(kernel, applied[n], manifests)
  PROVE  AppliedLayout
BY Zenon DEF AppliedLayout, Laid, SectionsLaid, ActiveOnly, Imported, ImportedOnce, IsUnion, Expected

InjectInv ==
  /\ manifests \in [Grafts -> Versions]
  /\ kernel \in Files
  /\ preview = NoFile \/ preview \in Files
  /\ applied = << >> \/ \E sel \in Seq(Grafts) : applied = << sel >>
  /\ \A n \in DOMAIN applied : Laid(kernel, applied[n], manifests)

\* A new project, or one of an earlier release, has had no run.
LEMMA InjectInvInit == InjectInit => InjectInv
<1> SUFFICES ASSUME InjectInit PROVE InjectInv
  OBVIOUS
<1>1. manifests \in [Grafts -> Versions] /\ preview = NoFile /\ applied = << >>
  BY InjectAssumption DEF InjectInit
<1>2. Fresh \in Files
  <2>1. [m \in BlockMarkers |-> << >>] \in [BlockMarkers -> Seq(BlockType)]
    OBVIOUS
  <2>2. << >> \in Seq(Variants) /\ << >> \in Seq(Grafts)
    OBVIOUS
  <2>3. QED  BY <2>1, <2>2 DEF Fresh, Kernel, Files
<1>3. Legacy \in Files
  <2> DEFINE old(m) == Only(Reverse(GraftNames), {g \in Grafts : m \in Contributes(g, 1)})
             block(m, i) == [graft |-> old(m)[i], sha |-> 0, body |-> 1,
                             libs |-> IF m = "imports" THEN ImportsOf(old(m)[i]) ELSE {}]
             sections == [m \in BlockMarkers |-> [i \in DOMAIN old(m) |-> block(m, i)]]
  <2>1. Reverse(GraftNames) \in Seq(Grafts)
    <3>1. GraftNames \in Seq(Grafts)
      BY InjectAssumption DEF Grafts, Range
    <3>2. QED  BY <3>1 DEF Reverse
  <2>2. \A m \in BlockMarkers : old(m) \in Seq(Grafts)
    BY <2>1, OnlyType
  <2>3. \A m \in BlockMarkers : [i \in DOMAIN old(m) |-> block(m, i)] \in Seq(BlockType)
    <3>1. SUFFICES ASSUME NEW m \in BlockMarkers
                   PROVE  [i \in DOMAIN old(m) |-> block(m, i)] \in Seq(BlockType)
      OBVIOUS
    <3>2. PICK l : l = old(m)
      OBVIOUS
    <3>3. l \in Seq(Grafts) /\ DOMAIN l = 1 .. Len(l) /\ Len(l) \in Nat
      BY <2>2, <3>2
    <3>4. \A i \in 1 .. Len(l) : block(m, i) \in BlockType
      <4>1. SUFFICES ASSUME NEW i \in 1 .. Len(l) PROVE block(m, i) \in BlockType
        OBVIOUS
      <4>2. old(m)[i] \in Grafts
        BY <3>2, <3>3
      <4>3. ImportsOf(old(m)[i]) \subseteq Libs
        BY <4>2, InjectAssumption DEF Grafts
      <4> HIDE DEF old
      <4>4. QED  BY <4>2, <4>3, InjectAssumption DEF BlockType
    <3> HIDE DEF block
    <3>5. [i \in 1 .. Len(l) |-> block(m, i)] \in Seq(BlockType)
      BY <3>3, <3>4
    <3>6. QED  BY <3>2, <3>3, <3>5
  <2>4. sections \in [BlockMarkers -> Seq(BlockType)]
    <3> HIDE DEF block, old
    <3>1. QED  BY <2>3
  <2>5. Legacy = [Fresh EXCEPT !.sections = sections]
    BY Zenon DEF Legacy
  <2> HIDE DEF sections
  <2>6. QED  BY <1>2, <2>4, <2>5 DEF Files
<1>4. DOMAIN applied = {}
  BY <1>1
<1>5. kernel \in Files
  BY <1>2, <1>3, Zenon DEF InjectInit
<1>6. QED  BY <1>1, <1>4, <1>5 DEF InjectInv

\* One step keeps the invariant.
LEMMA InjectInvNext == InjectInv /\ [InjectNext]_injectVars => InjectInv'
<1> SUFFICES ASSUME InjectInv, [InjectNext]_injectVars PROVE InjectInv'
  OBVIOUS
<1>1. /\ manifests \in [Grafts -> Versions] /\ kernel \in Files
      /\ preview = NoFile \/ preview \in Files
  BY DEF InjectInv
<1>a. applied' = << >> => \A n \in DOMAIN applied' : Laid(kernel', applied'[n], manifests')
  OBVIOUS
<1>2. ASSUME NEW sel \in Selections, NEW force \in BOOLEAN, Apply(sel, force)
      PROVE  InjectInv'
  <2>1. sel \in Seq(Grafts)
    BY DEF Selections
  <2>2. Ran(kernel, sel, manifests, kernel')
    BY <1>1, <1>2, <2>1 DEF Ran, Apply
  <2>3. kernel' \in Files
    BY <2>2, RanSections
  <2>4. applied' = << sel >> /\ manifests' = manifests /\ preview' = preview
    BY <1>2 DEF Apply
  <2>5. Laid(kernel', sel, manifests)
    BY <2>2, RanLays
  <2>6. \A n \in DOMAIN applied' : Laid(kernel', applied'[n], manifests')
    BY <2>4, <2>5
  <2>7. applied' = << >> \/ \E s \in Seq(Grafts) : applied' = << s >>
    BY <2>1, <2>4
  <2>8. QED  BY <1>1, <2>3, <2>4, <2>6, <2>7 DEF InjectInv
<1>3. ASSUME NEW lib \in [Grafts -> Versions], UpdatePreviews(lib)
      PROVE  InjectInv'
  <2>1. Discovered \in Seq(Grafts)
    BY InjectAssumption DEF Discovered, Grafts, Range
  <2>2. Injected(kernel, Discovered, lib) \in Files
    BY <1>1, <2>1, InjectedTyped
  <2>3. QED
    BY <1>a, <1>1, <1>3, <2>2 DEF UpdatePreviews, InjectInv
<1>4. CASE UpdateConfirmed
  BY <1>a, <1>1, <1>4 DEF UpdateConfirmed, InjectInv
<1>5. ASSUME UNCHANGED <<manifests, kernel, applied>>, preview' \in {preview, NoFile}
      PROVE  InjectInv'
  BY <1>1, <1>5 DEF InjectInv
<1>6. ASSUME NEW k \in Files, Edited(k)
      PROVE  InjectInv'
  BY <1>a, <1>1, <1>6 DEF Edited, InjectInv
<1>7. ASSUME NEW m \in BlockMarkers, NEW i \in DOMAIN kernel.sections[m], EditBlock(m, i)
      PROVE  InjectInv'
  <2> DEFINE s == kernel.sections[m]
             b == [s[i] EXCEPT !.body = 0]
             sections == [kernel.sections EXCEPT ![m] = [s EXCEPT ![i] = b]]
  <2>1. s \in Seq(BlockType) /\ i \in 1 .. Len(s) /\ s[i] \in BlockType
    BY <1>1 DEF Files
  <2>2. b \in BlockType
    <3>1. PICK old : old = s[i]
      OBVIOUS
    <3>2. [old EXCEPT !.body = 0] \in BlockType
      BY <2>1, <3>1 DEF BlockType
    <3>3. QED  BY <3>1, <3>2
  <2>3. [s EXCEPT ![i] = b] \in Seq(BlockType)
    <3> HIDE DEF b, s
    <3>1. QED  BY <2>1, <2>2
  <2>4. sections \in [BlockMarkers -> Seq(BlockType)]
    <3>1. kernel.sections \in [BlockMarkers -> Seq(BlockType)]
      BY <1>1 DEF Files
    <3>2. PICK new : new = [s EXCEPT ![i] = b]
      OBVIOUS
    <3>3. QED  BY <2>3, <3>1, <3>2
  <2>5. Edited([kernel EXCEPT !.sections = sections])
    BY <1>7, Zenon DEF EditBlock
  <2> HIDE DEF sections
  <2>6. [kernel EXCEPT !.sections = sections] \in Files
    BY <1>1, <2>4 DEF Files
  <2>7. QED  BY <1>6, <2>5, <2>6
<1>8. ASSUME NEW m \in Markers, ToggleMarker(m)
      PROVE  InjectInv'
  <2>1. PICK p : p = IF m \in kernel.present THEN kernel.present \ {m} ELSE kernel.present \cup {m}
    OBVIOUS
  <2>2. p \in SUBSET Markers
    BY <1>1, <2>1 DEF Files
  <2>3. [kernel EXCEPT !.present = p] \in Files
    BY <1>1, <2>2 DEF Files
  <2>4. Edited([kernel EXCEPT !.present = p])
    BY <1>8, <2>1, Zenon DEF ToggleMarker
  <2>5. QED  BY <1>6, <2>3, <2>4
<1>9. ASSUME NEW l \in Libs, ToggleImport(l)
      PROVE  InjectInv'
  <2>1. PICK p : p = IF l \in kernel.own THEN kernel.own \ {l} ELSE kernel.own \cup {l}
    OBVIOUS
  <2>2. p \in SUBSET Libs
    BY <1>1, <2>1 DEF Files
  <2>3. [kernel EXCEPT !.own = p] \in Files
    BY <1>1, <2>2 DEF Files
  <2>4. Edited([kernel EXCEPT !.own = p])
    BY <1>9, <2>1, Zenon DEF ToggleImport
  <2>5. QED  BY <1>6, <2>3, <2>4
<1>10. ASSUME NEW g \in Grafts, NEW v \in Versions, ManifestChanges(g, v)
       PROVE  InjectInv'
  BY <1>a, <1>1, <1>10 DEF ManifestChanges, InjectInv
<1>11. CASE UpdateAborted
  BY <1>5, <1>11 DEF UpdateAborted
<1>12. CASE UNCHANGED injectVars
  BY <1>5, <1>12 DEF injectVars
<1>13. QED
  BY <1>2, <1>3, <1>4, <1>7, <1>8, <1>9, <1>10, <1>11, <1>12 DEF InjectNext

\* Whatever runs, edits, updates and manifests came before, a run leaves the file of its
\* active set, which a second run would not change: for every library of grafts and
\* every number of edits.
THEOREM AppliedLayoutCorrect == InjectSpec => []AppliedLayout
<1>1. InjectInv => AppliedLayout
  BY LaidIs DEF InjectInv
<1>2. QED
  BY <1>1, InjectInvInit, InjectInvNext, PTL DEF InjectSpec

-----------------------------------------------------------------------------
(* LoadOverlay *)

NestStep(F, nouns, k) ==
  IF k = 1 THEN nouns[Len(nouns)] ELSE Cell(nouns[Len(nouns) - k + 1], F[k - 1])

IsNest(F, nouns, n) == F = [k \in 1 .. n |-> NestStep(F, nouns, k)]

\* There is such a function for a list of any length.
LEMMA NestExists ==
  ASSUME NEW nouns, NEW n \in Nat
  PROVE  \E F : IsNest(F, nouns, n)
<1> DEFINE N == {m \in Nat : \E F : F = [k \in 1 .. m |-> NestStep(F, nouns, k)]}
<1>1. 0 \in N
  <2> DEFINE F == [k \in 1 .. 0 |-> << >>]
  <2>1. F = [k \in 1 .. 0 |-> NestStep(F, nouns, k)]
    OBVIOUS
  <2> HIDE DEF F
  <2>2. QED
    BY <2>1
<1>2. ASSUME NEW m \in Nat, m \in N
      PROVE  m + 1 \in N
  <2>1. PICK F : F = [k \in 1 .. m |-> NestStep(F, nouns, k)]
    BY <1>2
  <2> DEFINE G == [k \in 1 .. (m + 1) |-> IF k = m + 1 THEN NestStep(F, nouns, k) ELSE F[k]]
  <2>2. ASSUME NEW k \in 1 .. (m + 1) PROVE G[k] = NestStep(G, nouns, k)
    <3>1. k # 1 => k - 1 \in 1 .. m /\ k - 1 # m + 1 /\ G[k - 1] = F[k - 1]
      OBVIOUS
    <3>2. NestStep(G, nouns, k) = NestStep(F, nouns, k)
      BY <3>1 DEF NestStep
    <3>3. k # m + 1 => k \in 1 .. m /\ F[k] = NestStep(F, nouns, k)
      BY <2>1
    <3>4. QED  BY <3>2, <3>3
  <2>3. G = [k \in 1 .. (m + 1) |-> NestStep(G, nouns, k)]
    <3>1. G = [k \in 1 .. (m + 1) |-> G[k]]
      OBVIOUS
    <3> HIDE DEF G
    <3>2. QED  BY <2>2, <3>1
  <2> HIDE DEF G
  <2>4. QED
    BY <2>3
<1>3. n \in N
  <2> HIDE DEF N
  <2>1. QED  BY <1>1, <1>2, Induction
<1>4. QED
  BY <1>3 DEF IsNest

\* Nested is such a function: each place is a cell of a field and the place before.
LEMMA NestedIs ==
  ASSUME NEW nouns, Len(nouns) \in Nat, NEW k \in 1 .. Len(nouns)
  PROVE  Nested(nouns)[k] = NestStep(Nested(nouns), nouns, k)
<1> DEFINE Taken ==
      CHOOSE last :
        last = [j \in 1 .. Len(nouns) |->
                  IF j = 1 THEN nouns[Len(nouns)]
                  ELSE Cell(nouns[Len(nouns) - j + 1], last[j - 1])]
<1>1. Nested(nouns) = Taken
  BY DEF Nested
<1>2. PICK F : IsNest(F, nouns, Len(nouns))
  BY NestExists
<1>3. IsNest(Taken, nouns, Len(nouns))
  BY <1>2, Zenon DEF IsNest, NestStep
<1> HIDE DEF Taken
<1>4. QED
  BY <1>1, <1>3 DEF IsNest

DownStep(D, x, k) ==
  IF k = 0 THEN Some(x)
  ELSE IF ~D[k - 1].some THEN None
  ELSE IF IsAtom(D[k - 1].is) THEN None ELSE Some(D[k - 1].is.tail)

IsDown(D, x, n) == D = [k \in 0 .. n |-> DownStep(D, x, k)]

\* There is such a function for any depth.
LEMMA DownExists ==
  ASSUME NEW x, NEW n \in Nat
  PROVE  \E D : IsDown(D, x, n)
<1> DEFINE N == {m \in Nat : \E D : D = [k \in 0 .. m |-> DownStep(D, x, k)]}
<1>1. 0 \in N
  <2> DEFINE D == [k \in 0 .. 0 |-> Some(x)]
  <2>1. D = [k \in 0 .. 0 |-> DownStep(D, x, k)]
    BY DEF DownStep
  <2> HIDE DEF D
  <2>2. QED
    BY <2>1
<1>2. ASSUME NEW m \in Nat, m \in N
      PROVE  m + 1 \in N
  <2>1. PICK D : D = [k \in 0 .. m |-> DownStep(D, x, k)]
    BY <1>2
  <2> DEFINE G == [k \in 0 .. (m + 1) |-> IF k = m + 1 THEN DownStep(D, x, k) ELSE D[k]]
  <2>2. ASSUME NEW k \in 0 .. (m + 1) PROVE G[k] = DownStep(G, x, k)
    <3>1. k # 0 => k - 1 \in 0 .. m /\ k - 1 # m + 1 /\ G[k - 1] = D[k - 1]
      OBVIOUS
    <3>2. DownStep(G, x, k) = DownStep(D, x, k)
      BY <3>1 DEF DownStep
    <3>3. k # m + 1 => k \in 0 .. m /\ D[k] = DownStep(D, x, k)
      BY <2>1
    <3>4. QED  BY <3>2, <3>3
  <2>3. G = [k \in 0 .. (m + 1) |-> DownStep(G, x, k)]
    <3>1. G = [k \in 0 .. (m + 1) |-> G[k]]
      OBVIOUS
    <3> HIDE DEF G
    <3>2. QED  BY <2>2, <3>1
  <2> HIDE DEF G
  <2>4. QED
    BY <2>3
<1>3. n \in N
  <2> HIDE DEF N
  <2>1. QED  BY <1>1, <1>2, Induction
<1>4. QED
  BY <1>3 DEF IsDown

\* TailOf is such a function: each place is the tail of the place before.
LEMMA TailOfIs ==
  ASSUME NEW x, NEW n \in Nat, NEW k \in 0 .. n
  PROVE  TailOf(x, n)[k] = DownStep(TailOf(x, n), x, k)
<1> DEFINE Taken ==
      CHOOSE down :
        down = [j \in 0 .. n |->
                  IF j = 0 THEN Some(x)
                  ELSE IF ~down[j - 1].some THEN None
                  ELSE IF IsAtom(down[j - 1].is) THEN None ELSE Some(down[j - 1].is.tail)]
<1>1. TailOf(x, n) = Taken
  BY DEF TailOf
<1>2. PICK D : IsDown(D, x, n)
  BY DownExists
<1>3. IsDown(Taken, x, n)
  BY <1>2, Zenon DEF IsDown, DownStep
<1> HIDE DEF Taken
<1>4. QED
  BY <1>1, <1>3 DEF IsDown

\* A field is found at its place in the fields that were nested.
LEMMA SlotOfNested ==
  ASSUME NEW fields, Len(fields) \in Nat, NEW i \in 1 .. Len(fields)
  PROVE  Slot(Nested(fields)[Len(fields)], i, Len(fields)) = Some(fields[i])
<1> DEFINE n == Len(fields)
           F == Nested(fields)
           x == F[n]
           D == TailOf(x, i - 1)
           N == {k \in Nat : k <= i - 1 => D[k] = Some(F[n - k])}
<1>1. n \in Nat /\ i \in Nat /\ i >= 1 /\ i <= n /\ i - 1 \in Nat
  OBVIOUS
<1>2. \A k \in 1 .. n : F[k] = NestStep(F, fields, k)
  BY NestedIs
<1>3. \A k \in 0 .. (i - 1) : D[k] = DownStep(D, x, k)
  <2> HIDE DEF x
  <2>1. QED  BY <1>1, TailOfIs
<1> HIDE DEF D, F
<1>4. \A k \in 2 .. n : F[k] = Cell(fields[n - k + 1], F[k - 1])
  BY <1>1, <1>2 DEF NestStep
<1>5. F[1] = fields[n]
  BY <1>1, <1>2 DEF NestStep
<1> HIDE DEF n
<1>6. 0 \in N
  BY <1>1, <1>3 DEF DownStep
<1>7. ASSUME NEW k \in Nat, k \in N PROVE k + 1 \in N
  <2>1. CASE k + 1 <= i - 1
    <3>1. D[k] = Some(F[n - k]) /\ n - k \in 2 .. n /\ n - (k + 1) = (n - k) - 1
          /\ k + 1 \in 0 .. (i - 1) /\ (k + 1) - 1 = k
      BY <1>1, <1>7, <2>1
    <3>2. F[n - k] = Cell(fields[n - (n - k) + 1], F[n - (k + 1)])
      BY <1>4, <3>1
    <3>3. ~IsAtom(F[n - k]) /\ F[n - k].tail = F[n - (k + 1)]
      BY <3>2 DEF Cell, IsAtom
    <3>4. D[k].some /\ D[k].is = F[n - k]
      BY <3>1 DEF Some
    <3>5. D[k + 1] = DownStep(D, x, k + 1)
      BY <1>3, <3>1
    <3>6. D[k + 1] = Some(F[n - (k + 1)])
      BY <3>1, <3>3, <3>4, <3>5 DEF DownStep
    <3>7. QED  BY <3>6
  <2>2. QED  BY <1>1, <2>1
<1>8. i - 1 \in N
  <2> HIDE DEF N
  <2>1. QED  BY <1>1, <1>6, <1>7, Induction
<1>9. D[i - 1] = Some(F[n - (i - 1)])
  BY <1>1, <1>8
<1>10. Slot(x, i, n) = IF i = n \/ ~D[i - 1].some THEN D[i - 1]
                       ELSE IF IsAtom(D[i - 1].is) THEN None ELSE Some(D[i - 1].is.head)
  BY DEF Slot, D
<1>11. CASE i = n
  BY <1>1, <1>5, <1>9, <1>10, <1>11 DEF n, F
<1>12. CASE i # n
  <2>1. n - (i - 1) \in 2 .. n /\ n - (n - (i - 1)) + 1 = i
    BY <1>1, <1>12
  <2>2. F[n - (i - 1)] = Cell(fields[i], F[n - (i - 1) - 1])
    BY <1>4, <2>1
  <2>3. ~IsAtom(F[n - (i - 1)]) /\ F[n - (i - 1)].head = fields[i]
    BY <2>2 DEF Cell, IsAtom
  <2>4. D[i - 1].some /\ D[i - 1].is = F[n - (i - 1)]
    BY <1>9 DEF Some
  <2>5. Slot(x, i, n) = Some(fields[i])
    BY <1>10, <1>12, <2>3, <2>4
  <2>6. QED  BY <2>5 DEF n, F
<1>13. QED  BY <1>11, <1>12

\* A state has a noun at each place of the composition.
IsState(nouns, n) ==
  n \in Nat /\ DOMAIN nouns = 1 .. n /\ nouns = [i \in 1 .. n |-> nouns[i]]

\* A kernel finds at each place what a kernel of as many grafts had there.
LEMMA SlotOfState ==
  ASSUME NEW nouns, NEW n, IsState(nouns, n), NEW i \in 1 .. n
  PROVE  Slot(versioned_state(nouns), i + 1, n + 1) = Some(nouns[i])
<1> DEFINE version == AtomNoun("v1")
           T == {version} \cup {nouns[j] : j \in 1 .. n}
           fields == <<version>> \o nouns
<1>1. n \in Nat /\ nouns \in [1 .. n -> T]
  BY DEF IsState
<1>2. nouns \in Seq(T) /\ Len(nouns) = n /\ version \in T
  <2>1. nouns \in Seq(T)
    BY <1>1
  <2>2. QED  BY <1>1, <2>1
<1> HIDE DEF T, version
<1>3. Len(fields) = n + 1 /\ fields[i + 1] = nouns[i] /\ i + 1 \in 1 .. (n + 1) /\ n + 1 \in Nat
  BY <1>1, <1>2
<1>4. versioned_state(nouns) = Nested(fields)[n + 1]
  BY <1>2 DEF versioned_state, version
<1> HIDE DEF fields
<1>5. QED
  BY <1>3, <1>4, SlotOfNested

OverlayInv ==
  /\ composed \in Compositions /\ IsState(graftNouns, Len(composed))
  /\ \A i \in 1 .. Len(composed) : Fits(composed[i], graftNouns[i])

\* What a kernel of any grafts makes of any noun is a state of theirs.
LEMMA LoadedFits ==
  ASSUME NEW sel \in Compositions, NEW saved
  PROVE  /\ IsState(render_load_defaults_block(sel, saved), Len(sel))
         /\ \A i \in 1 .. Len(sel) : Fits(sel[i], render_load_defaults_block(sel, saved)[i])
<1> DEFINE L == render_load_defaults_block(sel, saved)
<1>1. sel \in Seq(STRING) /\ DOMAIN sel = 1 .. Len(sel) /\ Len(sel) \in Nat
  BY OverlayAssumption
<1>2. L = [i \in 1 .. Len(sel) |->
             IF Probe(sel, i, saved).some THEN Probe(sel, i, saved).is ELSE Default(sel[i])]
  BY <1>1 DEF render_load_defaults_block
<1>3. ASSUME NEW i \in 1 .. Len(sel) PROVE Fits(sel[i], L[i])
  <2>1. CASE Probe(sel, i, saved).some
    <3>1. Fits(sel[i], Probe(sel, i, saved).is)
      BY <2>1 DEF Probe, None
    <3>2. QED  BY <1>2, <2>1, <3>1
  <2>2. CASE ~Probe(sel, i, saved).some
    BY <1>2, <2>2, OverlayAssumption
  <2>3. QED  BY <2>1, <2>2
<1> HIDE DEF L
<1>4. IsState(L, Len(sel))
  BY <1>1, <1>2 DEF IsState
<1>5. QED  BY <1>3, <1>4 DEF L

\* The type of the nouns follows from one step to the next.
LEMMA OverlayInvNext == OverlayInv /\ [OverlayNext]_overlayVars => OverlayInv'
<1> SUFFICES ASSUME OverlayInv, [OverlayNext]_overlayVars
             PROVE  OverlayInv'
  OBVIOUS
<1>1. CASE UNCHANGED overlayVars
  BY <1>1 DEF OverlayInv, overlayVars
<1>2. ASSUME NEW i \in DOMAIN composed, OverlayPoke(i)
      PROVE  OverlayInv'
  <2>1. PICK x \in HeldNouns(composed[i]) : graftNouns' = [graftNouns EXCEPT ![i] = x]
    BY <1>2 DEF OverlayPoke
  <2>2. composed' = composed /\ composed \in Seq(STRING) /\ i \in 1 .. Len(composed)
    BY <1>2, OverlayAssumption DEF OverlayPoke, OverlayInv
  <2>3. Fits(composed[i], x)
    BY <2>1, <2>2, OverlayAssumption DEF OverlayInv
  <2>4. IsState(graftNouns', Len(composed))
    BY <2>1 DEF OverlayInv, IsState
  <2>5. \A j \in 1 .. Len(composed) : graftNouns'[j] = IF j = i THEN x ELSE graftNouns[j]
    BY <2>1 DEF OverlayInv, IsState
  <2>6. QED
    BY <2>2, <2>3, <2>4, <2>5 DEF OverlayInv
<1>3. ASSUME NEW sel \in Compositions, OverlayResume(sel)
      PROVE  OverlayInv'
  <2>1. PICK saved : saved = versioned_state(graftNouns)
    OBVIOUS
  <2>2. composed' = sel /\ graftNouns' = render_load_defaults_block(sel, saved)
    BY <1>3, <2>1 DEF OverlayResume
  <2>3. QED
    BY <2>2, LoadedFits DEF OverlayInv
<1>4. QED
  BY <1>1, <1>2, <1>3 DEF OverlayNext

\* A noun of the types that a composition asks for is loaded by it as it is.
LEMMA LoadKeeps ==
  ASSUME OverlayInv
  PROVE  render_load_defaults_block(composed, versioned_state(graftNouns)) = graftNouns
<1> DEFINE n == Len(composed)
<1>1. IsState(graftNouns, n) /\ DOMAIN composed = 1 .. n /\ n \in Nat
  BY OverlayAssumption DEF OverlayInv
<1>2. PICK saved : saved = versioned_state(graftNouns)
  OBVIOUS
<1>3. ASSUME NEW i \in 1 .. n
      PROVE  Probe(composed, i, saved) = Some(graftNouns[i])
  <2>1. Slot(saved, i + 1, n + 1) = Some(graftNouns[i])
    BY <1>1, <1>2, SlotOfState
  <2>2. Fits(composed[i], graftNouns[i])
    BY DEF OverlayInv
  <2>3. QED
    BY <2>1, <2>2 DEF Probe, Some
<1>4. \A i \in 1 .. n : Probe(composed, i, saved).some /\ Probe(composed, i, saved).is = graftNouns[i]
  BY <1>3 DEF Some
<1>5. render_load_defaults_block(composed, saved) = [i \in 1 .. n |-> graftNouns[i]]
  BY <1>1, <1>4 DEF render_load_defaults_block
<1>6. QED
  BY <1>1, <1>2, <1>5 DEF IsState

\* For kernels of any grafts, in any order, whose types have their defaults: whatever
\* kernels a state came through, each field is of the type of its graft, and a resume
\* into the same composition changes nothing (the overlay of ++load).
THEOREM ResumesKeepTypesCorrect == OverlaySpec => []ResumesKeepTypes
<1>1. OverlayInit => OverlayInv
  <2> SUFFICES ASSUME OverlayInit PROVE OverlayInv
    OBVIOUS
  <2>1. composed \in Compositions /\ composed \in Seq(STRING) /\ graftNouns = FreshNouns(composed)
    BY OverlayAssumption DEF OverlayInit
  <2>2. graftNouns = [i \in 1 .. Len(composed) |-> Default(composed[i])] /\ Len(composed) \in Nat
    BY <2>1 DEF FreshNouns
  <2>3. QED
    BY <2>1, <2>2, OverlayAssumption DEF OverlayInv, IsState
<1>2. OverlayInv => ResumesKeepTypes
  <2>1. OverlayInv => DOMAIN composed = 1 .. Len(composed)
    BY OverlayAssumption DEF OverlayInv
  <2>2. QED
    BY <2>1, LoadKeeps DEF OverlayInv, ResumesKeepTypes
<1>3. QED
  BY <1>1, <1>2, OverlayInvNext, PTL DEF OverlaySpec

-----------------------------------------------------------------------------
(* Types *)

\* The rules are on finitely many tags, so that they can be counted against their cap.
RulesKept == ValidateTypeOK /\ IsFiniteSet(DOMAIN rules)

\* A tag gets its rules only below the cap.
LEMMA InstallKeeps ==
  ASSUME RulesKept, NEW tag \in CauseTags, NEW count \in Nat, Install(tag, count)
  PROVE  RulesKept'
<1>1. /\ rules' = [t \in DOMAIN rules \cup {tag} |-> IF t = tag THEN count ELSE rules[t]]
      /\ count <= RulesPerCauseCap
      /\ tag \in DOMAIN rules \/ Cardinality(DOMAIN rules) < RulesCap
      /\ inits' = inits + 1 /\ ticks' = ticks
      /\ validateEffect' = "validate-rules-installed"
  BY DEF Install
<1>2. DOMAIN rules' = DOMAIN rules \cup {tag}
  BY <1>1
<1>3. /\ IsFiniteSet(DOMAIN rules')
      /\ Cardinality(DOMAIN rules')
           = IF tag \in DOMAIN rules THEN Cardinality(DOMAIN rules) ELSE Cardinality(DOMAIN rules) + 1
  BY <1>2, FS_AddElement DEF RulesKept
<1>4. Cardinality(DOMAIN rules) \in Nat /\ Cardinality(DOMAIN rules) <= RulesCap
  BY FS_CardinalityType DEF RulesKept, ValidateTypeOK
<1>5. Cardinality(DOMAIN rules') <= RulesCap
  BY <1>1, <1>3, <1>4, ValidateAssumption
<1>6. \A t \in DOMAIN rules' : rules'[t] \in 0..RulesPerCauseCap
  BY <1>1, <1>2, ValidateAssumption DEF RulesKept, ValidateTypeOK
<1>7. QED
  BY <1>1, <1>2, <1>3, <1>5, <1>6 DEF RulesKept, ValidateTypeOK

\* Clearing a tag takes it off.
LEMMA ClearKeeps ==
  ASSUME RulesKept, NEW tag, Clear(tag)
  PROVE  RulesKept'
<1>1. /\ rules' = [t \in DOMAIN rules \ {tag} |-> rules[t]]
      /\ inits' = inits /\ ticks' = ticks /\ validateEffect' = "validate-rules-cleared"
  BY DEF Clear
<1>2. DOMAIN rules' = DOMAIN rules \ {tag} /\ DOMAIN rules' \subseteq DOMAIN rules
  BY <1>1
<1>3. /\ IsFiniteSet(DOMAIN rules')
      /\ Cardinality(DOMAIN rules') <= Cardinality(DOMAIN rules)
  BY <1>2, FS_Subset DEF RulesKept
<1>4. Cardinality(DOMAIN rules') \in Nat /\ Cardinality(DOMAIN rules) \in Nat
  BY <1>3, FS_CardinalityType DEF RulesKept
<1>5. \A t \in DOMAIN rules' : rules'[t] \in 0..RulesPerCauseCap
  BY <1>1, <1>2 DEF RulesKept, ValidateTypeOK
<1>6. QED
  BY <1>1, <1>2, <1>3, <1>4, <1>5, ValidateAssumption DEF RulesKept, ValidateTypeOK

\* The table of rules and each tag's list stay within their caps, however rules are
\* installed and cleared, and whatever the rules are on: for all caps and tags.
THEOREM ValidateTypeCorrect == ValidateSpec => []ValidateTypeOK
<1>1. ValidateInit => RulesKept
  <2> SUFFICES ASSUME ValidateInit PROVE RulesKept
    OBVIOUS
  <2>1. rules = [t \in {} |-> 0] /\ ticks = 0 /\ validateEffect = "none" /\ inits = 0
    BY DEF ValidateInit
  <2>2. DOMAIN rules = {}
    BY <2>1
  <2>3. IsFiniteSet(DOMAIN rules) /\ Cardinality(DOMAIN rules) = 0
    BY <2>2, FS_EmptySet
  <2>4. QED
    BY <2>1, <2>2, <2>3, ValidateAssumption DEF RulesKept, ValidateTypeOK
<1>2. RulesKept /\ [ValidateNext]_validateVars => RulesKept'
  <2> SUFFICES ASSUME RulesKept, [ValidateNext]_validateVars PROVE RulesKept'
    OBVIOUS
  <2>1. ASSUME UNCHANGED <<rules, inits>>, ticks' \in Nat,
               validateEffect' \in {"validate-rejected", "validate-error", "clock-ticked", validateEffect}
        PROVE  RulesKept'
    BY <2>1 DEF RulesKept, ValidateTypeOK
  <2>2. ticks \in Nat
    BY DEF RulesKept, ValidateTypeOK
  <2>3. ASSUME NEW tag \in CauseTags, NEW count \in 0..(RulesPerCauseCap + 1),
               Install(tag, count) \/ InstallRefused(tag, count)
        PROVE  RulesKept'
    <3>1. count \in Nat
      BY ValidateAssumption
    <3>2. QED
      BY <2>1, <2>2, <2>3, <3>1, InstallKeeps DEF InstallRefused
  <2>4. ASSUME NEW tag, NEW empty, PreludeRejects(tag, empty) PROVE RulesKept'
    BY <2>1, <2>2, <2>4 DEF PreludeRejects
  <2>5. CASE ClockTick
    BY <2>1, <2>2, <2>5 DEF ClockTick
  <2>6. CASE UNCHANGED validateVars
    BY <2>1, <2>2, <2>6 DEF validateVars
  <2>7. QED
    BY <2>3, <2>4, <2>5, <2>6, ClearKeeps DEF ValidateNext
<1>3. RulesKept => ValidateTypeOK
  BY DEF RulesKept
<1>4. QED
  BY <1>1, <1>2, <1>3, PTL DEF ValidateSpec

\* The types of the SDK's cache and of its registered roots, which stay within their cap.
RootsKept ==
  /\ guardedRoots \subseteq SdkRoots /\ IsFiniteSet(guardedRoots)
  /\ Cardinality(guardedRoots) <= MaxRoots
  /\ sdkReply \in {"none", "registered", "capacity-exceeded", "refused", "settled"}

THEOREM SdkTypeCorrect == SdkSpec => []SdkTypeOK
<1>1. SdkInit => RootsKept
  BY FS_EmptySet, SdkAssumption DEF SdkInit, RootsKept
<1>2. RootsKept /\ [SdkNext]_sdkVars => RootsKept'
  <2> SUFFICES ASSUME RootsKept, [SdkNext]_sdkVars PROVE RootsKept'
    OBVIOUS
  <2>1. ASSUME guardedRoots' = guardedRoots,
               sdkReply' \in {"capacity-exceeded", "refused", "settled", sdkReply}
        PROVE  RootsKept'
    BY <2>1 DEF RootsKept
  <2>2. ASSUME NEW root \in SdkRoots, RegisterRoot(root) PROVE RootsKept'
    <3>1. /\ guardedRoots' = guardedRoots \cup {root} /\ sdkReply' = "registered"
          /\ Cardinality(guardedRoots) < MaxRoots \/ root \in guardedRoots
      BY <2>2 DEF RegisterRoot
    <3>2. /\ IsFiniteSet(guardedRoots')
          /\ Cardinality(guardedRoots')
               = IF root \in guardedRoots THEN Cardinality(guardedRoots) ELSE Cardinality(guardedRoots) + 1
      BY <3>1, FS_AddElement DEF RootsKept
    <3>3. Cardinality(guardedRoots) \in Nat
      BY FS_CardinalityType DEF RootsKept
    <3>4. QED
      BY <3>1, <3>2, <3>3, SdkAssumption DEF RootsKept
  <2>3. CASE SdkRestart
    BY <2>3, FS_EmptySet, SdkAssumption DEF SdkRestart, RootsKept
  <2>4. QED
    BY <2>1, <2>2, <2>3
    DEF SdkNext, sdkVars, RegisterRootRefused, SettleAccepted, SettleRefused
<1>3. CacheInv /\ RootsKept => SdkTypeOK
  BY EntryTyped DEF CacheInv, RootsKept, SdkTypeOK, RemembersNewest
<1>4. SdkSpec => []CacheInv
  BY SdkInitInv, SdkNextInv, PTL DEF SdkSpec
<1>5. QED
  BY <1>1, <1>2, <1>3, <1>4, PTL DEF SdkSpec

\* A snapshot's files hold what a kernel writes, or nothing, or less than it all.
THEOREM CheckpointTypeCorrect == CheckpointSpec => []CheckpointTypeOK
<1> DEFINE FilesTyped == /\ stateJam \in [Dirs -> Kernels \cup {Nothing, Torn}]
                         /\ metaToml \in [Dirs -> Builds \cup {Nothing, Torn}]
<1>1. CheckpointInit => FilesTyped
  BY DEF CheckpointInit
<1>2. CheckpointInv /\ FilesTyped /\ [CheckpointNext]_checkpointVars => FilesTyped'
  <2> SUFFICES ASSUME CheckpointInv, FilesTyped, [CheckpointNext]_checkpointVars PROVE FilesTyped'
    OBVIOUS
  <2>1. saving.at # "idle" => saving.hash \in Builds
    BY DEF CheckpointInv, Idle
  <2>2. saving.at = "writing-state" => app \in Kernels
    BY DEF CheckpointInv, AppIsKernel, Idle
  <2>3. CASE WriteStateBegins
    BY <2>3 DEF WriteStateBegins
  <2>4. CASE WriteStateEnds
    BY <2>2, <2>4 DEF WriteStateEnds
  <2>5. CASE WriteMetaBegins
    BY <2>5 DEF WriteMetaBegins
  <2>6. CASE WriteMetaEnds
    BY <2>1, <2>6 DEF WriteMetaEnds
  <2>7. CASE UNCHANGED <<stateJam, metaToml>>
    BY <2>7
  <2>8. QED
    BY <2>3, <2>4, <2>5, <2>6, <2>7
    DEF CheckpointNext, checkpointVars, filesStay, Rebuild, BootFresh, Poke, Crash, SnapshotFails,
        SnapshotBegins, Resume
<1>3. CheckpointInv /\ FilesTyped => CheckpointTypeOK
  BY DEF CheckpointInv, CheckpointTypeOK, AppIsKernel, Idle
<1> HIDE DEF FilesTyped
<1>4. QED
  BY <1>1, <1>2, <1>3, CheckpointInitInv, CheckpointNextInv, PTL DEF CheckpointSpec

\* The type of what graft-inject keeps.
THEOREM InjectTypeCorrect == InjectSpec => []InjectTypeOK
<1>1. InjectInv => InjectTypeOK
  <2> SUFFICES ASSUME InjectInv PROVE InjectTypeOK
    OBVIOUS
  <2>1. manifests \in [Grafts -> Versions] /\ kernel \in Files
    BY DEF InjectInv
  <2>2. /\ kernel.sections \in [BlockMarkers -> Seq(BlockType)]
        /\ kernel.present \subseteq Markers /\ kernel.own \subseteq Libs
    BY <2>1 DEF Files
  <2>3. ASSUME NEW m \in BlockMarkers, NEW i \in DOMAIN kernel.sections[m]
        PROVE  kernel.sections[m][i] \in BlockType
    <3>1. kernel.sections[m] \in Seq(BlockType)
      BY <2>2
    <3>2. QED
      BY <3>1, EntryTyped
  <2>4. QED
    BY <2>1, <2>2, <2>3 DEF InjectTypeOK
<1>2. QED
  BY <1>1, InjectInvInit, InjectInvNext, PTL DEF InjectSpec

\* Each caller's call is one of the kinds that verify goes through.
LEMMA CallsTyped ==
  ASSUME call \in [Callers -> Calls], now \in Nat, [SiwnNext]_siwnVars
  PROVE  call' \in [Callers -> Calls]
<1>1. NoCall \in Calls
  BY DEF Calls
<1>2. ASSUME NEW c \in Callers, NEW m \in Messages, Check(c, m) PROVE call' \in [Callers -> Calls]
  <2>1. [phase |-> "checked", message |-> m, began |-> now] \in Calls
    BY DEF Calls
  <2>2. QED
    BY <1>2, <2>1 DEF Check
<1>3. ASSUME NEW c \in Callers, Stamp(c) PROVE call' \in [Callers -> Calls]
  <2>1. call[c] \in [phase : {"checked"}, message : Messages, began : Nat]
    BY <1>3 DEF Stamp, Calls, NoCall
  <2>2. [phase |-> "stamped", message |-> call[c].message, began |-> call[c].began, at |-> now] \in Calls
    BY <2>1 DEF Calls
  <2>3. QED
    BY <1>3, <2>2 DEF Stamp
<1>4. ASSUME NEW c \in Callers, Sweep(c) PROVE call' \in [Callers -> Calls]
  <2>1. call[c] \in [phase : {"stamped", "swept"}, message : Messages, began : Nat, at : Nat]
    BY <1>4 DEF Sweep, Calls, NoCall
  <2>2. [call[c] EXCEPT !.phase = "swept"] \in Calls
    BY <2>1 DEF Calls
  <2>3. call' = [call EXCEPT ![c] = [call[c] EXCEPT !.phase = "swept"]]
    BY <1>4 DEF Sweep
  <2>4. QED
    BY <2>2, <2>3
<1>5. ASSUME NEW c \in Callers, RefuseReplay(c) \/ Accept(c) PROVE call' \in [Callers -> Calls]
  BY <1>1, <1>5 DEF RefuseReplay, Accept
<1>6. CASE Tick
  BY <1>6 DEF Tick
<1>7. CASE UNCHANGED siwnVars
  BY <1>7 DEF siwnVars
<1>8. QED
  BY <1>2, <1>3, <1>4, <1>5, <1>6, <1>7 DEF SiwnNext

\* The types of the replay cache: no stamp in it is of the future.
THEOREM SiwnTypeCorrect == SiwnSpec => []SiwnTypeOK
<1> DEFINE Kept == now <= MaxTime /\ call \in [Callers -> Calls]
<1>1. SiwnInit => Kept
  BY Numbers DEF SiwnInit, Calls
<1>2. Timely /\ Kept /\ [SiwnNext]_siwnVars => Kept'
  <2> SUFFICES ASSUME Timely, Kept, [SiwnNext]_siwnVars PROVE Kept'
    OBVIOUS
  <2>1. now \in Nat /\ MaxTime \in Nat
    BY Numbers DEF Timely
  <2>2. now' <= MaxTime
    <3>1. \/ now' = now
          \/ now < MaxTime /\ now' = now + 1
      BY Zenon DEF SiwnNext, siwnVars, Tick, Check, Stamp, Sweep, RefuseReplay, Accept
    <3>2. QED
      BY <2>1, <3>1
  <2>3. QED
    BY <2>1, <2>2, CallsTyped
<1>3. Timely /\ Kept => SiwnTypeOK
  BY Numbers DEF Timely, StampsInTime, SiwnTypeOK
<1> HIDE DEF Kept
<1>4. QED
  BY <1>1, <1>2, <1>3, TimelyInit, TimelyNext, PTL DEF SiwnSpec

=============================================================================
