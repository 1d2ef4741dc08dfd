---------------------------- MODULE EscrowLocks ----------------------------
(***************************************************************************)
(* The locks the SDK builds (vesl-core: job_locks.rs, check_locks.rs and   *)
(* bond_locks.rs), and the life of one note under one of them: an order is *)
(* built or refused, the note lands in a block, keys sign, and a branch    *)
(* whose window is open spends it.                                         *)
(*                                                                         *)
(* Data abstracted: the facts in an address are left out, and with them    *)
(* the branches that burn, which nothing can spend; a transaction is named *)
(* by the branch it is meant for.  A signature covers the outputs and not  *)
(* the branch revealed: anyone may sign any transaction, and a signature   *)
(* counts for every branch that names its key.                             *)
(***************************************************************************)
EXTENDS Naturals, FiniteSets

CONSTANTS Keys, Params,  \* the keys and the numbers an order may name
          Prime,         \* PRIME of the field
          MaxHeight      \* bound of the model: the last block

ASSUME LocksAssumption ==
  /\ Params \subseteq Nat
  /\ Prime \in Nat \ {0}
  /\ MaxHeight \in Nat

VARIABLES order,   \* arguments of the constructor
          status,  \* of the note
          height,  \* of the chain
          since,   \* the note's origin page
          signed,  \* <<k, b>>: k has signed the transaction meant for b
          spend    \* how the note was spent

vars == <<order, status, height, since, signed, spend>>

\* The parties a lock of each kind names.
RolesOf ==
  [ funding  |-> {"buyer", "platform"},
    job      |-> {"buyer", "platform", "provider"},
    provider |-> {"buyer", "platform", "provider"},
    ticket   |-> {"buyer", "platform", "verdict", "checker"},
    vouch    |-> {"buyer", "platform", "verdict", "checker"},
    demand   |-> {"provider", "checker"},
    slice    |-> {"holder", "slasher", "verdict", "platform"},
    held     |-> {"holder"},
    reward   |-> {"verdict"} ]

Kinds == DOMAIN RolesOf

\* d and e are the two numbers of a ticket (report_by, claim_by) and of a vouch
\* note (n_origin, c); the others have one, or none.
Orders ==
  UNION { [kind : {kind}, key : [RolesOf[kind] -> Keys], d : Params,
           e : IF kind \in {"ticket", "vouch"} THEN Params ELSE {0}]
        : kind \in Kinds }

-----------------------------------------------------------------------------
(* Branches *)

\* m of keys, with no window.  A bound of zero is no bound: the chain drops it.
Branch(keys, m) ==
  [keys |-> keys, m |-> m, relMin |-> 0, relMax |-> 0, absMin |-> 0, absMax |-> 0]

Sole(k) == Branch({k}, 1)
Both(j, k) == Branch({j, k}, 2)

\* relative and absolute of the code, with one bound each.
From(b, d) == [b EXCEPT !.relMin = d]
Through(b, d) == [b EXCEPT !.relMax = d]
FromHeight(b, h) == [b EXCEPT !.absMin = h]
ThroughHeight(b, h) == [b EXCEPT !.absMax = h]

\* branch_window_open: both ends of a window are inclusive.
WindowOpen(b, origin, now) ==
  /\ b.relMin # 0 => now >= origin + b.relMin
  /\ b.relMax # 0 => now <= origin + b.relMax
  /\ b.absMin # 0 => now >= b.absMin
  /\ b.absMax # 0 => now <= b.absMax

-----------------------------------------------------------------------------
(* The constructors: the branches that can be spent, by name *)

FundingLock(o) ==
  [ FAST    |-> Both(o.key["buyer"], o.key["platform"]),
    RECOVER |-> From(Sole(o.key["buyer"]), o.d) ]

\* Wrong variant of JobLock: RECOVER needs the platform too.
JobLockNeedsPlatform(o) ==
  [ CAPTURE |-> Through(Both(o.key["platform"], o.key["provider"]), o.d),
    FAST    |-> Both(o.key["buyer"], o.key["platform"]),
    RECOVER |-> From(Both(o.key["buyer"], o.key["platform"]), o.d + 1) ]

JobLock(o) ==
  [ CAPTURE |-> Through(Both(o.key["platform"], o.key["provider"]), o.d),
    FAST    |-> Both(o.key["buyer"], o.key["platform"]),
    RECOVER |-> From(Sole(o.key["buyer"]), o.d + 1) ]

ProviderLock(o) ==
  [ PAY      |-> From(Sole(o.key["provider"]), o.d),
    CLAWBACK |-> Through(Both(o.key["buyer"], o.key["platform"]), o.d - 1) ]

TicketLock(o) ==
  [ CAPTURE_CLEAN |-> ThroughHeight(Both(o.key["platform"], o.key["checker"]), o.d),
    CLAIM         |-> ThroughHeight(Both(o.key["verdict"], o.key["checker"]), o.e),
    RETURN        |-> FromHeight(Sole(o.key["buyer"]), o.d + 1) ]

VouchLock(o) ==
  [ PAY      |-> FromHeight(Sole(o.key["checker"]), o.d + o.e),
    CLAWBACK |-> ThroughHeight(Both(o.key["buyer"], o.key["platform"]), o.d + o.e - 1) ]

DemandLock(o) ==
  [ ANSWER  |-> Through(Sole(o.key["provider"]), o.d),
    EXPIRED |-> From(Sole(o.key["checker"]), o.d + 1) ]

\* Wrong variant of SliceLock: the holder has no key for slashes alone.
SliceLockOneKey(o) ==
  [ SLASH    |-> Both(o.key["holder"], o.key["verdict"]),
    EXIT     |-> Both(o.key["holder"], o.key["platform"]),
    FALLBACK |-> From(Sole(o.key["holder"]), o.d) ]

SliceLock(o) ==
  [ SLASH    |-> Both(o.key["slasher"], o.key["verdict"]),
    EXIT     |-> Both(o.key["holder"], o.key["platform"]),
    FALLBACK |-> From(Sole(o.key["holder"]), o.d) ]

HeldLock(o) == [ RELEASE |-> From(Sole(o.key["holder"]), o.d) ]

RewardLock(o) == [ PAY |-> Sole(o.key["verdict"]) ]

Lock(o) ==
  CASE o.kind = "funding"  -> FundingLock(o)
    [] o.kind = "job"      -> JobLock(o)
    [] o.kind = "provider" -> ProviderLock(o)
    [] o.kind = "ticket"   -> TicketLock(o)
    [] o.kind = "vouch"    -> VouchLock(o)
    [] o.kind = "demand"   -> DemandLock(o)
    [] o.kind = "slice"    -> SliceLock(o)
    [] o.kind = "held"     -> HeldLock(o)
    [] o.kind = "reward"   -> RewardLock(o)

-----------------------------------------------------------------------------
(* What the constructors refuse *)

\* Two parties with one key.
KeysCollide(o) ==
  \E r, s \in RolesOf[o.kind] : r # s /\ o.key[r] = o.key[s]

\* refuse_zero_window, refuse_zero_height: zero would be dropped by the chain.
NoWindow(d) == d = 0 \/ d >= Prime

\* The deadline leaves no block for the branch that follows it.
NoBlockAfter(d) == NoWindow(d) \/ d + 1 >= Prime

OperandsRefused(o) ==
  \/ o.kind \in {"funding", "slice", "held"} /\ NoWindow(o.d)
  \/ o.kind \in {"job", "demand"} /\ NoBlockAfter(o.d)
  \/ o.kind = "provider" /\ (o.d < 2 \/ o.d >= Prime)
  \/ o.kind = "ticket" /\ (NoBlockAfter(o.d) \/ NoWindow(o.e) \/ o.e <= o.d)
  \/ o.kind = "vouch" /\ (o.e < 2 \/ o.d + o.e >= Prime)

Refused(o) == KeysCollide(o) \/ OperandsRefused(o)

-----------------------------------------------------------------------------
(* The life of a note *)

Branches == DOMAIN Lock(order)
NoSpend == [via |-> "none"]

Init ==
  /\ order \in Orders
  /\ status = "asked"
  /\ height = 0
  /\ since = 0
  /\ signed = {}
  /\ spend = NoSpend

Build ==
  /\ status = "asked"
  /\ status' = IF Refused(order) THEN "refused" ELSE "built"
  /\ UNCHANGED <<order, height, since, signed, spend>>

\* The transaction that pays into the lock is mined.  The guard on the height
\* is a bound of the model: every deadline of the note lies before MaxHeight.
Land ==
  /\ status = "built"
  /\ height + Prime <= MaxHeight
  /\ status' = "landed"
  /\ since' = height
  /\ UNCHANGED <<order, height, signed, spend>>

Tick ==
  /\ status \in {"built", "landed"}
  /\ height < MaxHeight
  /\ height' = height + 1
  /\ UNCHANGED <<order, status, since, signed, spend>>

\* cosign: any key signs any digest, whatever branches of the note name it.  A digest
\* covers the name of the note, which it has once it landed.
Sign(k, b) ==
  /\ status = "landed"
  /\ signed' = signed \cup {<<k, b>>}
  /\ UNCHANGED <<order, status, height, since, spend>>

\* build_branch_witness_from_parts: exactly m signatures, by keys the revealed
\* branch names, over one transaction.
Witness(keys, via, agreed) ==
  /\ keys \subseteq Lock(order)[via].keys
  /\ Cardinality(keys) = Lock(order)[via].m
  /\ \A k \in keys : <<k, agreed>> \in signed

\* The transaction meant for one branch is mined by way of another or the same.
Spend(keys, via, agreed) ==
  /\ status = "landed"
  /\ Witness(keys, via, agreed)
  /\ WindowOpen(Lock(order)[via], since, height)
  /\ status' = "spent"
  /\ spend' = [via |-> via, agreed |-> agreed, by |-> keys, at |-> height]
  /\ UNCHANGED <<order, height, since, signed>>

Next ==
  \/ Build
  \/ Land
  \/ Tick
  \/ \E k \in Keys, b \in Branches : Sign(k, b)
  \/ \E via, agreed \in Branches :
       \E keys \in SUBSET Lock(order)[via].keys : Spend(keys, via, agreed)

\* The branch by which the note's owner takes it alone in the end.
OwnBranch ==
  [ funding |-> "RECOVER", job |-> "RECOVER", provider |-> "PAY",
    ticket |-> "RETURN", vouch |-> "PAY", demand |-> "EXPIRED",
    slice |-> "FALLBACK", held |-> "RELEASE", reward |-> "PAY" ]

OwnerSigns ==
  LET own == OwnBranch[order.kind] IN
    \E k \in Lock(order)[own].keys : <<k, own>> \notin signed /\ Sign(k, own)

OwnerSpends ==
  LET own == OwnBranch[order.kind] IN \E k \in Keys : Spend({k}, own, own)

\* Blocks are mined and the owner acts; of every other party nothing is assumed.
Fairness == WF_vars(Tick) /\ WF_vars(OwnerSigns) /\ WF_vars(OwnerSpends)

Spec == Init /\ [][Next]_vars /\ Fairness

-----------------------------------------------------------------------------
(* Properties *)

\* Each bound of a lock that was built is a field element, as the address needs.
Bounds(b) == {b.relMin, b.relMax, b.absMin, b.absMax}

TypeOK ==
  /\ order \in Orders
  /\ status \in {"asked", "refused", "built", "landed", "spent"}
  /\ height \in Nat /\ since \in Nat /\ since <= height
  /\ signed \subseteq Keys \X Branches
  /\ status # "spent" => spend = NoSpend
  /\ status = "spent" =>
       spend \in [via : Branches, agreed : Branches, by : SUBSET Keys, at : Nat]
  /\ status \notin {"asked", "refused"} =>
       \A b \in Branches : \A x \in Bounds(Lock(order)[b]) : x \in Nat /\ x < Prime

\* The two branches of a note whose windows meet: the first closes as the second
\* opens.
Handover ==
  [ job |-> <<"CAPTURE", "RECOVER">>, provider |-> <<"CLAWBACK", "PAY">>,
    ticket |-> <<"CAPTURE_CLEAN", "RETURN">>, vouch |-> <<"CLAWBACK", "PAY">>,
    demand |-> <<"ANSWER", "EXPIRED">> ]

Open(b) == WindowOpen(Lock(order)[b], since, height)

\* At every height one of the two is open and not the other, whatever deadline
\* was accepted and whenever the note landed: no gap and no overlap.
WindowsMeet ==
  status = "landed" /\ order.kind \in DOMAIN Handover =>
    Open(Handover[order.kind][1]) # Open(Handover[order.kind][2])

\* The keys of the branch that the spent transaction was meant for.
Parties == Lock(order)[spend.agreed].keys

\* Signatures do not say which branch they are for: still, by nobody's signatures but
\* theirs is a transaction mined outside of its branch's window.
WindowsBind ==
  status = "spent" /\ spend.by \subseteq Parties =>
    WindowOpen(Lock(order)[spend.agreed], since, spend.at)

\* It takes them all: by some of them alone it is not mined by way of another branch.
\* FAST and EXIT are excepted: their owner may do the same alone later.
AgreedByAll ==
  status = "spent" /\ spend.by \subseteq Parties =>
    \/ spend.by = Parties
    \/ /\ spend.agreed \in {"FAST", "EXIT"}
       /\ spend.via = OwnBranch[order.kind]

\* The branches of one lock with a party in common.
Shared ==
  [ funding |-> {{"FAST", "RECOVER"}},
    job     |-> {{"FAST", "RECOVER"}, {"CAPTURE", "FAST"}},
    ticket  |-> {{"CAPTURE_CLEAN", "CLAIM"}},
    slice   |-> {{"EXIT", "FALLBACK"}} ]

\* Whoever else signs what a party signed for one branch, that signature is of no use
\* in a branch beyond these: a stored slash signature completes no exit and no fallback.
SignaturesStay ==
  status = "spent" /\ spend.by \cap Parties # {} /\ spend.via # spend.agreed =>
    /\ order.kind \in DOMAIN Shared
    /\ {spend.via, spend.agreed} \in Shared[order.kind]

\* So a co-signed agreement is what happens to the note, and in its time, unless somebody
\* it does not name signs it too: no height lets both parties of a hand-over spend or
\* neither, no pair's signatures serve another pair's branch, and no one signature serves
\* a branch that has no party in common with the one it was given for.
LocksBind == WindowsMeet /\ WindowsBind /\ AgreedByAll /\ SignaturesStay

\* Nobody's absence strands a note: its owner alone gets it spent in the end.
NotStranded == (status = "landed") ~> (status = "spent")

=============================================================================
