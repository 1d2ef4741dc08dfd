------------------------- MODULE SettleGraftProofs -------------------------
(***************************************************************************)
(* Theorems about the settle graft for every epoch cap, registry cap, gate *)
(* and set of ids, and their proofs.                                       *)
(*                                                                         *)
(* The argument: a step either changes nothing but the effects, commits    *)
(* one root, or settles one note (StepShape).  TypeOK /\ EpochAccounting   *)
(* is inductive by itself; SetsAreHistory is inductive with it and says    *)
(* which notes of the history the two replay sets hold, which gives        *)
(* ReplayWindow and the refinement of SettlementLedger.                    *)
(***************************************************************************)
EXTENDS SettleGraft, FiniteSetTheorems, TLAPS

\* Every step is a refusal or a stutter, one registration, or one settlement.
LEMMA StepShape ==
  ASSUME [Next]_vars
  PROVE  \/ UNCHANGED <<graftState, history>>
         \/ \E h \in Hulls, r \in Roots : SettleRegisterAccepted(h, r)
         \/ \E p \in Payloads : SettleNoteAccepted(p)
<1>1. ASSUME NEW h \in Hulls, NEW r \in Roots, SettleRegister(h, r)
      PROVE  \/ UNCHANGED <<graftState, history>>
             \/ SettleRegisterAccepted(h, r)
  BY <1>1 DEF SettleRegister, SettleRegisterRefused, Refuse
<1>2. ASSUME NEW p \in Payloads, SettleNote(p)
      PROVE  \/ UNCHANGED <<graftState, history>>
             \/ SettleNoteAccepted(p)
  BY <1>2 DEF SettleNote, SettleNoteRefused, SettleNoteDenied, Refuse
<1>3. CASE SettleNoteMalformed \/ SettleVerifyMalformed
  BY <1>3 DEF SettleNoteMalformed, SettleVerifyMalformed, Refuse
<1>4. ASSUME NEW p \in Payloads, SettleVerify(p)
      PROVE  UNCHANGED <<graftState, history>>
  BY <1>4 DEF SettleVerify, Refuse
<1>5. CASE UNCHANGED vars
  BY <1>5 DEF vars
<1>6. QED
  BY <1>1, <1>2, <1>3, <1>4, <1>5 DEF Next

\* The effects are always a sequence of known tags, whatever the poke.
LEMMA EffectsTyped ==
  ASSUME TypeOK, [Next]_vars
  PROVE  effects' \in Seq(EffectTags)
<1> DEFINE Tags == EffectTags
<1> SUFFICES effects' \in Seq(Tags)
  OBVIOUS
<1>0. /\ {"settle-registered", "settle-noted", "settle-epoch-rotated"} \subseteq Tags
      /\ {"settle-error", "settle-denied", "settle-register-rejected"} \subseteq Tags
      /\ {"settle-verified-yes", "settle-verified-no"} \subseteq Tags
  BY DEF EffectTags
<1> HIDE DEF Tags
<1>1. ASSUME NEW t \in Tags, Refuse(t)
      PROVE  effects' \in Seq(Tags)
  BY <1>1 DEF Refuse
<1>2. ASSUME NEW h \in Hulls, NEW r \in Roots, SettleRegister(h, r)
      PROVE  effects' \in Seq(Tags)
  <2>1. CASE SettleRegisterRefused(h)
    BY <1>0, <1>1, <2>1 DEF SettleRegisterRefused
  <2>2. CASE SettleRegisterAccepted(h, r)
    BY <1>0, <2>2 DEF SettleRegisterAccepted
  <2>3. QED
    BY <1>2, <2>1, <2>2 DEF SettleRegister
<1>3. ASSUME NEW p \in Payloads, SettleNote(p)
      PROVE  effects' \in Seq(Tags)
  <2>1. CASE SettleNoteRefused(p) \/ SettleNoteDenied(p)
    BY <1>0, <1>1, <2>1 DEF SettleNoteRefused, SettleNoteDenied
  <2>2. CASE SettleNoteAccepted(p) /\ SettleInEpoch(p)
    BY <1>0, <2>2 DEF SettleInEpoch
  <2>3. CASE SettleNoteAccepted(p) /\ RotateAndSettle(p)
    BY <1>0, <2>3 DEF RotateAndSettle
  <2>4. QED
    BY <1>3, <2>1, <2>2, <2>3 DEF SettleNote, SettleNoteAccepted
<1>4. CASE SettleNoteMalformed \/ SettleVerifyMalformed
  BY <1>0, <1>1, <1>4 DEF SettleNoteMalformed, SettleVerifyMalformed
<1>5. ASSUME NEW p \in Payloads, SettleVerify(p)
      PROVE  effects' \in Seq(Tags)
  BY <1>0, <1>1, <1>5 DEF SettleVerify
<1>6. CASE UNCHANGED vars
  BY <1>6 DEF vars, TypeOK, Tags
<1>7. QED
  BY <1>2, <1>3, <1>4, <1>5, <1>6 DEF Next, Tags

-----------------------------------------------------------------------------

\* Type correctness of the graft's state, its effects and the history.
THEOREM TypeCorrect == Spec => []TypeOK
<1>1. Init => TypeOK
  BY DEF Init, TypeOK
<1>2. TypeOK /\ [Next]_vars => TypeOK'
  <2> SUFFICES ASSUME TypeOK, [Next]_vars
               PROVE  TypeOK'
    OBVIOUS
  <2>1. CASE UNCHANGED <<graftState, history>>
    BY <2>1, EffectsTyped DEF TypeOK, graftState
  <2>2. ASSUME NEW h \in Hulls, NEW r \in Roots, SettleRegisterAccepted(h, r)
        PROVE  TypeOK'
    BY <2>2, EffectsTyped DEF TypeOK, SettleRegisterAccepted
  <2>3. ASSUME NEW p \in Payloads, SettleNoteAccepted(p)
        PROVE  TypeOK'
    <3>1. p.id \in Ids /\ [id |-> p.id, hull |-> p.hull, root |-> p.root] \in Notes
      BY DEF Payloads, Notes
    <3>2. history' \in Seq(Notes)
      BY <2>3, <3>1 DEF TypeOK, SettleNoteAccepted
    <3>3. CASE SettleInEpoch(p)
      BY <2>3, <3>1, <3>2, <3>3, EffectsTyped
      DEF TypeOK, SettleNoteAccepted, SettleInEpoch
    <3>4. CASE RotateAndSettle(p)
      BY <2>3, <3>1, <3>2, <3>4, EffectsTyped
      DEF TypeOK, SettleNoteAccepted, RotateAndSettle
    <3>5. QED
      BY <2>3, <3>3, <3>4 DEF SettleNoteAccepted
  <2>4. QED
    BY <2>1, <2>2, <2>3, StepShape
<1>3. QED
  BY <1>1, <1>2, PTL DEF Spec

\* The counter is the size of the current set, never above the cap, and a
\* rotation always hands a full epoch over to prior-settled.
THEOREM EpochAccountingCorrect == Spec => []EpochAccounting
<1>1. Init => EpochAccounting
  BY FS_EmptySet, ConstantsAssumption DEF Init, EpochAccounting
<1>2. TypeOK /\ EpochAccounting /\ [Next]_vars => EpochAccounting'
  <2> SUFFICES ASSUME TypeOK, EpochAccounting, [Next]_vars
               PROVE  EpochAccounting'
    OBVIOUS
  <2> USE ConstantsAssumption DEF EpochAccounting, TypeOK
  <2>1. CASE UNCHANGED <<graftState, history>>
    BY <2>1 DEF graftState
  <2>2. ASSUME NEW h \in Hulls, NEW r \in Roots, SettleRegisterAccepted(h, r)
        PROVE  EpochAccounting'
    BY <2>2 DEF SettleRegisterAccepted
  <2>3. ASSUME NEW p \in Payloads, SettleNoteAccepted(p)
        PROVE  EpochAccounting'
    <3>1. p.id \notin settled /\ p.id \notin priorSettled
      BY <2>3 DEF SettleNoteAccepted, Replayed
    <3>2. CASE settleCount >= EpochCap
      <4>1. RotateAndSettle(p)
        BY <2>3, <3>2 DEF SettleNoteAccepted
      <4>2. IsFiniteSet({p.id}) /\ Cardinality({p.id}) = 1
        BY FS_Singleton
      <4>3. QED
        BY <3>1, <3>2, <4>1, <4>2 DEF RotateAndSettle
    <3>3. CASE settleCount < EpochCap
      <4>1. SettleInEpoch(p)
        BY <2>3, <3>3 DEF SettleNoteAccepted
      <4>2. /\ IsFiniteSet(settled \cup {p.id})
            /\ Cardinality(settled \cup {p.id}) = Cardinality(settled) + 1
        BY <3>1, FS_AddElement
      <4>3. QED
        BY <3>1, <3>3, <4>1, <4>2 DEF SettleInEpoch
    <3>4. QED
      BY <3>2, <3>3
  <2>4. QED
    BY <2>1, <2>2, <2>3, StepShape
<1>3. QED
  BY <1>1, <1>2, TypeCorrect, PTL DEF Spec

-----------------------------------------------------------------------------

\* What an accepted settlement does to the history and to the replay sets.
LEMMA AcceptedStep ==
  ASSUME TypeOK, NEW p \in Payloads, SettleNoteAccepted(p)
  PROVE  /\ Len(history') = Len(history) + 1
         /\ history' \in Seq(Notes)
         /\ \A k \in 1..Len(history) : history'[k] = history[k]
         /\ history'[Len(history) + 1].id = p.id
         /\ history'[Len(history) + 1].hull = p.hull
         /\ history'[Len(history) + 1].root = p.root
<1>1. [id |-> p.id, hull |-> p.hull, root |-> p.root] \in Notes
  BY DEF Payloads, Notes
<1>2. QED
  BY <1>1 DEF TypeOK, SettleNoteAccepted

\* The current set holds the ids of the last settle-count notes, the prior set
\* those of the EpochCap notes before them.
THEOREM SetsAreHistoryCorrect == Spec => []SetsAreHistory
<1> USE ConstantsAssumption
<1>1. Init => SetsAreHistory
  BY DEF Init, SetsAreHistory, IdsBetween
<1>2. TypeOK /\ EpochAccounting /\ SetsAreHistory /\ [Next]_vars => SetsAreHistory'
  <2> SUFFICES ASSUME TypeOK, EpochAccounting, SetsAreHistory, [Next]_vars
               PROVE  SetsAreHistory'
    OBVIOUS
  <2>1. CASE UNCHANGED <<graftState, history>>
    BY <2>1 DEF graftState, SetsAreHistory, IdsBetween
  <2>2. ASSUME NEW h \in Hulls, NEW r \in Roots, SettleRegisterAccepted(h, r)
        PROVE  SetsAreHistory'
    BY <2>2 DEF SettleRegisterAccepted, SetsAreHistory, IdsBetween
  <2>3. ASSUME NEW p \in Payloads, SettleNoteAccepted(p)
        PROVE  SetsAreHistory'
    <3> DEFINE n == Len(history)
               c == settleCount
    <3>1. n \in Nat /\ c \in Nat /\ epoch \in Nat /\ c <= n
      BY DEF TypeOK, SetsAreHistory
    <3>2. /\ Len(history') = n + 1
          /\ history'[n + 1].id = p.id
          /\ \A k \in 1..n : history'[k] = history[k]
      BY <2>3, AcceptedStep
    <3>3. ASSUME NEW lo \in Int, NEW hi \in Int, lo >= 1, hi <= n
          PROVE  IdsBetween(history', lo, hi) = IdsBetween(history, lo, hi)
      BY <3>1, <3>2, <3>3 DEF IdsBetween
    <3>4. settled = IdsBetween(history, n - c + 1, n)
      BY DEF SetsAreHistory
    <3>5. CASE c >= EpochCap
      <4>1. /\ epoch' = epoch + 1 /\ settleCount' = 1
            /\ priorSettled' = settled /\ settled' = {p.id}
        BY <2>3, <3>5 DEF SettleNoteAccepted, RotateAndSettle
      <4>2. c = EpochCap
        BY <3>1, <3>5 DEF EpochAccounting
      <4>3. settled' = IdsBetween(history', n + 1, n + 1)
        BY <3>1, <3>2, <4>1 DEF IdsBetween
      <4>4. priorSettled' = IdsBetween(history', n - EpochCap + 1, n)
        BY <3>1, <3>3, <3>4, <4>1, <4>2
      <4>5. QED
        BY <3>1, <3>2, <4>1, <4>2, <4>3, <4>4 DEF SetsAreHistory
    <3>6. CASE c < EpochCap
      <4>1. /\ epoch' = epoch /\ settleCount' = c + 1
            /\ priorSettled' = priorSettled /\ settled' = settled \cup {p.id}
        BY <2>3, <3>1, <3>6 DEF SettleNoteAccepted, SettleInEpoch
      <4>2. IdsBetween(history', n - c + 1, n) = IdsBetween(history, n - c + 1, n)
        BY <3>1, <3>3
      <4>3. IdsBetween(history', n - c + 1, n + 1) = IdsBetween(history', n - c + 1, n) \cup {p.id}
        BY <3>1, <3>2 DEF IdsBetween
      <4>4. settled' = IdsBetween(history', n - c + 1, n + 1)
        BY <3>4, <4>1, <4>2, <4>3
      <4>5. epoch > 0 =>
              priorSettled' = IdsBetween(history', n - c - EpochCap + 1, n - c)
        BY <3>1, <3>3, <4>1 DEF SetsAreHistory
      <4>6. QED
        BY <3>1, <3>2, <4>1, <4>4, <4>5 DEF SetsAreHistory
    <3>7. QED
      BY <3>1, <3>5, <3>6
  <2>4. QED
    BY <2>1, <2>2, <2>3, StepShape
<1>3. QED
  BY <1>1, <1>2, TypeCorrect, EpochAccountingCorrect, PTL DEF Spec

\* An id the guard lets through is not the id of any of the last EpochCap + 1
\* notes: the two sets cover at least that many.
LEMMA AcceptedIsFresh ==
  ASSUME TypeOK, SetsAreHistory, NEW p \in Payloads, ~Replayed(p),
         NEW i \in 1..Len(history), history[i].id = p.id
  PROVE  Len(history) + 1 - i > EpochCap + 1
<1> USE ConstantsAssumption
<1> DEFINE n == Len(history)
           c == settleCount
<1>1. n \in Nat /\ c \in Nat /\ epoch \in Nat /\ c <= n
  BY DEF TypeOK, SetsAreHistory
<1>2. i \notin (n - c + 1)..n
  BY <1>1 DEF SetsAreHistory, IdsBetween, Replayed
<1>3. CASE epoch = 0
  BY <1>1, <1>2, <1>3 DEF SetsAreHistory
<1>4. CASE epoch > 0
  <2>1. i \notin (n - c - EpochCap + 1)..(n - c)
    BY <1>1, <1>4 DEF SetsAreHistory, IdsBetween, Replayed
  <2>2. c >= 1
    BY <1>4 DEF SetsAreHistory
  <2>3. QED
    BY <1>1, <1>2, <2>1, <2>2
<1>5. QED
  BY <1>1, <1>3, <1>4

\* No id settles twice among EpochCap + 2 consecutive settlements, whatever the
\* pokes between them and however many epochs they span.
THEOREM ReplayWindowCorrect == Spec => []ReplayWindow
<1>1. Init => ReplayWindow
  BY DEF Init, ReplayWindow
<1>2. TypeOK /\ SetsAreHistory /\ ReplayWindow /\ [Next]_vars => ReplayWindow'
  <2> SUFFICES ASSUME TypeOK, SetsAreHistory, ReplayWindow, [Next]_vars
               PROVE  ReplayWindow'
    OBVIOUS
  <2>1. CASE UNCHANGED <<graftState, history>>
    BY <2>1 DEF ReplayWindow
  <2>2. ASSUME NEW h \in Hulls, NEW r \in Roots, SettleRegisterAccepted(h, r)
        PROVE  ReplayWindow'
    BY <2>2 DEF SettleRegisterAccepted, ReplayWindow
  <2>3. ASSUME NEW p \in Payloads, SettleNoteAccepted(p)
        PROVE  ReplayWindow'
    <3>1. Len(history) \in Nat
      BY DEF TypeOK
    <3>2. ~Replayed(p)
      BY <2>3 DEF SettleNoteAccepted
    <3>3. SUFFICES ASSUME NEW i \in 1..Len(history'), NEW j \in 1..Len(history'),
                          i < j, history'[i].id = history'[j].id
                   PROVE  j - i > EpochCap + 1
      BY DEF ReplayWindow
    <3>4. CASE j <= Len(history)
      BY <2>3, <3>1, <3>3, <3>4, AcceptedStep DEF ReplayWindow
    <3>5. CASE j = Len(history) + 1
      <4>1. i \in 1..Len(history) /\ history[i].id = p.id
        BY <2>3, <3>1, <3>3, <3>5, AcceptedStep
      <4>2. QED
        BY <3>2, <3>5, <4>1, AcceptedIsFresh
    <3>6. QED
      BY <2>3, <3>1, <3>4, <3>5, AcceptedStep
  <2>4. QED
    BY <2>1, <2>2, <2>3, StepShape
<1>3. QED
  BY <1>1, <1>2, TypeCorrect, SetsAreHistoryCorrect, PTL DEF Spec

\* The replay sets never remember more than the last 2 * EpochCap notes.
THEOREM ReplayMemoryBoundedCorrect == Spec => []ReplayMemoryBounded
<1>1. TypeOK /\ EpochAccounting /\ SetsAreHistory => ReplayMemoryBounded
  <2> SUFFICES ASSUME TypeOK, EpochAccounting, SetsAreHistory,
                      NEW id \in settled \cup priorSettled
               PROVE  \E k \in 1..Len(history) :
                        history[k].id = id /\ Len(history) - k < 2 * EpochCap
    BY DEF ReplayMemoryBounded
  <2> USE ConstantsAssumption
  <2> DEFINE n == Len(history)
             c == settleCount
  <2>1. n \in Nat /\ c \in Nat /\ epoch \in Nat /\ c <= n /\ c <= EpochCap
    BY DEF TypeOK, SetsAreHistory, EpochAccounting
  <2>2. CASE id \in settled
    <3>1. PICK k \in (n - c + 1)..n : history[k].id = id
      BY <2>2 DEF SetsAreHistory, IdsBetween
    <3>2. QED
      BY <2>1, <3>1
  <2>3. CASE id \in priorSettled
    <3>1. epoch > 0 /\ c + EpochCap <= n
      BY <2>1, <2>3 DEF SetsAreHistory
    <3>2. PICK k \in (n - c - EpochCap + 1)..(n - c) : history[k].id = id
      BY <2>3, <3>1 DEF SetsAreHistory, IdsBetween
    <3>3. QED
      BY <2>1, <3>1, <3>2
  <2>4. QED
    BY <2>2, <2>3
<1>2. QED
  BY <1>1, TypeCorrect, EpochAccountingCorrect, SetsAreHistoryCorrect, PTL

\* A settled note keeps agreeing with its hull's root, and some data was
\* approved for it, for ever.
THEOREM SettledUnderCommittedRootCorrect == Spec => []SettledUnderCommittedRoot
<1>1. Init => SettledUnderCommittedRoot
  BY DEF Init, SettledUnderCommittedRoot
<1>2. TypeOK /\ SettledUnderCommittedRoot /\ [Next]_vars
        => SettledUnderCommittedRoot'
  <2> SUFFICES ASSUME TypeOK, SettledUnderCommittedRoot, [Next]_vars
               PROVE  SettledUnderCommittedRoot'
    OBVIOUS
  <2>1. CASE UNCHANGED <<graftState, history>>
    BY <2>1 DEF graftState, SettledUnderCommittedRoot
  <2>2. ASSUME NEW h \in Hulls, NEW r \in Roots, SettleRegisterAccepted(h, r)
        PROVE  SettledUnderCommittedRoot'
    <3> SUFFICES ASSUME NEW k \in 1..Len(history)
                 PROVE  registered'[history[k].hull] = registered[history[k].hull]
      BY <2>2 DEF SettleRegisterAccepted, SettledUnderCommittedRoot
    <3>1. history[k].hull \in Hulls /\ history[k].root \in Roots
      <4>1. history[k] \in Notes
        BY DEF TypeOK
      <4>2. QED
        BY <4>1 DEF Notes
    <3>2. history[k].root = registered[history[k].hull]
      BY DEF SettledUnderCommittedRoot
    <3>3. history[k].hull # h
      BY <2>2, <3>1, <3>2, ConstantsAssumption DEF SettleRegisterAccepted
    <3>4. QED
      BY <2>2, <3>1, <3>3 DEF SettleRegisterAccepted, TypeOK
  <2>3. ASSUME NEW p \in Payloads, SettleNoteAccepted(p)
        PROVE  SettledUnderCommittedRoot'
    <3>1. /\ registered' = registered
          /\ p.root = registered[p.hull] /\ p.expected = p.root
          /\ Gate(p.id, p.data, p.root) = "yes"
      BY <2>3 DEF SettleNoteAccepted, RootBound, Verdict
    <3>2. p.data \in Data
      BY DEF Payloads
    <3>3. SUFFICES ASSUME NEW k \in 1..Len(history')
                   PROVE  /\ history'[k].root = registered'[history'[k].hull]
                          /\ \E d \in Data :
                               Gate(history'[k].id, d, history'[k].root) = "yes"
      BY DEF SettledUnderCommittedRoot
    <3>4. CASE k \in 1..Len(history)
      BY <2>3, <3>1, <3>4, AcceptedStep DEF SettledUnderCommittedRoot
    <3>5. CASE k = Len(history) + 1
      BY <2>3, <3>1, <3>2, <3>5, AcceptedStep
    <3>6. QED
      BY <2>3, <3>4, <3>5, AcceptedStep DEF TypeOK
  <2>4. QED
    BY <2>1, <2>2, <2>3, StepShape
<1>3. QED
  BY <1>1, <1>2, TypeCorrect, PTL DEF Spec

\* What the settle graft says of the past is so: its replay sets are the recent past,
\* no id settles twice within it, and each settled note is still under its root.
THEOREM HistorySoundCorrect == Spec => []HistorySound
<1>1. SetsAreHistory /\ ReplayWindow /\ SettledUnderCommittedRoot => HistorySound
  BY DEF HistorySound
<1>2. QED
  BY <1>1, SetsAreHistoryCorrect, ReplayWindowCorrect, SettledUnderCommittedRootCorrect, PTL

\* The graft implements the ledger: a step of the graft is a commitment, an
\* append of a fresh note under its hull's root, or a stutter.
THEOREM ImplementsLedgerCorrect == Spec => ImplementsLedger
<1>1. Init => Ledger!Init
  BY DEF Init, Ledger!Init
<1>2. TypeOK /\ SetsAreHistory /\ [Next]_vars => [Ledger!Next]_(Ledger!vars)
  <2> SUFFICES ASSUME TypeOK, SetsAreHistory, [Next]_vars
               PROVE  [Ledger!Next]_(Ledger!vars)
    OBVIOUS
  <2>1. CASE UNCHANGED <<graftState, history>>
    BY <2>1 DEF graftState, Ledger!vars
  <2>2. ASSUME NEW h \in Hulls, NEW r \in Roots, SettleRegisterAccepted(h, r)
        PROVE  Ledger!Next
    BY <2>2 DEF SettleRegisterAccepted, Ledger!Next, Ledger!Commit
  <2>3. ASSUME NEW p \in Payloads, SettleNoteAccepted(p)
        PROVE  Ledger!Next
    <3> DEFINE n == [id |-> p.id, hull |-> p.hull, root |-> p.root]
    <3>1. n \in Ledger!Notes
      BY DEF Payloads, Ledger!Notes
    <3>2. Ledger!Fresh(n.id, Len(history) + 1)
      BY <2>3, AcceptedIsFresh DEF Ledger!Fresh, SettleNoteAccepted
    <3>3. Ledger!Append1(n)
      BY <2>3, <3>2 DEF Ledger!Append1, SettleNoteAccepted, RootBound
    <3>4. QED
      BY <3>1, <3>3 DEF Ledger!Next
  <2>4. QED
    BY <2>1, <2>2, <2>3, StepShape
<1>3. QED
  BY <1>1, <1>2, TypeCorrect, SetsAreHistoryCorrect, PTL
  DEF Spec, ImplementsLedger, Ledger!Spec

=============================================================================
