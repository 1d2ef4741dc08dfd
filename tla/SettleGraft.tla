---------------------------- MODULE SettleGraft ----------------------------
(***************************************************************************)
(* The settle graft (hoon/lib/settle-graft.hoon): one action per cause of  *)
(* settle-poke, its state fragment as variables.  A poke is atomic: the    *)
(* kernel computes [effects new-state] and swaps the state in.             *)
(*                                                                         *)
(* Data abstracted: ids, hulls, roots and payload data are atoms; the      *)
(* verify gate is a function of what the code passes to it; an effect is   *)
(* its tag.                                                                *)
(***************************************************************************)
EXTENDS Naturals, FiniteSets, Sequences

CONSTANTS Ids, Hulls, Roots,
          Data,           \* the opaque payload data
          Gate(_, _, _),  \* verify-gate: id, data, expected-root -> verdict
          NoRoot,         \* stands for "hull not in the registered map"
          EpochCap,       \* ++epoch-cap
          RegisteredCap,  \* ++registered-cap
          MaxSettles      \* bound of the model: settlements in a behaviour

Verdicts == {"yes", "no", "crash"}

ASSUME ConstantsAssumption ==
  /\ NoRoot \notin Roots
  /\ IsFiniteSet(Hulls)
  /\ EpochCap \in Nat \ {0}
  /\ RegisteredCap \in Nat
  /\ MaxSettles \in Nat
  /\ \A id \in Ids, d \in Data, r \in Roots : Gate(id, d, r) \in Verdicts

VARIABLES epoch,         \* number of the current epoch
          registered,    \* hull -> root, NoRoot when the map has no entry
          settled,       \* ids settled in this epoch
          settleCount,   \* settlements of this epoch
          priorSettled,  \* ids settled in the previous epoch
          effects,       \* effect tags of the last poke, in order
          history        \* ghost: every note settled, oldest first

graftState == <<epoch, registered, settled, settleCount, priorSettled>>
vars == <<graftState, effects, history>>

\* +$graft-payload without the constant state field.
Payloads == [id : Ids, hull : Hulls, root : Roots, data : Data, expected : Roots]
Notes == [id : Ids, hull : Hulls, root : Roots]

EffectTags ==
  { "settle-registered", "settle-noted", "settle-verified-yes",
    "settle-verified-no", "settle-epoch-rotated", "settle-error",
    "settle-register-rejected", "settle-denied" }

RegisteredHulls == {h \in Hulls : registered[h] # NoRoot}

TypeOK ==
  /\ epoch \in Nat
  /\ registered \in [Hulls -> Roots \cup {NoRoot}]
  /\ settled \in SUBSET Ids
  /\ settleCount \in Nat
  /\ priorSettled \in SUBSET Ids
  /\ effects \in Seq(EffectTags)
  /\ history \in Seq(Notes)

-----------------------------------------------------------------------------
(* Initial state and operations *)

Init ==
  /\ epoch = 0
  /\ registered = [h \in Hulls |-> NoRoot]
  /\ settled = {}
  /\ settleCount = 0
  /\ priorSettled = {}
  /\ effects = <<>>
  /\ history = <<>>

\* A poke that leaves the state as it was and answers with one effect.
Refuse(tag) ==
  /\ effects' = <<tag>>
  /\ UNCHANGED <<graftState, history>>

\* %settle-register refused: the hull has a root, or the map is full.
SettleRegisterRefused(h) ==
  \/ /\ registered[h] # NoRoot
     /\ Refuse("settle-register-rejected")
  \/ /\ registered[h] = NoRoot
     /\ Cardinality(RegisteredHulls) >= RegisteredCap
     /\ Refuse("settle-error")

SettleRegisterAccepted(h, r) ==
  /\ registered[h] = NoRoot
  /\ Cardinality(RegisteredHulls) < RegisteredCap
  /\ registered' = [registered EXCEPT ![h] = r]
  /\ effects' = <<"settle-registered">>
  /\ UNCHANGED <<epoch, settled, settleCount, priorSettled, history>>

SettleRegister(h, r) == SettleRegisterRefused(h) \/ SettleRegisterAccepted(h, r)

\* Wrong variants: RootBound that does not compare the note's own root, and
\* Replayed that forgets the previous epoch.
RootBoundLoosely(p) ==
  /\ registered[p.hull] # NoRoot
  /\ p.expected = registered[p.hull]

ReplayedThisEpoch(p) == p.id \in settled

\* A parsed payload names a registered hull, and all three roots agree.
RootBound(p) ==
  /\ registered[p.hull] # NoRoot
  /\ p.expected = registered[p.hull]
  /\ p.root = p.expected

\* The replay guard reads both epochs.
Replayed(p) == p.id \in settled \/ p.id \in priorSettled

Verdict(p) == Gate(p.id, p.data, p.expected)

\* State after a settlement in an epoch that has room.
SettleInEpoch(p) ==
  /\ settled' = settled \cup {p.id}
  /\ settleCount' = settleCount + 1
  /\ effects' = <<"settle-noted">>
  /\ UNCHANGED <<epoch, priorSettled>>

\* State after a settlement that finds the epoch at its cap.
RotateAndSettle(p) ==
  /\ epoch' = epoch + 1
  /\ priorSettled' = settled
  /\ settled' = {p.id}
  /\ settleCount' = 1
  /\ effects' = <<"settle-epoch-rotated", "settle-noted">>

\* %settle-note of a payload that cannot be read.
SettleNoteMalformed == Refuse("settle-error")

\* %settle-note refused by a guard or by a crash of the gate.
SettleNoteRefused(p) ==
  /\ \/ ~RootBound(p)
     \/ Replayed(p)
     \/ Verdict(p) = "crash"
  /\ Refuse("settle-error")

\* %settle-note the gate denies.
SettleNoteDenied(p) ==
  /\ RootBound(p)
  /\ ~Replayed(p)
  /\ Verdict(p) = "no"
  /\ Refuse("settle-denied")

\* %settle-note that settles, rotating iff the epoch is already at cap.
SettleNoteAccepted(p) ==
  /\ RootBound(p)
  /\ ~Replayed(p)
  /\ Verdict(p) = "yes"
  /\ Len(history) < MaxSettles
  /\ IF settleCount >= EpochCap THEN RotateAndSettle(p) ELSE SettleInEpoch(p)
  /\ history' = Append(history, [id |-> p.id, hull |-> p.hull, root |-> p.root])
  /\ UNCHANGED registered

SettleNote(p) ==
  SettleNoteRefused(p) \/ SettleNoteDenied(p) \/ SettleNoteAccepted(p)

\* What %settle-verify answers for a payload that can be read.
Verifies(p) == RootBound(p) /\ Verdict(p) = "yes"

\* %settle-verify changes nothing; an unreadable payload is answered %.n.
SettleVerify(p) ==
  Refuse(IF Verifies(p) THEN "settle-verified-yes" ELSE "settle-verified-no")

SettleVerifyMalformed == Refuse("settle-verified-no")

Next ==
  \/ \E h \in Hulls, r \in Roots : SettleRegister(h, r)
  \/ SettleNoteMalformed
  \/ \E p \in Payloads : SettleNote(p)
  \/ SettleVerifyMalformed
  \/ \E p \in Payloads : SettleVerify(p)

Spec == Init /\ [][Next]_vars

-----------------------------------------------------------------------------
(* Properties *)

\* The ids of notes lo..hi of the history h.
IdsBetween(h, lo, hi) == {h[k].id : k \in lo..hi}

\* settle-count really counts the current set and never passes the cap, and a
\* rotation always hands over a full epoch: the rotation arithmetic of
\* %settle-note neither loses nor doubles an id.
EpochAccounting ==
  /\ settleCount <= EpochCap
  /\ IsFiniteSet(settled) /\ Cardinality(settled) = settleCount
  /\ IsFiniteSet(priorSettled)
  /\ Cardinality(priorSettled) = (IF epoch = 0 THEN 0 ELSE EpochCap)
  /\ settled \cap priorSettled = {}

\* No id settles twice among any EpochCap + 2 consecutive notes, across any
\* number of rotations: replay protection holds for the previous epoch too.
ReplayWindow ==
  \A i, j \in 1..Len(history) :
    i < j /\ history[i].id = history[j].id => j - i > EpochCap + 1

\* The replay sets only ever hold ids of the last 2 * EpochCap notes: the
\* state stays bounded and an id that old is no longer refused.
ReplayMemoryBounded ==
  \A id \in settled \cup priorSettled :
    \E k \in 1..Len(history) :
      history[k].id = id /\ Len(history) - k < 2 * EpochCap

\* Every note ever settled still agrees with the root its hull is registered
\* under, and the gate approved some data for it: no later poke moves the root
\* from under a settled note (registration is one-shot, M-01).
SettledUnderCommittedRoot ==
  \A k \in 1..Len(history) :
    /\ history[k].root = registered[history[k].hull]
    /\ \E d \in Data : Gate(history[k].id, d, history[k].root) = "yes"

\* The graft implements the ledger it promises.
Ledger == INSTANCE SettlementLedger
            WITH roots <- registered, ledger <- history, Window <- EpochCap + 1
ImplementsLedger == Ledger!Spec

\* What ties the sets to the history; with TypeOK and EpochAccounting it is
\* inductive and gives ReplayWindow.
SetsAreHistory ==
  LET n == Len(history) IN
  /\ settleCount <= n
  /\ settled = IdsBetween(history, n - settleCount + 1, n)
  /\ epoch = 0 => settleCount = n /\ priorSettled = {}
  /\ epoch > 0 =>
       /\ settleCount >= 1
       /\ settleCount + EpochCap <= n
       /\ priorSettled =
            IdsBetween(history, n - settleCount - EpochCap + 1, n - settleCount)

\* What the settle graft says of the past is so, across any number of rotations: its
\* replay sets are the recent past and no more, no id settles twice while they hold
\* it, and each settled note is still under its hull's root and was approved.
HistorySound == SetsAreHistory /\ ReplayWindow /\ SettledUnderCommittedRoot

=============================================================================
