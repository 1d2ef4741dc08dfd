----------------------------- MODULE SdkSettle ------------------------------
(***************************************************************************)
(* Settle of vesl-core (settle.rs) with its guard (guard.rs): the checks   *)
(* that a hull makes before it sends a note to the kernel, and the cache   *)
(* of ids that lets it refuse a duplicate on its own.                      *)
(*                                                                         *)
(* accepted is a ghost: the ids that this process accepted, in order.      *)
(***************************************************************************)
EXTENDS Integers, Sequences, FiniteSets

CONSTANTS SdkRoots,
          NoteIds,
          SettledIdsCap, \* SETTLED_IDS_CAP
          MaxRoots,      \* MAX_ROOTS
          MaxAccepted    \* bound of the model: ids accepted by one process

ASSUME SdkAssumption ==
  SettledIdsCap \in Nat \ {0} /\ MaxRoots \in Nat /\ MaxAccepted \in Nat

VARIABLES guardedRoots,              \* Guard.roots
          settledIds, settledOrder,  \* Settle.settled_ids, settled_order
          sdkReply, accepted

sdkVars == <<guardedRoots, settledIds, settledOrder, sdkReply, accepted>>

\* A note with its state, and whether the domain verifier passes it and builds a poke.
SettlePayloads ==
  [id : NoteIds, root : SdkRoots, pending : BOOLEAN, verifies : BOOLEAN, builds : BOOLEAN]

SdkInit ==
  /\ guardedRoots = {}
  /\ settledIds = {} /\ settledOrder = <<>>
  /\ sdkReply = "none" /\ accepted = <<>>

RegisterRoot(root) ==
  /\ Cardinality(guardedRoots) < MaxRoots \/ root \in guardedRoots
  /\ guardedRoots' = guardedRoots \cup {root}
  /\ sdkReply' = "registered"
  /\ UNCHANGED <<settledIds, settledOrder, accepted>>

RegisterRootRefused(root) ==
  /\ Cardinality(guardedRoots) >= MaxRoots /\ root \notin guardedRoots
  /\ sdkReply' = "capacity-exceeded"
  /\ UNCHANGED <<guardedRoots, settledIds, settledOrder, accepted>>

\* What the checks pass before anything is recorded, in their order.
PreFlight(p) ==
  /\ p.root \in guardedRoots
  /\ p.id \notin settledIds
  /\ p.pending
  /\ p.verifies
  /\ p.builds

SettleRefused(p) ==
  /\ ~PreFlight(p)
  /\ sdkReply' = "refused"
  /\ UNCHANGED <<guardedRoots, settledIds, settledOrder, accepted>>

\* Wrong variant of Remember: evicts when the cache is over its cap.
RememberLate(id) ==
  LET evict == Cardinality(settledIds) > SettledIdsCap IN
    /\ settledIds' = (IF evict THEN settledIds \ {Head(settledOrder)} ELSE settledIds) \cup {id}
    /\ settledOrder' = Append(IF evict THEN Tail(settledOrder) ELSE settledOrder, id)

\* The oldest id makes room for the new one.
Remember(id) ==
  LET evict == Cardinality(settledIds) >= SettledIdsCap /\ settledOrder # <<>> IN
    /\ settledIds' = (IF evict THEN settledIds \ {Head(settledOrder)} ELSE settledIds) \cup {id}
    /\ settledOrder' = Append(IF evict THEN Tail(settledOrder) ELSE settledOrder, id)

\* The poke is built and thrown away: sending it is up to the hull, later.
SettleAccepted(p) ==
  /\ PreFlight(p)
  /\ Len(accepted) < MaxAccepted
  /\ Remember(p.id)
  /\ accepted' = Append(accepted, p.id)
  /\ sdkReply' = "settled"
  /\ UNCHANGED guardedRoots

\* Nothing of this outlives the process.
SdkRestart ==
  /\ guardedRoots' = {} /\ settledIds' = {} /\ settledOrder' = <<>>
  /\ accepted' = <<>> /\ sdkReply' = "none"

SdkNext ==
  \/ \E root \in SdkRoots : RegisterRoot(root) \/ RegisterRootRefused(root)
  \/ \E p \in SettlePayloads : SettleAccepted(p) \/ SettleRefused(p)
  \/ SdkRestart

SdkSpec == SdkInit /\ [][SdkNext]_sdkVars

-----------------------------------------------------------------------------
(* Properties *)

SdkTypeOK ==
  /\ guardedRoots \subseteq SdkRoots /\ Cardinality(guardedRoots) <= MaxRoots
  /\ settledIds \subseteq NoteIds /\ settledOrder \in Seq(NoteIds)
  /\ sdkReply \in {"none", "registered", "capacity-exceeded", "refused", "settled"}
  /\ accepted \in Seq(NoteIds)

\* How many of the accepted ids the cache remembers.
Remembered == IF Len(accepted) < SettledIdsCap THEN Len(accepted) ELSE SettledIdsCap

\* The set and the queue of the cache stay one: they hold exactly the newest ids that
\* this process accepted, up to the cap and each once.  So a duplicate is refused if
\* and only if it is one of those, and only the oldest are left to the kernel.
RemembersNewest ==
  /\ settledIds = { settledOrder[i] : i \in DOMAIN settledOrder }
  /\ Len(settledOrder) = Remembered
  /\ \A i \in DOMAIN settledOrder : settledOrder[i] = accepted[Len(accepted) - Remembered + i]
  /\ \A i, j \in DOMAIN settledOrder : i # j => settledOrder[i] # settledOrder[j]

=============================================================================
