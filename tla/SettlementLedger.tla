-------------------------- MODULE SettlementLedger --------------------------
(***************************************************************************)
(* What the settle graft promises to a hull, without epochs or sets: a     *)
(* root is committed once per hull, and a note is appended to the ledger   *)
(* only under its hull's committed root and only when its id is not among  *)
(* the last Window notes.                                                  *)
(***************************************************************************)
EXTENDS Naturals, Sequences

CONSTANTS Ids,      \* note ids
          Hulls,    \* hull ids
          Roots,    \* Merkle roots
          NoRoot,   \* the root of a hull that has none
          Window    \* how many of the latest notes a new one is compared with

VARIABLES roots,    \* hull -> committed root, or NoRoot
          ledger    \* the notes settled so far, oldest first

vars == <<roots, ledger>>

Notes == [id : Ids, hull : Hulls, root : Roots]

Init ==
  /\ roots = [h \in Hulls |-> NoRoot]
  /\ ledger = <<>>

Commit(h, r) ==
  /\ roots[h] = NoRoot
  /\ roots' = [roots EXCEPT ![h] = r]
  /\ UNCHANGED ledger

\* Note n may be appended as number k of the ledger.
Fresh(id, k) ==
  \A i \in 1..Len(ledger) : ledger[i].id = id => k - i > Window

Append1(n) ==
  /\ roots[n.hull] = n.root
  /\ Fresh(n.id, Len(ledger) + 1)
  /\ ledger' = Append(ledger, n)
  /\ UNCHANGED roots

Next ==
  \/ \E h \in Hulls, r \in Roots : Commit(h, r)
  \/ \E n \in Notes : Append1(n)

Spec == Init /\ [][Next]_vars
=============================================================================
