------------------------------ MODULE KvGraft -------------------------------
(***************************************************************************)
(* hoon/lib/kv-graft.hoon: a store in which a set overwrites and a delete  *)
(* never fails.  One action per cause and outcome.                         *)
(***************************************************************************)
EXTENDS Integers, FiniteSets

CONSTANTS KvKeys, Values,
          StoreCap  \* store-cap

ASSUME KvAssumption == IsFiniteSet(KvKeys) /\ StoreCap \in Nat

VARIABLES store,     \* a function on the keys that are present
          kvEffect

kvVars == <<store, kvEffect>>

KvInit == store = [k \in {} |-> {}] /\ kvEffect = "none"

\* The cap is for new keys only.
KvFull(key) == key \notin DOMAIN store /\ Cardinality(DOMAIN store) >= StoreCap

KvSet(key, value) ==
  /\ ~KvFull(key)
  /\ store' = [k \in DOMAIN store \cup {key} |-> IF k = key THEN value ELSE store[k]]
  /\ kvEffect' = "kv-stored"

KvSetRefused(key) ==
  /\ KvFull(key)
  /\ kvEffect' = "kv-error"
  /\ UNCHANGED store

\* An absent key is deleted all the same.
KvDelete(key) ==
  /\ store' = [k \in DOMAIN store \ {key} |-> store[k]]
  /\ kvEffect' = "kv-deleted"

KvNext ==
  \E key \in KvKeys :
    \/ \E value \in Values : KvSet(key, value)
    \/ KvSetRefused(key)
    \/ KvDelete(key)

KvSpec == KvInit /\ [][KvNext]_kvVars

KvTypeOK ==
  /\ DOMAIN store \subseteq KvKeys /\ \A k \in DOMAIN store : store[k] \in Values
  /\ Cardinality(DOMAIN store) <= StoreCap
  /\ kvEffect \in {"none", "kv-stored", "kv-deleted", "kv-error"}

=============================================================================
