----------------------------- MODULE RbacGraft ------------------------------
(***************************************************************************)
(* hoon/lib/rbac-graft.hoon: the permissions of each key.                  *)
(*                                                                         *)
(* One action per cause and outcome.  mirror is a ghost: what a client     *)
(* that only sees the effects (the differences they list) believes each    *)
(* key to hold.                                                            *)
(***************************************************************************)
EXTENDS Integers, FiniteSets

CONSTANTS Pubkeys, Perms,
          RolesCap,        \* roles-cap
          PermsPerRoleCap  \* perms-per-role-cap

ASSUME RbacAssumption ==
  /\ IsFiniteSet(Pubkeys) /\ IsFiniteSet(Perms)
  /\ RolesCap \in Nat /\ PermsPerRoleCap \in Nat

VARIABLES roles,      \* a function on the keys that have a row
          rbacEffect, mirror

rbacVars == <<roles, rbacEffect, mirror>>

Held(k) == IF k \in DOMAIN roles THEN roles[k] ELSE {}

\* put and del of a map.
Put(k, perms) == [j \in DOMAIN roles \cup {k} |-> IF j = k THEN perms ELSE roles[j]]
Del(k) == [j \in DOMAIN roles \ {k} |-> roles[j]]

RbacInit ==
  /\ roles = [k \in {} |-> {}]
  /\ rbacEffect = "none"
  /\ mirror = [k \in Pubkeys |-> {}]

\* The outer cap is for new keys, the inner one for every grant.
CapReached(k, asked) ==
  \/ k \notin DOMAIN roles /\ Cardinality(DOMAIN roles) >= RolesCap
  \/ Cardinality(Held(k) \cup asked) > PermsPerRoleCap

\* Wrong variant of RbacGrant: lists what was held and not asked.
RbacGrantSwapped(k, asked) ==
  /\ ~CapReached(k, asked)
  /\ roles' = Put(k, Held(k) \cup asked)
  /\ rbacEffect' = "rbac-granted"
  /\ mirror' = [mirror EXCEPT ![k] = @ \cup (Held(k) \ asked)]

RbacGrant(k, asked) ==
  /\ ~CapReached(k, asked)
  /\ roles' = Put(k, Held(k) \cup asked)
  /\ rbacEffect' = "rbac-granted"
  /\ mirror' = [mirror EXCEPT ![k] = @ \cup (asked \ Held(k))]

RbacGrantRefused(k, asked) ==
  /\ CapReached(k, asked)
  /\ rbacEffect' = "rbac-error"
  /\ UNCHANGED <<roles, mirror>>

\* Never refused; a row that is left empty is removed.
RbacRevoke(k, asked) ==
  LET remaining == Held(k) \ asked IN
    /\ roles' = IF remaining = {} THEN Del(k) ELSE Put(k, remaining)
    /\ rbacEffect' = "rbac-revoked"
    /\ mirror' = [mirror EXCEPT ![k] = @ \ (asked \cap Held(k))]

RbacNext ==
  \E k \in Pubkeys, asked \in SUBSET Perms :
    RbacGrant(k, asked) \/ RbacGrantRefused(k, asked) \/ RbacRevoke(k, asked)

RbacSpec == RbacInit /\ [][RbacNext]_rbacVars

-----------------------------------------------------------------------------
(* Properties *)

\* The table keeps its type and stays within both caps.
RbacTypeOK ==
  /\ DOMAIN roles \subseteq Pubkeys
  /\ \A k \in DOMAIN roles :
       roles[k] \subseteq Perms /\ Cardinality(roles[k]) <= PermsPerRoleCap
  /\ Cardinality(DOMAIN roles) <= RolesCap
  /\ rbacEffect \in {"none", "rbac-granted", "rbac-revoked", "rbac-error"}
  /\ mirror \in [Pubkeys -> SUBSET Perms]

\* The differences in the effects are enough: whoever adds up what was granted and
\* takes away what was revoked knows what each key holds, refusals and grants of
\* what is held already included.
EffectsTellAll == \A k \in Pubkeys : mirror[k] = Held(k)

\* "0 perms" and "no entry" are the same state, as rbac-peek says: a row always
\* holds a permission, so that the rows counted against roles-cap are the keys with
\* any permission.
NoEmptyRow == \A k \in DOMAIN roles : roles[k] # {}

=============================================================================
