--------------------------- MODULE AuditedWrites ----------------------------
(***************************************************************************)
(* audit-write of hoon/lib/domain-patterns.hoon: one poke of a kernel that *)
(* holds the stores and the log hands a cause to a store and then appends  *)
(* to the log, whatever the store answered.                                *)
(*                                                                         *)
(* Ghosts: trail has each audited cause, whether its store accepted it and *)
(* whether the log has an entry of it; bypassed, that a store was poked    *)
(* without the log.                                                        *)
(***************************************************************************)
EXTENDS KvGraft, RegistryGraft, QueueGraft, LogGraft

CONSTANTS LogBodies, \* the log bodies that callers pass
          MaxAudits  \* bound of the model: audited causes

ASSUME AuditAssumption == LogBodies \subseteq JammedAtoms /\ MaxAudits \in Nat

VARIABLES trail, bypassed

auditVars == <<kvVars, registryVars, queueVars, logVars, trail, bypassed>>

AuditInit ==
  KvInit /\ RegistryInit /\ QueueInit /\ LogInit /\ trail = <<>> /\ bypassed = FALSE

\* Wrong variant of Logged: a refused or removing cause is not logged.
LoggedIfStored(op, good, body) ==
  IF good /\ op # "registry-del"
  THEN LogAppend(body) \/ LogAppendRefused(body)
  ELSE UNCHANGED logVars

\* The log is appended to in any case; it refuses a body that it cannot decode.
Logged(op, good, body) == LogAppend(body) \/ LogAppendRefused(body)

\* The second half of the poke, on the state that the store has left.
Audited(op, key, value, good, body) ==
  /\ Len(trail) < MaxAudits
  /\ Logged(op, good, body)
  /\ trail' = Append(trail, [op |-> op, key |-> key, value |-> value, good |-> good,
                             body |-> body, entry |-> nextSeq' # nextSeq])

AuditKv(body) ==
  \E key \in KvKeys :
    /\ \/ \E value \in Values : KvSet(key, value) /\ Audited("kv-set", key, value, TRUE, body)
       \/ \E value \in Values : KvSetRefused(key) /\ Audited("kv-set", key, value, FALSE, body)
       \/ KvDelete(key) /\ Audited("kv-delete", key, key, TRUE, body)
    /\ UNCHANGED <<registryVars, queueVars>>

AuditRegistry(body) ==
  \E key \in RecordKeys :
    /\ \/ \E payload \in JammedAtoms :
            \/ RegistryPut(key, payload) /\ Audited("registry-put", key, payload, TRUE, body)
            \/ RegistryPutRefused(key, payload)
                 /\ Audited("registry-put", key, payload, FALSE, body)
            \/ RegistryUpdate(key, payload) /\ Audited("registry-update", key, payload, TRUE, body)
            \/ RegistryUpdateRefused(key, payload)
                 /\ Audited("registry-update", key, payload, FALSE, body)
       \/ RegistryDel(key) /\ Audited("registry-del", key, key, TRUE, body)
       \/ RegistryDelRefused(key) /\ Audited("registry-del", key, key, FALSE, body)
    /\ UNCHANGED <<kvVars, queueVars>>

\* The queue is keyed by nothing: its causes are told by their operation alone.
AuditQueue(body) ==
  /\ \/ \E payload \in JammedAtoms :
          \/ QueuePush(payload) /\ Audited("queue-push", payload, payload, TRUE, body)
          \/ QueuePushRefused(payload) /\ Audited("queue-push", payload, payload, FALSE, body)
     \/ (QueuePop \/ QueuePopEmpty) /\ Audited("queue-pop", body, body, TRUE, body)
     \/ QueueClear /\ Audited("queue-clear", body, body, TRUE, body)
  /\ UNCHANGED <<kvVars, registryVars>>

\* A target of any other tag crashes, and the kernel keeps its state.
AuditWrite ==
  /\ \E body \in LogBodies : AuditKv(body) \/ AuditRegistry(body) \/ AuditQueue(body)
  /\ UNCHANGED bypassed

\* apply-kv and apply-registry by themselves: a cause that skips the log.
Bypass ==
  /\ \/ KvNext /\ UNCHANGED registryVars
     \/ RegistryNext /\ UNCHANGED kvVars
  /\ bypassed' = TRUE
  /\ UNCHANGED <<queueVars, logVars, trail>>

AuditNext == AuditWrite \/ Bypass

AuditSpec == AuditInit /\ [][AuditNext]_auditVars

-----------------------------------------------------------------------------
(* Properties *)

\* The audited causes of t that have an entry in the log and whose store accepted them.
Evidence(t) == { i \in DOMAIN t : t[i].entry /\ t[i].good }

\* The evidence of operations ops on a key, and the last of it.
On(t, k, ops) == { i \in Evidence(t) : t[i].key = k /\ t[i].op \in ops }
LastOn(t, k, ops) == CHOOSE i \in On(t, k, ops) : \A j \in On(t, k, ops) : j <= i

\* The table that follows from the evidence: each key has the value of the last
\* write to it, unless a removal came after.
Rebuilt(t, keys, writes, removals) ==
  LET ops == writes \cup removals
      present == { k \in keys : On(t, k, ops) # {} /\ t[LastOn(t, k, ops)].op \in writes }
  IN  [k \in present |-> t[LastOn(t, k, ops)].value]

\* The log is evidence: as long as all writes were audited and each log body could be
\* decoded, the entries that belong to accepted causes, read in order, give the
\* contents of both stores.  The log has entries of refused causes too, and only the
\* effects tell which.
LogTellsStores ==
  ~bypassed /\ (\A i \in DOMAIN trail : trail[i].body # Malformed) =>
    /\ store = Rebuilt(trail, KvKeys, {"kv-set"}, {"kv-delete"})
    /\ records = Rebuilt(trail, RecordKeys, {"registry-put", "registry-update"},
                         {"registry-del"})

=============================================================================
