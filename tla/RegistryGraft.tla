--------------------------- MODULE RegistryGraft ----------------------------
(***************************************************************************)
(* hoon/lib/registry-graft.hoon: records with a strict life: put creates,  *)
(* update changes, del removes, and each fails on a key in the wrong state.*)
(*                                                                         *)
(* feed is a ghost: the successful effects so far, with the record that a  *)
(* put carried (its effect names the key only, but its sender knows it).   *)
(***************************************************************************)
EXTENDS JammedPayloads, Integers, Sequences, FiniteSets

CONSTANTS RecordKeys,
          RecordsCap, \* entries-cap
          MaxFeed     \* bound of the model: successful pokes

ASSUME RegistryAssumption == RecordsCap \in Nat /\ MaxFeed \in Nat

VARIABLES records,        \* a function on the keys that are present
          registryEffect, feed

registryVars == <<records, registryEffect, feed>>

RegistryInit ==
  /\ records = [k \in {} |-> {}]
  /\ registryEffect = "none"
  /\ feed = <<>>

Recorded(key) == key \in DOMAIN records

\* A successful poke: the new table, the effect and what the feed says of it.
Registered(table, effect, entry) ==
  /\ Len(feed) < MaxFeed
  /\ records' = table
  /\ registryEffect' = effect
  /\ feed' = Append(feed, entry)

\* put of a map.
WithRecord(key, record) ==
  [k \in DOMAIN records \cup {key} |-> IF k = key THEN record ELSE records[k]]

\* A refusal leaves the state alone.
RegistryRefuse == registryEffect' = "registry-error" /\ UNCHANGED <<records, feed>>

RegistryPut(key, payload) ==
  /\ ~Recorded(key)
  /\ Cardinality(DOMAIN records) < RecordsCap
  /\ payload # Malformed
  /\ Registered(WithRecord(key, payload), "registry-stored",
                [tag |-> "registry-stored", key |-> key, old |-> Malformed, new |-> payload])

RegistryPutRefused(key, payload) ==
  /\ Recorded(key) \/ Cardinality(DOMAIN records) >= RecordsCap \/ payload = Malformed
  /\ RegistryRefuse

\* Wrong variant of RegistryUpdate: the effect gives the new record as the old one.
RegistryUpdateLate(key, payload) ==
  /\ Recorded(key) /\ payload # Malformed
  /\ Registered(WithRecord(key, payload), "registry-updated",
                [tag |-> "registry-updated", key |-> key, old |-> payload, new |-> payload])

RegistryUpdate(key, payload) ==
  /\ Recorded(key) /\ payload # Malformed
  /\ Registered(WithRecord(key, payload), "registry-updated",
                [tag |-> "registry-updated", key |-> key, old |-> records[key], new |-> payload])

RegistryUpdateRefused(key, payload) ==
  /\ ~Recorded(key) \/ payload = Malformed
  /\ RegistryRefuse

RegistryDel(key) ==
  /\ Recorded(key)
  /\ Registered([k \in DOMAIN records \ {key} |-> records[k]], "registry-deleted",
                [tag |-> "registry-deleted", key |-> key, old |-> Malformed, new |-> Malformed])

RegistryDelRefused(key) == ~Recorded(key) /\ RegistryRefuse

RegistryNext ==
  \E key \in RecordKeys :
    \/ \E payload \in JammedAtoms :
         \/ RegistryPut(key, payload) \/ RegistryPutRefused(key, payload)
         \/ RegistryUpdate(key, payload) \/ RegistryUpdateRefused(key, payload)
    \/ RegistryDel(key) \/ RegistryDelRefused(key)

RegistrySpec == RegistryInit /\ [][RegistryNext]_registryVars

-----------------------------------------------------------------------------
(* Properties *)

RegistryTypeOK ==
  /\ DOMAIN records \subseteq RecordKeys /\ \A k \in DOMAIN records : records[k] \in Nouns
  /\ Cardinality(DOMAIN records) <= RecordsCap
  /\ registryEffect \in {"none", "registry-stored", "registry-updated", "registry-deleted",
                         "registry-error"}

\* j is the next effect on the key of effect i.
Follows(i, j) ==
  /\ i < j /\ feed[i].key = feed[j].key
  /\ \A n \in DOMAIN feed : i < n /\ n < j => feed[n].key # feed[i].key

\* The effects on a key tell its life, whatever refusals come between: it begins
\* with a put, each update gives as old the record that the effect before it left,
\* and nothing but a put follows a del.
RecordLife ==
  /\ \A j \in DOMAIN feed :
       feed[j].tag # "registry-stored" => \E i \in DOMAIN feed : Follows(i, j)
  /\ \A i, j \in DOMAIN feed : Follows(i, j) =>
       /\ feed[j].tag = "registry-stored" <=> feed[i].tag = "registry-deleted"
       /\ feed[j].tag = "registry-updated" => feed[j].old = feed[i].new

=============================================================================
