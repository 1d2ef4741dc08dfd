------------------------------ MODULE LogGraft ------------------------------
(***************************************************************************)
(* hoon/lib/log-graft.hoon: an append-only log that keeps its newest       *)
(* entries.  The tag of an entry is part of its noun here.                 *)
(*                                                                         *)
(* logged is a ghost: every entry ever accepted.                           *)
(***************************************************************************)
EXTENDS JammedPayloads, Integers, Sequences

CONSTANTS RetentionCap, \* retention-cap
          FirstSeq,     \* 1 from new-state; 0 in a composed kernel, as for the queue
          MaxLogged     \* bound of the model: accepted entries

ASSUME LogAssumption ==
  RetentionCap \in Nat \ {0} /\ FirstSeq \in Nat /\ MaxLogged \in Nat

VARIABLES entries, nextSeq, logEffect, logged

logVars == <<entries, nextSeq, logEffect, logged>>

LogEntries == [seq : Nat, data : Nouns]

LogInit ==
  /\ entries = <<>>   \* newest first
  /\ nextSeq = FirstSeq
  /\ logEffect = "none"
  /\ logged = <<>>

\* Wrong variant of Trimmed: drops the newest entry.
TrimmedAtHead(list) == IF Len(list) > RetentionCap THEN Tail(list) ELSE list

\* scag: the first retention-cap elements.
Trimmed(list) == IF Len(list) > RetentionCap THEN SubSeq(list, 1, RetentionCap) ELSE list

LogAppend(payload) ==
  /\ payload # Malformed
  /\ Len(logged) < MaxLogged
  /\ LET entry == [seq |-> nextSeq, data |-> payload] IN
       /\ entries' = Trimmed(<<entry>> \o entries)
       /\ logged' = Append(logged, entry)
  /\ nextSeq' = nextSeq + 1
  /\ logEffect' = "log-appended"

LogAppendRefused(payload) ==
  /\ payload = Malformed
  /\ logEffect' = "log-error"
  /\ UNCHANGED <<entries, nextSeq, logged>>

LogNext == \E payload \in JammedAtoms : LogAppend(payload) \/ LogAppendRefused(payload)

LogSpec == LogInit /\ [][LogNext]_logVars

-----------------------------------------------------------------------------
(* Properties *)

LogTypeOK ==
  /\ entries \in Seq(LogEntries) /\ Len(entries) <= RetentionCap
  /\ nextSeq \in Nat
  /\ logEffect \in {"none", "log-appended", "log-error"}
  /\ logged \in Seq(LogEntries)

\* The log holds the newest entries ever accepted, all that retention leaves room
\* for, newest first and as they were written, under numbers that count on
\* without a gap: what it has lost is the oldest, and a reader that keeps the last
\* number it saw knows how much it missed.
NewestKept ==
  /\ Len(entries) = IF Len(logged) < RetentionCap THEN Len(logged) ELSE RetentionCap
  /\ \A i \in DOMAIN entries :
       /\ entries[i] = logged[Len(logged) + 1 - i]
       /\ entries[i].seq = FirstSeq + Len(logged) - i

=============================================================================
