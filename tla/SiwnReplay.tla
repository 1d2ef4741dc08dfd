----------------------------- MODULE SiwnReplay -----------------------------
(***************************************************************************)
(* SIWN verification (crates/vesl-signing/src/caip122.rs) over the shared  *)
(* replay cache (replay_cache.rs).  Callers run verify concurrently; seen  *)
(* reads the clock, then takes the cache's lock twice, once to sweep and   *)
(* once to look up and insert.                                             *)
(*                                                                         *)
(* Data abstracted: a message stands for its digest and has passed every   *)
(* check but those of time and replay; a refusal before them changes       *)
(* nothing.  Both clocks are one.                                          *)
(***************************************************************************)
EXTENDS Naturals, FiniteSets, Sequences

CONSTANTS Messages, Callers,
          IssuedAt(_), Expires(_),  \* of a message
          MaxWindow,  \* MAX_SIWN_WINDOW
          MaxStall,   \* ticks a call may be under way: scheduling assumed
          MaxTime     \* bound of the model: the last tick

ASSUME SiwnAssumption ==
  /\ \A m \in Messages : IssuedAt(m) \in Nat /\ Expires(m) \in Nat
  /\ MaxWindow \in Nat /\ MaxStall \in Nat /\ MaxTime \in Nat

VARIABLES now,           \* the clock
          cache,         \* InMemoryReplayCache: the stamp of each message it holds
          call,          \* caller -> where its verify stands
          siwnAccepted  \* ghost: every verify that succeeded, oldest first

siwnVars == <<now, cache, call, siwnAccepted>>

NoCall == [phase |-> "none"]
Calls ==
  {NoCall}
    \cup [phase : {"checked"}, message : Messages, began : Nat]
    \cup [phase : {"stamped", "swept"}, message : Messages, began : Nat, at : Nat]

SiwnTypeOK ==
  /\ now \in 0..MaxTime
  /\ DOMAIN cache \subseteq Messages
  /\ \A m \in DOMAIN cache : cache[m] \in 0..now
  /\ call \in [Callers -> Calls]
  /\ siwnAccepted \in Seq([message : Messages, at : Nat])

SiwnInit ==
  /\ now = 0
  /\ cache = <<>>
  /\ call = [c \in Callers |-> NoCall]
  /\ siwnAccepted = <<>>

\* Window of a message, capped; 3600 s also when it is negative.
Window(m) ==
  IF Expires(m) >= IssuedAt(m) /\ Expires(m) - IssuedAt(m) <= MaxWindow
  THEN Expires(m) - IssuedAt(m) ELSE MaxWindow

\* Instant::duration_since, which saturates.
Age(at, stamp) == IF at >= stamp THEN at - stamp ELSE 0

-----------------------------------------------------------------------------

Tick ==
  /\ now < MaxTime
  /\ \A c \in Callers : call[c] # NoCall => now < call[c].began + MaxStall
  /\ now' = now + 1
  /\ UNCHANGED <<cache, call, siwnAccepted>>

\* Wrong variant of Check: it accepts a message at the tick it expires.
CheckLate(c, m) ==
  /\ call[c] = NoCall
  /\ IssuedAt(m) <= now /\ now <= Expires(m)
  /\ call' = [call EXCEPT ![c] = [phase |-> "checked", message |-> m, began |-> now]]
  /\ UNCHANGED <<now, cache, siwnAccepted>>

\* verify, up to the cache: the message is in force now.  Refusals of other
\* messages change nothing.
Check(c, m) ==
  /\ call[c] = NoCall
  /\ IssuedAt(m) <= now /\ now < Expires(m)
  /\ call' = [call EXCEPT ![c] = [phase |-> "checked", message |-> m, began |-> now]]
  /\ UNCHANGED <<now, cache, siwnAccepted>>

\* seen reads the clock.
Stamp(c) ==
  /\ call[c].phase = "checked"
  /\ call' = [call EXCEPT ![c] = [phase |-> "stamped", message |-> call[c].message,
                                  began |-> call[c].began, at |-> now]]
  /\ UNCHANGED <<now, cache, siwnAccepted>>

\* Under the lock: drop the entries older than this message's window.
Sweep(c) ==
  /\ call[c].phase = "stamped"
  /\ LET fresh == {m \in DOMAIN cache :
                     Age(call[c].at, cache[m]) <= Window(call[c].message)}
     IN cache' = [m \in fresh |-> cache[m]]
  /\ call' = [call EXCEPT ![c].phase = "swept"]
  /\ UNCHANGED <<now, siwnAccepted>>

\* Wrong variant of SeenBefore: any recent entry will do, as if keys collided.
SeenAnyBefore(c) ==
  \E m \in DOMAIN cache : Age(call[c].at, cache[m]) <= Window(m)

\* The message is in the cache and within its window.
SeenBefore(c) ==
  LET m == call[c].message IN
  m \in DOMAIN cache /\ Age(call[c].at, cache[m]) <= Window(m)

\* Under the lock again: a message seen before is refused as a replay.
RefuseReplay(c) ==
  /\ call[c].phase = "swept"
  /\ SeenBefore(c)
  /\ call' = [call EXCEPT ![c] = NoCall]
  /\ UNCHANGED <<now, cache, siwnAccepted>>

\* Under the lock again: a new one is recorded with the stamp, and accepted.
Accept(c) ==
  /\ call[c].phase = "swept"
  /\ ~SeenBefore(c)
  /\ LET m == call[c].message IN
       /\ cache' = [x \in DOMAIN cache \cup {m} |->
                      IF x = m THEN call[c].at ELSE cache[x]]
       /\ siwnAccepted' = Append(siwnAccepted, [message |-> m, at |-> call[c].at])
  /\ call' = [call EXCEPT ![c] = NoCall]
  /\ UNCHANGED now

SiwnNext ==
  \/ Tick
  \/ \E c \in Callers, m \in Messages : Check(c, m)
  \/ \E c \in Callers : Stamp(c)
  \/ \E c \in Callers : Sweep(c)
  \/ \E c \in Callers : RefuseReplay(c)
  \/ \E c \in Callers : Accept(c)

SiwnSpec == SiwnInit /\ [][SiwnNext]_siwnVars

-----------------------------------------------------------------------------
(* Properties *)

\* No interleaving of callers accepts one signed message twice, although a
\* message is swept and looked up under two separate locks and its stamp is
\* older than either.  Needs messages of one window, and no call under way for more
\* than a tick: one that checked a message just before it expires and stamps after
\* its entry was swept would be accepted again.
AcceptedOnce ==
  \A i, j \in DOMAIN siwnAccepted :
    siwnAccepted[i].message = siwnAccepted[j].message => i = j

\* No call is refused as a replay unless that very message was accepted.
NoFalseReplay ==
  [][\A c \in Callers :
       call[c].phase = "swept" /\ call'[c] = NoCall /\ siwnAccepted' = siwnAccepted
         => \E k \in DOMAIN siwnAccepted : siwnAccepted[k].message = call[c].message]_siwnVars

\* Once a call is past its sweep the cache holds nothing older than the longest
\* window and the calls under way: sweeping on use bounds the cache.
CacheBounded ==
  \A c \in Callers : call[c].phase = "swept" =>
    \A m \in DOMAIN cache : call[c].at <= cache[m] + MaxWindow

\* replay_cache.rs:23: seen returns true iff the nonce was observed within ttl;
\* so two acceptances of a message are more than its window apart.
AcceptedApart ==
  \A i, j \in DOMAIN siwnAccepted :
    i < j /\ siwnAccepted[i].message = siwnAccepted[j].message
      => siwnAccepted[j].at > siwnAccepted[i].at + Window(siwnAccepted[j].message)

=============================================================================
