-------------------------------- MODULE Hull --------------------------------
(***************************************************************************)
(* The hull (crates/vesl-hull): an HTTP server whose /commit and /settle   *)
(* handlers poke the kernel that holds the settle graft.                   *)
(*                                                                         *)
(* One mutex guards AppState and a handler keeps it across its poke, so at *)
(* most one handler runs.  Pokes reach the kernel thread through a FIFO    *)
(* inbox: a handler whose timer fires, or whose client goes away, leaves   *)
(* its poke there, to run later.  A crash loses the tree and the inbox;    *)
(* the kernel's state and the note-counter file survive it.                *)
(*                                                                         *)
(* Data abstracted: a tree and its fields are their root; a status code is *)
(* the class of answers it belongs to.                                     *)
(***************************************************************************)
EXTENDS Naturals, FiniteSets, Sequences

CONSTANTS Ids, Hulls, Roots, Data, Gate(_, _, _), NoRoot,
          EpochCap, RegisteredCap, MaxSettles,  \* those of SettleGraft
          HullId,       \* hull_id of AppState
          MaxInbox      \* bound of the model: requests in the inbox

ASSUME HullAssumption ==
  /\ MaxSettles \in Nat
  /\ 1..(MaxSettles + 1) \subseteq Ids
  /\ HullId \in Hulls
  /\ MaxInbox \in Nat \ {0}

\* What the settle graft assumes of the constants it shares with the hull.
ASSUME KernelAssumption ==
  /\ NoRoot \notin Roots
  /\ IsFiniteSet(Hulls)
  /\ EpochCap \in Nat \ {0}
  /\ RegisteredCap \in Nat
  /\ \A id \in Ids, d \in Data, r \in Roots : Gate(id, d, r) \in {"yes", "no", "crash"}

VARIABLES epoch, registered, settled, settleCount, priorSettled, effects,
          history,      \* the kernel: the state of SettleGraft
          inbox,        \* pokes and peeks the kernel thread has yet to run
          handler,      \* what the handler that holds the mutex awaits
          tree,         \* AppState.tree: the local root, or NoRoot
          noteCounter,  \* AppState.note_counter
          rbacEnabled,  \* AppState.rbac.enabled, from the configuration at boot
          counterFile,  \* contents of .hull_note_counter, 0 if missing
          reply,        \* class of the last HTTP answer
          reported      \* ghost: ids of the notes answered as settled

Graft == INSTANCE SettleGraft

kernel == <<epoch, registered, settled, settleCount, priorSettled, effects, history>>
appState == <<tree, noteCounter, counterFile, rbacEnabled>>
vars == <<kernel, inbox, handler, appState, reply, reported>>

Pokes == [cause : {"settle-register"}, hull : Hulls, root : Roots]
           \cup [cause : {"settle-note"}, payload : Graft!Payloads]

\* [%rbac-has-perm pubkey perm]; whose key and which perm is left out.
Peek == [cause |-> "rbac-has-perm"]

\* A handler that is not idle has a poke in mind.
Idle == [phase |-> "idle"]
Phases == {"peeking", "admitted", "denied", "awaiting", "answered", "failed"}
Handlers == {Idle} \cup [phase : Phases, poke : Pokes]

Replies == {"none", "ok", "refused", "drift", "timeout", "internal"}

TypeOK ==
  /\ Graft!TypeOK
  /\ inbox \in Seq(Pokes \cup {Peek}) /\ Len(inbox) <= MaxInbox
  /\ handler \in Handlers
  /\ tree \in Roots \cup {NoRoot}
  /\ noteCounter \in Nat /\ counterFile \in Nat /\ rbacEnabled \in BOOLEAN
  /\ reply \in Replies
  /\ reported \in Seq(Ids)

-----------------------------------------------------------------------------
(* Initial state, and what the handlers share *)

Init ==
  /\ Graft!Init
  /\ inbox = <<>>
  /\ handler = Idle
  /\ tree = NoRoot
  /\ noteCounter = 0
  /\ counterFile = 0
  /\ rbacEnabled \in BOOLEAN
  /\ reply = "none"
  /\ reported = <<>>

\* The handler answers without touching AppState and releases the mutex.
Answer(status) ==
  /\ handler' = Idle
  /\ reply' = status
  /\ UNCHANGED <<appState, reported>>

\* Send a request to the kernel and await what it returns.
Await(phase, request, poke) ==
  /\ Len(inbox) < MaxInbox
  /\ inbox' = Append(inbox, request)
  /\ handler' = [phase |-> phase, poke |-> poke]
  /\ UNCHANGED <<kernel, appState, reply, reported>>

\* A handler takes the mutex to send a poke; with RBAC on it first peeks
\* whether the caller may.
Begin(poke) ==
  /\ handler = Idle
  /\ IF rbacEnabled THEN Await("peeking", Peek, poke)
                    ELSE Await("awaiting", poke, poke)

\* handle_rbac_outcome: go on to the poke, or answer 403.
RbacAdmitted ==
  /\ handler.phase = "admitted"
  /\ Await("awaiting", handler.poke, handler.poke)

RbacDenied ==
  /\ handler.phase = "denied"
  /\ Answer("refused")
  /\ UNCHANGED <<kernel, inbox>>

\* A request refused before the kernel hears of it: a bad body or header, or a
\* settle while no tree is committed.
RefuseEarly ==
  /\ handler = Idle
  /\ Answer("refused")
  /\ UNCHANGED <<kernel, inbox>>

\* classify_effects: the first effect alone decides.
Outcome(tags) ==
  CASE Head(tags) = "settle-error" -> "KernelError"
    [] Head(tags) = "settle-register-rejected" -> "KernelRejected"
    [] Head(tags) = "settle-denied" -> "GateDenied"
    [] OTHER -> "Accepted"

\* The effects have come back for a poke with this cause.
Answered(cause) == handler.phase = "answered" /\ handler.poke.cause = cause

-----------------------------------------------------------------------------
(* /commit *)

\* Any commit may be sent: the local tree is not looked at.
CommitRequest(r) ==
  Begin([cause |-> "settle-register", hull |-> HullId, root |-> r])

CommitRefused ==
  /\ Answered("settle-register")
  /\ Outcome(effects) \in {"KernelRejected", "KernelError"}
  /\ Answer("refused")
  /\ UNCHANGED <<kernel, inbox>>

\* Wrong variant of CommitDone: takes any answer for a success, as before C-01.
CommitDoneUnchecked ==
  /\ Answered("settle-register")
  /\ tree' = handler.poke.root
  /\ handler' = Idle
  /\ reply' = "ok"
  /\ UNCHANGED <<kernel, inbox, noteCounter, counterFile, rbacEnabled, reported>>

\* The kernel registered the root: fields and tree become the request's.
CommitDone ==
  /\ Answered("settle-register")
  /\ Outcome(effects) = "Accepted" /\ Head(effects) = "settle-registered"
  /\ tree' = handler.poke.root
  /\ handler' = Idle
  /\ reply' = "ok"
  /\ UNCHANGED <<kernel, inbox, noteCounter, counterFile, rbacEnabled, reported>>

-----------------------------------------------------------------------------
(* /settle *)

\* Settle under the local tree's root; the note id is the client's or, when it
\* names none, the counter's successor.
SettleRequest(id, h, d) ==
  /\ tree # NoRoot
  /\ Len(history) + Len(inbox) < MaxSettles
  /\ Begin([cause |-> "settle-note",
            payload |-> [id |-> id, hull |-> h, root |-> tree,
                         data |-> d, expected |-> tree]])

DefaultId == noteCounter + 1

SettleRefused ==
  /\ Answered("settle-note")
  /\ Outcome(effects) \in {"KernelError", "GateDenied"}
  /\ Answer("refused")
  /\ UNCHANGED <<kernel, inbox>>

\* An accepted poke whose first effect is not %settle-noted is answered 502.
SettleDrift ==
  /\ Answered("settle-note")
  /\ Outcome(effects) = "Accepted" /\ Head(effects) # "settle-noted"
  /\ Answer("drift")
  /\ UNCHANGED <<kernel, inbox>>

\* Wrong variants of SettleDone: one that takes any answer for a success, as
\* before C-01, and one whose counter becomes the id just settled.
SettleDoneUnchecked ==
  /\ Answered("settle-note")
  /\ noteCounter' = noteCounter + 1
  /\ counterFile' \in {noteCounter + 1, counterFile}
  /\ reported' = Append(reported, handler.poke.payload.id)
  /\ handler' = Idle
  /\ reply' = "ok"
  /\ UNCHANGED <<kernel, inbox, tree, rbacEnabled>>

SettleDoneCountsId ==
  /\ Answered("settle-note")
  /\ Outcome(effects) = "Accepted" /\ Head(effects) = "settle-noted"
  /\ noteCounter' = handler.poke.payload.id
  /\ counterFile' \in {handler.poke.payload.id, counterFile}
  /\ reported' = Append(reported, handler.poke.payload.id)
  /\ handler' = Idle
  /\ reply' = "ok"
  /\ UNCHANGED <<kernel, inbox, tree, rbacEnabled>>

\* The counter advances; a failed write of its file goes unnoticed.
SettleDone ==
  /\ Answered("settle-note")
  /\ Outcome(effects) = "Accepted" /\ Head(effects) = "settle-noted"
  /\ noteCounter' = noteCounter + 1
  /\ counterFile' \in {noteCounter + 1, counterFile}
  /\ reported' = Append(reported, handler.poke.payload.id)
  /\ handler' = Idle
  /\ reply' = "ok"
  /\ UNCHANGED <<kernel, inbox, tree, rbacEnabled>>

-----------------------------------------------------------------------------
(* What interrupts a handler *)

\* The kernel returned an error in place of effects or a verdict.
PokeFailed ==
  /\ handler.phase = "failed"
  /\ Answer("internal")
  /\ UNCHANGED <<kernel, inbox>>

\* Wrong variant of Timeout: the timer starts only when the poke is next.
TimeoutOfHead ==
  /\ handler.phase = "awaiting"
  /\ Len(inbox) = 1
  /\ Answer("timeout")
  /\ UNCHANGED <<kernel, inbox>>

\* The 30 s timer of a poke fires first; the poke stays where it is.  A peek
\* has no timer.
Timeout ==
  /\ handler.phase = "awaiting"
  /\ Answer("timeout")
  /\ UNCHANGED <<kernel, inbox>>

\* The client disconnects and the server drops the handler where it awaits.
ClientGone ==
  /\ handler # Idle
  /\ Answer("none")
  /\ UNCHANGED <<kernel, inbox>>

\* The process stops and boots again on the same data directory, perhaps with
\* another configuration.
CrashAndBoot ==
  /\ inbox' = <<>>
  /\ handler' = Idle
  /\ tree' = NoRoot
  /\ noteCounter' = counterFile
  /\ rbacEnabled' \in BOOLEAN
  /\ reply' = "none"
  /\ UNCHANGED <<kernel, counterFile, reported>>

-----------------------------------------------------------------------------
(* The kernel thread *)

\* The head of the inbox leaves it.  The handler's own request is always the
\* last one in: it hears of the outcome iff it still waits for that one.
Take(phase) ==
  /\ inbox' = Tail(inbox)
  /\ handler' = IF handler.phase \in {"peeking", "awaiting"} /\ Len(inbox) = 1
                THEN [handler EXCEPT !.phase = phase] ELSE handler
  /\ UNCHANGED <<appState, reply, reported>>

\* Run the oldest poke and return its effects.
KernelRuns ==
  /\ inbox # <<>>
  /\ LET poke == Head(inbox) IN
       \/ /\ poke.cause = "settle-register"
          /\ Graft!SettleRegister(poke.hull, poke.root)
       \/ /\ poke.cause = "settle-note"
          /\ Graft!SettleNote(poke.payload)
  /\ Take("answered")

\* Answer the peek; what the roles hold is left out.
KernelPeeks ==
  /\ inbox # <<>> /\ Head(inbox) = Peek
  /\ Take("admitted") \/ Take("denied")
  /\ UNCHANGED kernel

\* Wrong variant of KernelFails: the handler reads an error as an answer.
KernelFailsAsAnswer ==
  /\ inbox # <<>>
  /\ Take("answered")
  /\ UNCHANGED kernel

\* The request crashes: no effects, and the old state stands.
KernelFails ==
  /\ inbox # <<>>
  /\ Take("failed")
  /\ UNCHANGED kernel

Finish ==
  RbacAdmitted \/ RbacDenied \/ CommitRefused \/ CommitDone
    \/ SettleRefused \/ SettleDrift \/ SettleDone \/ PokeFailed

Next ==
  \/ RefuseEarly
  \/ \E r \in Roots : CommitRequest(r)
  \/ \E id \in Ids \cup {DefaultId}, h \in Hulls, d \in Data :
       SettleRequest(id, h, d)
  \/ RbacAdmitted
  \/ RbacDenied
  \/ CommitRefused
  \/ CommitDone
  \/ SettleRefused
  \/ SettleDrift
  \/ SettleDone
  \/ PokeFailed
  \/ Timeout
  \/ ClientGone
  \/ CrashAndBoot
  \/ KernelRuns
  \/ KernelPeeks
  \/ KernelFails

\* The runtime polls a handler whose poke has been answered and fires timers;
\* nothing is assumed of the kernel thread, which may hang.
Fairness == WF_vars(Finish) /\ WF_vars(Timeout)

Spec == Init /\ [][Next]_vars /\ Fairness

-----------------------------------------------------------------------------
(* Properties *)

\* The tree the hull serves proofs and settles from is the one the kernel
\* attests: no order of timeouts, late pokes and restarts desyncs them (C-01).
ServedTreeIsRegistered == tree # NoRoot => registered[HullId] = tree

\* How often id occurs in a sequence of ids.
Occurrences(id, s) == Cardinality({k \in DOMAIN s : s[k] = id})

\* Every note a client was told is settled is in the kernel's history, once per
\* answer: a 200 is never an echo of another handler's poke.
ReportedIsSettled ==
  \A id \in Ids :
    Occurrences(id, reported)
      <= Occurrences(id, [k \in DOMAIN history |-> history[k].id])

\* notes_settled of /status, in memory or reloaded from the file after any
\* crash, never counts a note the kernel has not settled.
CounterNeverAhead ==
  /\ counterFile <= noteCounter
  /\ noteCounter <= Len(history)

\* The request a handler waits for is the last one in the inbox, and once it has
\* heard of it the inbox is empty: no answer reaches the wrong handler.  When
\* the answer reports a success, the kernel's state already shows it.
AnswersMatch ==
  /\ handler.phase = "peeking" => inbox # <<>> /\ inbox[Len(inbox)] = Peek
  /\ handler.phase = "awaiting" =>
       inbox # <<>> /\ inbox[Len(inbox)] = handler.poke
  /\ handler.phase \in {"admitted", "denied", "answered", "failed"} =>
       inbox = <<>>
  /\ Answered("settle-register") =>
       /\ effects # <<>>
       /\ Head(effects) = "settle-registered" =>
            registered[handler.poke.hull] = handler.poke.root
  /\ Answered("settle-note") =>
       /\ effects # <<>>
       /\ Head(effects) = "settle-noted" =>
            /\ noteCounter < Len(history)
            /\ history[Len(history)].id = handler.poke.payload.id

\* Whatever the kernel thread does, the mutex is released or waits for a peek:
\* a stuck poke does not lock every later request out.
OnlyPeeksHoldTheMutex == []<>(handler = Idle \/ handler.phase = "peeking")

-----------------------------------------------------------------------------
(* Two statements of the repository that the code does not meet *)

\* settle.rs:112: the counter and the HTTP success follow the kernel's
\* acceptance: an answered poke that settled its note is answered 200.
SettlementIsReported ==
  [][ /\ Answered("settle-note")
      /\ \E k \in DOMAIN effects : effects[k] = "settle-noted"
      /\ reply' # "none"
      /\ handler' = Idle
      => reply' = "ok" /\ noteCounter' = noteCounter + 1 ]_vars

\* types.rs:36: a single mutex suffices since no handler blocks for long.
NoHandlerBlocks == []<>(handler = Idle)

=============================================================================
