----------------------------- MODULE QueueGraft -----------------------------
(***************************************************************************)
(* hoon/lib/queue-graft.hoon: a FIFO of jobs with ids of its own.          *)
(*                                                                         *)
(* One action per cause and outcome.  pushed, popped and dropped are       *)
(* ghosts: every job accepted, every job handed out, and the ids that a    *)
(* clear threw away.                                                       *)
(***************************************************************************)
EXTENDS JammedPayloads, Integers, Sequences

CONSTANTS QueueCap,  \* pending-cap
          FirstId,   \* 1 from new-state; 0 in a composed kernel, which starts as the
                     \* bunt of its state type
          MaxPushes  \* bound of the model: accepted jobs

ASSUME QueueAssumption == QueueCap \in Nat /\ FirstId \in Nat /\ MaxPushes \in Nat

VARIABLES queuePending, nextId, queueEffect, pushed, popped, dropped

queueVars == <<queuePending, nextId, queueEffect, pushed, popped, dropped>>

Jobs == [id : Nat, body : Nouns]

QueueInit ==
  /\ queuePending = <<>>
  /\ nextId = FirstId
  /\ queueEffect = "none"
  /\ pushed = <<>> /\ popped = <<>> /\ dropped = {}

\* A refusal leaves the state alone.
QueueRefuse ==
  /\ queueEffect' = "queue-error"
  /\ UNCHANGED <<queuePending, nextId, pushed, popped, dropped>>

QueuePush(payload) ==
  /\ payload # Malformed
  /\ Len(queuePending) < QueueCap
  /\ Len(pushed) < MaxPushes
  /\ LET job == [id |-> nextId, body |-> payload] IN
       /\ queuePending' = Append(queuePending, job)
       /\ pushed' = Append(pushed, job)
  /\ nextId' = nextId + 1
  /\ queueEffect' = "queue-pushed"
  /\ UNCHANGED <<popped, dropped>>

\* The payload is decoded first; both refusals have the same effect.
QueuePushRefused(payload) ==
  /\ payload = Malformed \/ Len(queuePending) >= QueueCap
  /\ QueueRefuse

\* Wrong variant of QueuePop: the job stays pending.
QueuePopKeeps ==
  /\ queuePending # <<>>
  /\ popped' = Append(popped, Head(queuePending))
  /\ queueEffect' = "queue-popped"
  /\ UNCHANGED <<queuePending, nextId, pushed, dropped>>

QueuePop ==
  /\ queuePending # <<>>
  /\ queuePending' = Tail(queuePending)
  /\ popped' = Append(popped, Head(queuePending))
  /\ queueEffect' = "queue-popped"
  /\ UNCHANGED <<nextId, pushed, dropped>>

\* A pop of an empty queue pops no job.
QueuePopEmpty ==
  /\ queuePending = <<>>
  /\ queueEffect' = "queue-popped"
  /\ UNCHANGED <<queuePending, nextId, pushed, popped, dropped>>

PendingIds == { queuePending[i].id : i \in DOMAIN queuePending }

\* next-id is preserved.
QueueClear ==
  /\ queuePending' = <<>>
  /\ dropped' = dropped \cup PendingIds
  /\ queueEffect' = "queue-cleared"
  /\ UNCHANGED <<nextId, pushed, popped>>

QueueNext ==
  \/ \E payload \in JammedAtoms : QueuePush(payload) \/ QueuePushRefused(payload)
  \/ QueuePop
  \/ QueuePopEmpty
  \/ QueueClear

QueueSpec == QueueInit /\ [][QueueNext]_queueVars

-----------------------------------------------------------------------------
(* Properties *)

QueueTypeOK ==
  /\ queuePending \in Seq(Jobs) /\ Len(queuePending) <= QueueCap
  /\ nextId \in Nat
  /\ queueEffect \in {"none", "queue-pushed", "queue-popped", "queue-cleared", "queue-error"}
  /\ pushed \in Seq(Jobs) /\ popped \in Seq(Jobs)
  /\ dropped \subseteq Nat

\* Jobs are handed out in the order they were accepted, each at most once and as
\* it was pushed, whatever clears and refusals come between; so an id names one
\* job for ever, also for a client that holds one from before a clear.
PopsInPushOrder ==
  /\ \A i, j \in DOMAIN popped : i < j => popped[i].id < popped[j].id
  /\ \A i \in DOMAIN popped : \E j \in DOMAIN pushed : popped[i] = pushed[j]

\* No job is lost or doubled: each one accepted is pending, handed out or cleared,
\* and only one of these.
JobsConserved ==
  \A j \in DOMAIN pushed :
    LET isPending == \E i \in DOMAIN queuePending : queuePending[i] = pushed[j]
        isPopped  == \E i \in DOMAIN popped : popped[i] = pushed[j]
        isDropped == pushed[j].id \in dropped
    IN  \/ isPending /\ ~isPopped /\ ~isDropped
        \/ ~isPending /\ isPopped /\ ~isDropped
        \/ ~isPending /\ ~isPopped /\ isDropped

\* The queue gives what it was given: each job once, unchanged and in order, or not at
\* all after a clear.
QueueFaithful == PopsInPushOrder /\ JobsConserved

=============================================================================
