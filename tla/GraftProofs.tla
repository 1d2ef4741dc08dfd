---------------------------- MODULE GraftProofs ----------------------------
(***************************************************************************)
(* Theorems about the queue, batch, log and RBAC grafts for every cap and  *)
(* every set of payloads, keys and permissions, and their proofs.          *)
(*                                                                         *)
(* The graft's lists are told from the ghosts: the ids of the jobs are     *)
(* their places among those accepted, counted from the first id, and what  *)
(* is pending is the last of them (QueueShape); the log is the last of     *)
(* what was logged, reversed.                                              *)
(***************************************************************************)
EXTENDS QueueGraft, BatchGraft, LogGraft, RbacGraft,
        SequenceTheorems, FiniteSetTheorems, TLAPS

-----------------------------------------------------------------------------
(* queue-graft *)

\* How many jobs have left the queue.
Gone == Len(pushed) - Len(queuePending)

\* The place of an id among those given, and the ids of the jobs that have left.
Place(id) == id - FirstId + 1
GoneIds == FirstId..(FirstId + Gone - 1)

QueueTyped ==
  /\ queuePending \in Seq(Jobs) /\ pushed \in Seq(Jobs) /\ popped \in Seq(Jobs)
  /\ Len(queuePending) <= QueueCap
  /\ nextId \in Nat
  /\ queueEffect \in {"none", "queue-pushed", "queue-popped", "queue-cleared", "queue-error"}

\* Ids are places, and the pending jobs are the last ones pushed.
PendingIsTail ==
  /\ nextId = FirstId + Len(pushed)
  /\ \A i \in 1..Len(pushed) : pushed[i].id = FirstId + i - 1
  /\ Len(queuePending) <= Len(pushed)
  /\ \A i \in 1..Len(queuePending) : queuePending[i] = pushed[Gone + i]

\* The jobs before them were popped, in order, or cleared.
GoneAccounted ==
  /\ \A i \in 1..Len(popped) : popped[i].id \in GoneIds /\ popped[i] = pushed[Place(popped[i].id)]
  /\ \A i, j \in 1..Len(popped) : i < j => popped[i].id < popped[j].id
  /\ dropped \subseteq GoneIds
  /\ \A n \in GoneIds : n \in dropped <=> ~ \E i \in 1..Len(popped) : popped[i].id = n

QueueShape == QueueTyped /\ PendingIsTail /\ GoneAccounted

\* The id of a job that has left has a place among those given.
LEMMA PlaceOfGone ==
  ASSUME FirstId \in Nat, Len(pushed) \in Nat, Gone \in Nat, Gone <= Len(pushed), NEW n \in GoneIds
  PROVE  Place(n) \in 1..Len(pushed)
<1> HIDE DEF Gone
<1>1. n \in Int /\ FirstId <= n /\ n <= FirstId + Gone - 1
  BY DEF GoneIds
<1>2. QED  BY <1>1 DEF Place

\* A push keeps the shape: the new job takes the next place.
LEMMA PushKeepsShape ==
  ASSUME QueueShape, NEW payload \in JammedAtoms, QueuePush(payload)
  PROVE  QueueShape'
<1> DEFINE job == [id |-> nextId, body |-> payload]
<1>1. /\ job \in Jobs
      /\ queuePending' = Append(queuePending, job) /\ pushed' = Append(pushed, job)
      /\ nextId' = nextId + 1 /\ popped' = popped /\ dropped' = dropped
      /\ queueEffect' = "queue-pushed" /\ Len(queuePending) < QueueCap
      /\ job.id = nextId
  BY DEF QueueShape, QueueTyped, QueuePush, JammedAtoms, Jobs
<1> HIDE DEF job
<1>2. /\ queuePending \in Seq(Jobs) /\ pushed \in Seq(Jobs) /\ popped \in Seq(Jobs)
      /\ nextId \in Nat /\ nextId = FirstId + Len(pushed) /\ FirstId \in Nat
      /\ Len(queuePending) \in Nat /\ Len(pushed) \in Nat /\ Len(popped) \in Nat
      /\ Len(queuePending) <= Len(pushed)
  BY QueueAssumption DEF QueueShape, QueueTyped, PendingIsTail
<1>3. /\ Len(queuePending') = Len(queuePending) + 1 /\ Len(pushed') = Len(pushed) + 1
      /\ queuePending' \in Seq(Jobs) /\ pushed' \in Seq(Jobs)
      /\ Gone' = Gone /\ Gone \in 0..Len(pushed) /\ GoneIds' = GoneIds
  BY <1>1, <1>2 DEF Gone, GoneIds
<1>4. /\ \A i \in 1..Len(pushed) : pushed'[i] = pushed[i]
      /\ pushed'[Len(pushed) + 1] = job
      /\ \A i \in 1..Len(queuePending) : queuePending'[i] = queuePending[i]
      /\ queuePending'[Len(queuePending) + 1] = job
  BY <1>1, <1>2
<1>5. QueueTyped'
  BY <1>1, <1>2, <1>3, QueueAssumption DEF QueueTyped
<1>6. PendingIsTail'
  <2>1. ASSUME NEW i \in 1..Len(pushed') PROVE pushed'[i].id = FirstId + i - 1
    <3>1. CASE i \in 1..Len(pushed)
      <4>1. pushed[i].id = FirstId + i - 1
        BY <3>1 DEF QueueShape, PendingIsTail
      <4>2. QED  BY <1>4, <3>1, <4>1
    <3>2. CASE i = Len(pushed) + 1
      <4>1. pushed'[i].id = nextId
        BY <1>1, <1>4, <3>2
      <4>2. QED  BY <1>2, <3>2, <4>1
    <3>3. QED  BY <1>2, <1>3, <3>1, <3>2
  <2>2. ASSUME NEW i \in 1..Len(queuePending')
        PROVE  queuePending'[i] = pushed'[Gone + i]
    <3>1. CASE i \in 1..Len(queuePending)
      <4>1. queuePending[i] = pushed[Gone + i] /\ Gone + i \in 1..Len(pushed)
        BY <1>2, <1>3, <3>1 DEF QueueShape, PendingIsTail, Gone
      <4>2. QED  BY <1>4, <3>1, <4>1
    <3>2. CASE i = Len(queuePending) + 1
      <4>1. Gone + i = Len(pushed) + 1
        BY <1>2, <3>2 DEF Gone
      <4>2. QED  BY <1>4, <3>2, <4>1
    <3>3. QED  BY <1>2, <1>3, <3>1, <3>2
  <2>3. nextId' = FirstId + Len(pushed') /\ Len(queuePending') <= Len(pushed')
    BY <1>1, <1>2, <1>3
  <2>4. QED  BY <1>3, <2>1, <2>2, <2>3 DEF PendingIsTail
<1>7. GoneAccounted'
  <2>1. ASSUME NEW i \in 1..Len(popped)
        PROVE  popped[i].id \in GoneIds /\ popped[i] = pushed'[Place(popped[i].id)]
    <3>1. popped[i].id \in GoneIds /\ popped[i] = pushed[Place(popped[i].id)]
      BY DEF QueueShape, GoneAccounted
    <3>2. Place(popped[i].id) \in 1..Len(pushed)
      BY <1>2, <1>3, <3>1, PlaceOfGone
    <3>3. QED  BY <1>4, <3>1, <3>2
  <2>2. QED  BY <1>1, <1>3, <2>1 DEF QueueShape, GoneAccounted
<1>8. QED  BY <1>5, <1>6, <1>7 DEF QueueShape

\* A pop keeps the shape: the head is the next job after those gone.
LEMMA PopKeepsShape ==
  ASSUME QueueShape, QueuePop
  PROVE  QueueShape'
<1> DEFINE job == Head(queuePending)
<1>1. /\ queuePending # <<>> /\ queuePending' = Tail(queuePending)
      /\ popped' = Append(popped, job) /\ queueEffect' = "queue-popped"
      /\ pushed' = pushed /\ nextId' = nextId /\ dropped' = dropped
  BY DEF QueuePop
<1>2. /\ queuePending \in Seq(Jobs) /\ pushed \in Seq(Jobs) /\ popped \in Seq(Jobs)
      /\ Len(queuePending) \in Nat \ {0} /\ Len(pushed) \in Nat /\ Len(popped) \in Nat
      /\ Len(queuePending) <= Len(pushed) /\ Gone \in Nat /\ FirstId \in Nat
  BY <1>1, QueueAssumption DEF QueueShape, QueueTyped, PendingIsTail, Gone
<1>3. /\ Len(queuePending') = Len(queuePending) - 1 /\ queuePending' \in Seq(Jobs)
      /\ \A i \in 1..Len(queuePending') : queuePending'[i] = queuePending[i + 1]
      /\ job = queuePending[1] /\ job \in Jobs
      /\ Gone' = Gone + 1
      /\ GoneIds' = GoneIds \cup {FirstId + Gone} /\ FirstId + Gone \notin GoneIds
  <2>1. /\ Len(queuePending') = Len(queuePending) - 1 /\ queuePending' \in Seq(Jobs)
        /\ \A i \in 1..Len(queuePending') : queuePending'[i] = queuePending[i + 1]
        /\ job = queuePending[1] /\ job \in Jobs
    BY <1>1, <1>2
  <2>2. Gone' = Gone + 1
    BY <1>1, <1>2, <2>1 DEF Gone
  <2>3. GoneIds' = FirstId..(FirstId + (Gone + 1) - 1)
    BY <2>2 DEF GoneIds
  <2>4. GoneIds' = GoneIds \cup {FirstId + Gone}
    <3>1. FirstId..(FirstId + (Gone + 1) - 1) = GoneIds \cup {FirstId + Gone}
      BY <1>2 DEF GoneIds
    <3>2. QED  BY <2>3, <3>1
  <2>5. FirstId + Gone \notin GoneIds
    BY <1>2 DEF GoneIds
  <2>6. QED  BY <2>1, <2>2, <2>4, <2>5
<1>4. job = pushed[Gone + 1] /\ job.id = FirstId + Gone
  <2>1. queuePending[1] = pushed[Gone + 1] /\ Gone + 1 \in 1..Len(pushed)
    BY <1>2 DEF QueueShape, PendingIsTail, Gone
  <2>2. pushed[Gone + 1].id = FirstId + (Gone + 1) - 1
    BY <2>1 DEF QueueShape, PendingIsTail
  <2>3. QED  BY <1>2, <1>3, <2>1, <2>2
<1> HIDE DEF job
<1>5. /\ Len(popped') = Len(popped) + 1 /\ popped' \in Seq(Jobs)
      /\ \A i \in 1..Len(popped) : popped'[i] = popped[i]
      /\ popped'[Len(popped) + 1] = job
  BY <1>1, <1>2, <1>3
<1>6. QueueTyped'
  BY <1>1, <1>2, <1>3, <1>5, QueueAssumption DEF QueueShape, QueueTyped
<1>7. PendingIsTail'
  <2>1. ASSUME NEW i \in 1..Len(queuePending')
        PROVE  queuePending'[i] = pushed[Gone + 1 + i]
    <3>1. i + 1 \in 1..Len(queuePending) /\ Gone + (i + 1) = Gone + 1 + i
      BY <1>2, <1>3
    <3>2. QED  BY <1>3, <3>1 DEF QueueShape, PendingIsTail
  <2>2. QED  BY <1>1, <1>2, <1>3, <2>1 DEF QueueShape, PendingIsTail
<1>8. GoneAccounted'
  <2>1. \A i \in 1..Len(popped) : popped[i].id \in GoneIds /\ popped[i] = pushed[Place(popped[i].id)]
    BY DEF QueueShape, GoneAccounted
  <2>2. ASSUME NEW i \in 1..Len(popped')
        PROVE  popped'[i].id \in GoneIds' /\ popped'[i] = pushed[Place(popped'[i].id)]
    <3>1. CASE i \in 1..Len(popped)
      BY <1>3, <1>5, <2>1, <3>1
    <3>2. CASE i = Len(popped) + 1
      <4>1. Place(FirstId + Gone) = Gone + 1
        BY <1>2 DEF Place
      <4>2. popped'[i] = job
        BY <1>5, <3>2
      <4>3. QED  BY <1>3, <1>4, <4>1, <4>2
    <3>3. QED  BY <1>2, <1>5, <3>1, <3>2
  <2>3. \A i, j \in 1..Len(popped') : i < j => popped'[i].id < popped'[j].id
    <3> SUFFICES ASSUME NEW i \in 1..Len(popped'), NEW j \in 1..Len(popped'), i < j
                 PROVE  popped'[i].id < popped'[j].id
      OBVIOUS
    <3>1. i \in 1..Len(popped) /\ popped'[i] = popped[i]
      BY <1>2, <1>5
    <3>2. CASE j \in 1..Len(popped)
      <4>1. popped[i].id < popped[j].id
        BY <3>1, <3>2 DEF QueueShape, GoneAccounted
      <4>2. QED  BY <1>5, <3>1, <3>2, <4>1
    <3>3. CASE j = Len(popped) + 1
      <4>1. popped'[i].id \in GoneIds
        BY <2>1, <3>1
      <4>2. popped'[j].id = FirstId + Gone
        BY <1>4, <1>5, <3>3
      <4>3. QED  BY <1>2, <4>1, <4>2 DEF GoneIds
    <3>4. j \in 1..Len(popped) \/ j = Len(popped) + 1
      BY <1>2, <1>5
    <3>5. QED  BY <3>2, <3>3, <3>4
  <2>4. dropped \subseteq GoneIds'
    BY <1>3 DEF QueueShape, GoneAccounted
  <2>5. ASSUME NEW n \in GoneIds'
        PROVE  n \in dropped <=> ~ \E i \in 1..Len(popped') : popped'[i].id = n
    <3>1. CASE n = FirstId + Gone
      <4>1. n \notin dropped
        BY <1>3, <3>1 DEF QueueShape, GoneAccounted
      <4>2. Len(popped) + 1 \in 1..Len(popped') /\ popped'[Len(popped) + 1].id = n
        BY <1>2, <1>4, <1>5, <3>1
      <4>3. QED  BY <4>1, <4>2
    <3>2. CASE n \in GoneIds
      <4>1. (\E i \in 1..Len(popped') : popped'[i].id = n) <=> \E i \in 1..Len(popped) : popped[i].id = n
        <5>1. /\ 1..Len(popped') = 1..Len(popped) \cup {Len(popped) + 1}
              /\ popped'[Len(popped) + 1].id # n
          BY <1>2, <1>3, <1>4, <1>5, <3>2
        <5>2. QED  BY <1>5, <5>1
      <4>2. QED  BY <3>2, <4>1 DEF QueueShape, GoneAccounted
    <3>3. QED  BY <1>3, <3>1, <3>2
  <2>6. QED  BY <1>1, <1>3, <2>2, <2>3, <2>4, <2>5 DEF GoneAccounted
<1>9. QED  BY <1>6, <1>7, <1>8 DEF QueueShape

\* A clear keeps the shape: it drops the places after those gone, and no other.
LEMMA ClearKeepsShape ==
  ASSUME QueueShape, QueueClear
  PROVE  QueueShape'
<1>1. /\ queuePending' = <<>> /\ dropped' = dropped \cup PendingIds
      /\ queueEffect' = "queue-cleared"
      /\ pushed' = pushed /\ nextId' = nextId /\ popped' = popped
  BY DEF QueueClear
<1>2. /\ queuePending \in Seq(Jobs) /\ pushed \in Seq(Jobs) /\ popped \in Seq(Jobs)
      /\ Len(queuePending) \in Nat /\ Len(pushed) \in Nat /\ Len(popped) \in Nat
      /\ Len(queuePending) <= Len(pushed) /\ Gone \in Nat /\ FirstId \in Nat
      /\ queuePending' \in Seq(Jobs) /\ Len(queuePending') = 0 /\ Gone' = Len(pushed)
      /\ GoneIds' = FirstId..(FirstId + Len(pushed) - 1) /\ GoneIds \subseteq GoneIds'
  <2>1. FirstId \in Nat
    BY QueueAssumption
  <2>2. QED  BY <1>1, <2>1 DEF QueueShape, QueueTyped, PendingIsTail, Gone, GoneIds
<1>3. PendingIds = (FirstId + Gone)..(FirstId + Len(pushed) - 1)
  <2>1. ASSUME NEW i \in 1..Len(queuePending) PROVE queuePending[i].id = FirstId + Gone + i - 1
    <3>1. Gone + i \in 1..Len(pushed)
      BY <1>2 DEF Gone
    <3>2. queuePending[i] = pushed[Gone + i] /\ pushed[Gone + i].id = FirstId + (Gone + i) - 1
      BY <3>1 DEF QueueShape, PendingIsTail
    <3>3. QED  BY <1>2, <3>2
  <2>2. \A n \in (FirstId + Gone)..(FirstId + Len(pushed) - 1) :
          LET i == n - FirstId - Gone + 1 IN
            i \in 1..Len(queuePending) /\ FirstId + Gone + i - 1 = n
    BY <1>2 DEF Gone
  <2>3. \A i \in 1..Len(queuePending) :
          FirstId + Gone + i - 1 \in (FirstId + Gone)..(FirstId + Len(pushed) - 1)
    BY <1>2 DEF Gone
  <2>4. DOMAIN queuePending = 1..Len(queuePending)
    BY <1>2
  <2>5. PendingIds \subseteq (FirstId + Gone)..(FirstId + Len(pushed) - 1)
    BY <2>1, <2>3, <2>4 DEF PendingIds
  <2>6. (FirstId + Gone)..(FirstId + Len(pushed) - 1) \subseteq PendingIds
    <3> SUFFICES ASSUME NEW n \in (FirstId + Gone)..(FirstId + Len(pushed) - 1)
                 PROVE  n \in PendingIds
      OBVIOUS
    <3>1. PICK i : i = n - FirstId - Gone + 1
      OBVIOUS
    <3>2. i \in DOMAIN queuePending /\ queuePending[i].id = n
      BY <2>1, <2>2, <2>4, <3>1
    <3>3. QED  BY <3>2 DEF PendingIds
  <2>7. QED  BY <2>5, <2>6
<1>4. QueueTyped'
  BY <1>1, <1>2, QueueAssumption DEF QueueShape, QueueTyped
<1>5. PendingIsTail'
  BY <1>1, <1>2 DEF QueueShape, PendingIsTail
<1>6. GoneAccounted'
  <2>1. \A i \in 1..Len(popped) : popped[i].id \in GoneIds' /\ popped[i].id < FirstId + Gone
    BY <1>2 DEF QueueShape, GoneAccounted, GoneIds
  <2>2. dropped' \subseteq GoneIds'
    <3>1. dropped \subseteq GoneIds
      BY DEF QueueShape, GoneAccounted
    <3>2. (FirstId + Gone)..(FirstId + Len(pushed) - 1) \subseteq GoneIds'
      BY <1>2
    <3>3. QED  BY <1>1, <1>2, <1>3, <3>1, <3>2
  <2>3. ASSUME NEW n \in GoneIds'
        PROVE  n \in dropped' <=> ~ \E i \in 1..Len(popped) : popped[i].id = n
    <3>1. CASE n \in GoneIds
      <4>1. n \notin PendingIds
        BY <1>2, <1>3, <3>1 DEF GoneIds
      <4>2. QED  BY <1>1, <3>1, <4>1 DEF QueueShape, GoneAccounted
    <3>2. CASE n \in PendingIds
      BY <1>1, <1>2, <1>3, <2>1, <3>2
    <3>3. QED  BY <1>2, <1>3, <3>1, <3>2 DEF GoneIds
  <2>4. \A i \in 1..Len(popped) : popped[i] = pushed[Place(popped[i].id)]
    BY DEF QueueShape, GoneAccounted
  <2>5. QED  BY <1>1, <1>2, <2>1, <2>2, <2>3, <2>4 DEF QueueShape, GoneAccounted, Place
<1>7. QED  BY <1>4, <1>5, <1>6 DEF QueueShape

\* QueueShape is inductive: ids are places among the jobs accepted, what is pending
\* is the last of them, and every other was popped or cleared and not both.
THEOREM QueueShapeCorrect == QueueSpec => []QueueShape
<1>1. QueueInit => QueueShape
  BY EmptySeq, QueueAssumption DEF QueueInit, QueueShape, QueueTyped, PendingIsTail, GoneAccounted, Gone, GoneIds
<1>2. QueueShape /\ [QueueNext]_queueVars => QueueShape'
  <2> SUFFICES ASSUME QueueShape, [QueueNext]_queueVars PROVE QueueShape'
    OBVIOUS
  <2> DEFINE same == UNCHANGED <<queuePending, nextId, pushed, popped, dropped>>
  <2>1. ASSUME same, queueEffect' \in {queueEffect, "queue-error", "queue-popped"}
        PROVE  QueueShape'
    <3>1. QueueTyped'  BY <2>1 DEF QueueShape, QueueTyped
    <3>2. PendingIsTail'  BY <2>1 DEF QueueShape, PendingIsTail, Gone
    <3>3. GoneIds' = GoneIds /\ GoneAccounted'
      BY <2>1 DEF QueueShape, GoneAccounted, Gone, GoneIds, Place
    <3>4. QED  BY <3>1, <3>2, <3>3 DEF QueueShape
  <2>2. ASSUME NEW payload \in JammedAtoms, QueuePush(payload) PROVE QueueShape'
    BY <2>2, PushKeepsShape
  <2>3. ASSUME NEW payload \in JammedAtoms, QueuePushRefused(payload) PROVE QueueShape'
    BY <2>1, <2>3 DEF QueuePushRefused, QueueRefuse
  <2>4. CASE QueuePop
    BY <2>4, PopKeepsShape
  <2>5. CASE QueuePopEmpty
    BY <2>1, <2>5 DEF QueuePopEmpty
  <2>6. CASE QueueClear
    BY <2>6, ClearKeepsShape
  <2>7. CASE UNCHANGED queueVars
    BY <2>1, <2>7 DEF queueVars
  <2>8. QED  BY <2>2, <2>3, <2>4, <2>5, <2>6, <2>7 DEF QueueNext
<1>3. QED  BY <1>1, <1>2, PTL DEF QueueSpec

\* PopsInPushOrder: whatever pushes, pops, clears and refusals come, jobs leave in
\* the order they came, each once and unchanged.
THEOREM PopsInPushOrderCorrect == QueueSpec => []PopsInPushOrder
<1>1. QueueShape => PopsInPushOrder
  <2> SUFFICES ASSUME QueueShape PROVE PopsInPushOrder
    OBVIOUS
  <2>1. DOMAIN popped = 1..Len(popped) /\ DOMAIN pushed = 1..Len(pushed)
    BY DEF QueueShape, QueueTyped
  <2>2. Len(pushed) \in Nat /\ Len(queuePending) \in Nat /\ FirstId \in Nat
    BY QueueAssumption DEF QueueShape, QueueTyped
  <2>3. \A n \in GoneIds : Place(n) \in 1..Len(pushed)
    BY <2>2 DEF GoneIds, Place, Gone
  <2>4. QED  BY <2>1, <2>3 DEF QueueShape, GoneAccounted, PopsInPushOrder
<1>2. QED  BY <1>1, QueueShapeCorrect, PTL

\* JobsConserved: every job accepted is pending, popped or cleared, and only one of
\* these.
THEOREM JobsConservedCorrect == QueueSpec => []JobsConserved
<1>1. QueueShape => JobsConserved
  <2> SUFFICES ASSUME QueueShape, NEW j \in DOMAIN pushed
      PROVE LET isPending == \E i \in DOMAIN queuePending : queuePending[i] = pushed[j]
                isPopped  == \E i \in DOMAIN popped : popped[i] = pushed[j]
                isDropped == pushed[j].id \in dropped
            IN  \/ isPending /\ ~isPopped /\ ~isDropped
                \/ ~isPending /\ isPopped /\ ~isDropped
                \/ ~isPending /\ ~isPopped /\ isDropped
    BY DEF JobsConserved
  <2>1. /\ DOMAIN popped = 1..Len(popped) /\ DOMAIN queuePending = 1..Len(queuePending)
        /\ j \in 1..Len(pushed) /\ Len(pushed) \in Nat /\ Len(queuePending) \in Nat
        /\ Len(queuePending) <= Len(pushed) /\ Gone \in 0..Len(pushed) /\ FirstId \in Nat
    BY QueueAssumption DEF QueueShape, QueueTyped, PendingIsTail, Gone
  <2>2. pushed[j].id = FirstId + j - 1
    BY <2>1 DEF QueueShape, PendingIsTail
  <2>3. ASSUME NEW i \in 1..Len(queuePending)
        PROVE  queuePending[i] = pushed[Gone + i] /\ queuePending[i].id = FirstId + Gone + i - 1
    <3>1. Gone + i \in 1..Len(pushed)
      BY <2>1 DEF Gone
    <3>2. queuePending[i] = pushed[Gone + i] /\ pushed[Gone + i].id = FirstId + (Gone + i) - 1
      BY <3>1 DEF QueueShape, PendingIsTail
    <3>3. QED  BY <2>1, <3>2
  <2>4. CASE j \in 1..Gone
    <3>1. ~ \E i \in DOMAIN queuePending : queuePending[i] = pushed[j]
      BY <2>1, <2>2, <2>3, <2>4
    <3>2. (\E i \in DOMAIN popped : popped[i] = pushed[j]) <=> \E i \in 1..Len(popped) : popped[i].id = pushed[j].id
      <4>1. \A i \in 1..Len(popped) : popped[i] = pushed[Place(popped[i].id)]
        BY DEF QueueShape, GoneAccounted
      <4>2. Place(pushed[j].id) = j
        BY <2>1, <2>2 DEF Place
      <4>3. QED  BY <2>1, <4>1, <4>2
    <3>3. pushed[j].id \in GoneIds
      BY <2>1, <2>2, <2>4 DEF GoneIds
    <3>4. QED  BY <3>1, <3>2, <3>3 DEF QueueShape, GoneAccounted
  <2>5. CASE j \in (Gone + 1)..Len(pushed)
    <3>1. \E i \in DOMAIN queuePending : queuePending[i] = pushed[j]
      <4>1. j - Gone \in 1..Len(queuePending) /\ Gone + (j - Gone) = j
        BY <2>1, <2>5 DEF Gone
      <4>2. QED  BY <2>1, <2>3, <4>1
    <3>2. ~ \E i \in DOMAIN popped : popped[i] = pushed[j]
      BY <2>1, <2>2, <2>5 DEF QueueShape, GoneAccounted, GoneIds
    <3>3. pushed[j].id \notin dropped
      BY <2>1, <2>2, <2>5 DEF QueueShape, GoneAccounted, GoneIds
    <3>4. QED  BY <2>2, <3>1, <3>2, <3>3
  <2>6. QED  BY <2>1, <2>4, <2>5
<1>2. QED  BY <1>1, QueueShapeCorrect, PTL

\* QueueFaithful: each job pushed comes out once, unchanged and in order, waits, or was
\* cleared.
THEOREM QueueFaithfulCorrect == QueueSpec => []QueueFaithful
<1>1. PopsInPushOrder /\ JobsConserved => QueueFaithful
  BY DEF QueueFaithful
<1>2. QED  BY <1>1, PopsInPushOrderCorrect, JobsConservedCorrect, PTL

-----------------------------------------------------------------------------
(* batch-graft *)

BatchShape == BatchTypeOK /\ IntentsConserved

\* An accepted intent keeps the ledger, whether or not it fires a flush.
LEMMA AddKeepsShape ==
  ASSUME BatchShape, NEW payload \in JammedAtoms, BatchAdd(payload)
  PROVE  BatchShape'
<1> DEFINE now == Append(batchPending, payload)
<1>1. /\ payload \in Nouns /\ batchPending \in Seq(Nouns) /\ flushed \in Seq(Nouns)
      /\ added \in Seq(Nouns) /\ flushed \o batchPending = added
      /\ counter \in Nat /\ counter = Len(added)
      /\ Len(batchPending) \in Nat /\ Len(batchPending) < BatchCap
      /\ counter' = counter + 1 /\ added' = Append(added, payload)
      /\ threshold' = threshold /\ threshold \in 0..BatchCap
  BY DEF BatchShape, BatchTypeOK, IntentsConserved, BatchAdd, JammedAtoms
<1>2. /\ now \in Seq(Nouns) /\ Len(now) = Len(batchPending) + 1
      /\ added' \in Seq(Nouns) /\ Len(added') = Len(added) + 1
  BY <1>1
<1>3. flushed \o now = added'
  <2>1. flushed \o now = Append(flushed \o batchPending, payload)
    <3>1. now = batchPending \o <<payload>> /\ <<payload>> \in Seq(Nouns)
      BY <1>1, AppendIsConcat
    <3>2. flushed \o batchPending \in Seq(Nouns)
      BY <1>1
    <3>3. Append(flushed \o batchPending, payload) = (flushed \o batchPending) \o <<payload>>
      BY <1>1, <3>2, AppendIsConcat
    <3>4. (flushed \o batchPending) \o <<payload>> = flushed \o (batchPending \o <<payload>>)
      BY <1>1, <3>1, ConcatAssociative
    <3>5. QED  BY <3>1, <3>3, <3>4
  <2>2. QED  BY <1>1, <2>1
<1> HIDE DEF now
<1>4. CASE batchPending' = <<>> /\ flushed' = flushed \o now
  <2>1. flushed' \in Seq(Nouns) /\ batchPending' \in Seq(Nouns) /\ Len(batchPending') = 0
    BY <1>1, <1>2, <1>4
  <2>2. flushed' \o batchPending' = added'
    BY <1>3, <1>4, <2>1, ConcatEmptySeq
  <2>3. QED  BY <1>1, <1>2, <2>1, <2>2, BatchAssumption DEF BatchShape, BatchTypeOK, IntentsConserved
<1>5. CASE batchPending' = now /\ flushed' = flushed
  BY <1>1, <1>2, <1>3, <1>5, BatchAssumption DEF BatchShape, BatchTypeOK, IntentsConserved
<1>6. QED  BY <1>4, <1>5 DEF BatchAdd, now

\* A flush by hand moves the buffer to the bundle.
LEMMA FlushKeepsShape ==
  ASSUME BatchShape, BatchFlush
  PROVE  BatchShape'
<1>1. /\ batchPending \in Seq(Nouns) /\ flushed \in Seq(Nouns)
      /\ batchPending' = <<>> /\ flushed' = flushed \o batchPending
      /\ added' = added /\ counter' = counter /\ threshold' = threshold
  BY DEF BatchShape, BatchTypeOK, BatchFlush
<1>2. flushed' \in Seq(Nouns) /\ batchPending' \in Seq(Nouns) /\ Len(batchPending') = 0
  BY <1>1
<1>3. flushed' \o batchPending' = flushed'
  BY <1>1, <1>2, ConcatEmptySeq
<1>4. QED  BY <1>1, <1>2, <1>3, BatchAssumption DEF BatchShape, BatchTypeOK, IntentsConserved

\* What was flushed and what is pending is what was accepted, with the types of all
\* three: together they are inductive.
THEOREM BatchShapeCorrect == BatchSpec => []BatchShape
<1>1. BatchInit => BatchShape
  BY EmptySeq, ConcatEmptySeq, BatchAssumption DEF BatchInit, BatchShape, BatchTypeOK, IntentsConserved
<1>2. BatchShape /\ [BatchNext]_batchVars => BatchShape'
  <2> SUFFICES ASSUME BatchShape, [BatchNext]_batchVars PROVE BatchShape'
    OBVIOUS
  <2>1. ASSUME UNCHANGED <<batchPending, counter, added, flushed>>, threshold' \in 0..BatchCap
        PROVE  BatchShape'
    BY <2>1 DEF BatchShape, BatchTypeOK, IntentsConserved
  <2>2. threshold \in 0..BatchCap
    BY DEF BatchShape, BatchTypeOK
  <2>3. ASSUME NEW t \in 0..(BatchCap + 1), BatchInitialize(t) PROVE BatchShape'
    BY <2>1, <2>3, BatchAssumption DEF BatchInitialize
  <2>4. ASSUME NEW t \in 0..(BatchCap + 1), BatchInitializeRefused(t) PROVE BatchShape'
    BY <2>1, <2>2, <2>4 DEF BatchInitializeRefused, BatchRefuse
  <2>5. ASSUME NEW payload \in JammedAtoms, BatchAdd(payload) PROVE BatchShape'
    BY <2>5, AddKeepsShape
  <2>6. ASSUME NEW payload \in JammedAtoms, BatchAddRefused(payload) PROVE BatchShape'
    BY <2>1, <2>2, <2>6 DEF BatchAddRefused, BatchRefuse
  <2>7. CASE BatchFlush
    BY <2>7, FlushKeepsShape
  <2>8. CASE UNCHANGED batchVars
    BY <2>1, <2>2, <2>8 DEF batchVars
  <2>9. QED  BY <2>3, <2>4, <2>5, <2>6, <2>7, <2>8 DEF BatchNext
<1>3. QED  BY <1>1, <1>2, PTL DEF BatchSpec

\* IntentsConserved: every intent accepted is in one bundle or pending, in order,
\* and the counter numbers them.
THEOREM IntentsConservedCorrect == BatchSpec => []IntentsConserved
  BY BatchShapeCorrect, PTL DEF BatchShape

\* NoOverdueAddition: an accepted addition leaves less than the threshold pending,
\* however the threshold was moved before.
THEOREM NoOverdueAdditionCorrect == BatchSpec => NoOverdueAddition
<1>1. BatchShape /\ [BatchNext]_batchVars
        => [added' # added /\ threshold > 0 => Len(batchPending') < threshold]_batchVars
  <2> SUFFICES ASSUME BatchShape, BatchNext, added' # added, threshold > 0
               PROVE  Len(batchPending') < threshold
    BY DEF batchVars
  <2>1. PICK payload \in JammedAtoms : BatchAdd(payload)
    BY DEF BatchNext, BatchInitialize, BatchInitializeRefused, BatchAddRefused, BatchFlush, BatchRefuse
  <2>2. payload \in Nouns /\ batchPending \in Seq(Nouns) /\ threshold \in Nat
    BY <2>1, BatchAssumption DEF BatchAdd, JammedAtoms, BatchShape, BatchTypeOK
  <2>3. Append(batchPending, payload) \in Seq(Nouns) /\ Len(Append(batchPending, payload)) \in Nat
    BY <2>2
  <2>4. CASE FlushDue(Append(batchPending, payload))
    BY <2>1, <2>2, <2>4 DEF BatchAdd
  <2>5. CASE ~FlushDue(Append(batchPending, payload))
    <3>1. batchPending' = Append(batchPending, payload)
      BY <2>1, <2>5 DEF BatchAdd
    <3>2. ~(Len(Append(batchPending, payload)) >= threshold)
      BY <2>5 DEF FlushDue
    <3>3. QED  BY <2>2, <2>3, <3>1, <3>2
  <2>6. QED  BY <2>4, <2>5
<1>2. QED  BY <1>1, BatchShapeCorrect, PTL DEF BatchSpec, NoOverdueAddition

-----------------------------------------------------------------------------
(* log-graft *)

LogShape ==
  /\ LogTypeOK
  /\ NewestKept
  /\ nextSeq = FirstSeq + Len(logged)
  /\ \A i \in 1..Len(logged) : logged[i].seq = FirstSeq + i - 1

\* Trimming keeps the front of a list, up to the cap.
LEMMA TrimmedFront ==
  ASSUME NEW S, NEW list \in Seq(S)
  PROVE  /\ Trimmed(list) \in Seq(S)
         /\ Len(Trimmed(list)) = IF Len(list) > RetentionCap THEN RetentionCap ELSE Len(list)
         /\ \A i \in 1..Len(Trimmed(list)) : Trimmed(list)[i] = list[i]
<1>1. CASE Len(list) > RetentionCap
  <2>1. \A i \in 1..RetentionCap : list[i] \in S
    BY <1>1, LogAssumption
  <2>2. /\ SubSeq(list, 1, RetentionCap) \in Seq(S)
        /\ Len(SubSeq(list, 1, RetentionCap)) = RetentionCap
        /\ \A i \in 1..RetentionCap : SubSeq(list, 1, RetentionCap)[i] = list[i]
    BY <1>1, <2>1, LogAssumption, SubSeqProperties
  <2>3. QED  BY <1>1, <2>2 DEF Trimmed
<1>2. CASE ~(Len(list) > RetentionCap)
  BY <1>2 DEF Trimmed
<1>3. QED  BY <1>1, <1>2

\* An append keeps the newest: the entry goes in front, and only the last may go.
LEMMA AppendKeepsShape ==
  ASSUME LogShape, NEW payload \in JammedAtoms, LogAppend(payload)
  PROVE  LogShape'
<1> DEFINE entry == [seq |-> nextSeq, data |-> payload]
           list  == <<entry>> \o entries
<1>1. /\ entry \in LogEntries /\ entry.seq = nextSeq
      /\ entries' = Trimmed(list) /\ logged' = Append(logged, entry)
      /\ nextSeq' = nextSeq + 1 /\ logEffect' = "log-appended"
  BY DEF LogShape, LogTypeOK, LogAppend, LogEntries, JammedAtoms
<1> HIDE DEF entry
<1>2. /\ entries \in Seq(LogEntries) /\ logged \in Seq(LogEntries)
      /\ Len(entries) \in Nat /\ Len(logged) \in Nat /\ nextSeq = FirstSeq + Len(logged)
      /\ Len(entries) = IF Len(logged) < RetentionCap THEN Len(logged) ELSE RetentionCap
      /\ FirstSeq \in Nat
  BY LogAssumption DEF LogShape, LogTypeOK, NewestKept
<1>3. \A i \in 1..Len(entries) :
        entries[i] = logged[Len(logged) + 1 - i] /\ entries[i].seq = FirstSeq + Len(logged) - i
  <2>1. DOMAIN entries = 1..Len(entries)
    BY <1>2
  <2>2. QED  BY <2>1 DEF LogShape, NewestKept
<1>4. /\ logged' \in Seq(LogEntries) /\ Len(logged') = Len(logged) + 1
      /\ \A i \in 1..Len(logged) : logged'[i] = logged[i]
      /\ logged'[Len(logged) + 1] = entry
  BY <1>1, <1>2
<1>5. /\ list \in Seq(LogEntries) /\ Len(list) = Len(entries) + 1
      /\ list[1] = entry /\ \A i \in 1..Len(entries) : list[i + 1] = entries[i]
  BY <1>1, <1>2
<1> HIDE DEF list
<1>6. ASSUME NEW i \in 1..Len(list)
      PROVE  list[i] = logged'[Len(logged') + 1 - i] /\ list[i].seq = FirstSeq + Len(logged') - i
  <2>1. CASE i = 1
    <3>1. list[i] = entry /\ entry.seq = FirstSeq + Len(logged)
      BY <1>1, <1>2, <1>5, <2>1
    <3>2. Len(logged') + 1 - i = Len(logged) + 1 /\ Len(logged') - i = Len(logged)
      BY <1>2, <1>4, <2>1
    <3>3. QED  BY <1>2, <1>4, <3>1, <3>2
  <2>2. CASE i \in 2..Len(list)
    <3>1. i - 1 \in 1..Len(entries) /\ (i - 1) + 1 = i
      BY <1>2, <1>5, <2>2
    <3>2. list[i] = entries[i - 1]
      BY <1>5, <3>1
    <3>3. /\ Len(logged) + 1 - (i - 1) = Len(logged') + 1 - i
          /\ Len(logged) + 1 - (i - 1) \in 1..Len(logged)
      BY <1>2, <1>4, <3>1, LogAssumption
    <3>4. /\ list[i] = logged[Len(logged') + 1 - i] /\ Len(logged') + 1 - i \in 1..Len(logged)
          /\ list[i].seq = FirstSeq + Len(logged) - (i - 1)
      BY <1>3, <3>1, <3>2, <3>3
    <3>5. FirstSeq + Len(logged) - (i - 1) = FirstSeq + Len(logged') - i
      BY <1>2, <1>4, <3>1
    <3>6. QED  BY <1>4, <3>4, <3>5
  <2>3. QED  BY <1>2, <1>5, <2>1, <2>2
<1>7. /\ entries' \in Seq(LogEntries)
      /\ Len(entries') = IF Len(list) > RetentionCap THEN RetentionCap ELSE Len(list)
      /\ \A i \in 1..Len(entries') : entries'[i] = list[i]
  BY <1>1, <1>5, TrimmedFront
<1>8. /\ Len(entries') = IF Len(logged') < RetentionCap THEN Len(logged') ELSE RetentionCap
      /\ Len(entries') <= RetentionCap /\ Len(entries') <= Len(list)
  BY <1>2, <1>4, <1>5, <1>7, LogAssumption
<1>9. NewestKept'
  <2>1. DOMAIN entries' = 1..Len(entries') /\ 1..Len(entries') \subseteq 1..Len(list)
    BY <1>2, <1>5, <1>7, <1>8
  <2>2. \A i \in DOMAIN entries' : entries'[i] = logged'[Len(logged') + 1 - i]
                                 /\ entries'[i].seq = FirstSeq + Len(logged') - i
    BY <1>6, <1>7, <2>1
  <2>3. QED  BY <1>8, <2>2 DEF NewestKept
<1>10. LogTypeOK'
  BY <1>1, <1>2, <1>4, <1>7, <1>8 DEF LogTypeOK
<1>11. ASSUME NEW i \in 1..Len(logged') PROVE logged'[i].seq = FirstSeq + i - 1
  <2>1. CASE i \in 1..Len(logged)
    <3>1. logged[i].seq = FirstSeq + i - 1
      BY <2>1 DEF LogShape
    <3>2. QED  BY <1>4, <2>1, <3>1
  <2>2. CASE i = Len(logged) + 1
    <3>1. logged'[i].seq = nextSeq
      BY <1>1, <1>4, <2>2
    <3>2. QED  BY <1>2, <2>2, <3>1
  <2>3. QED  BY <1>2, <1>4, <2>1, <2>2
<1>12. QED  BY <1>1, <1>2, <1>4, <1>9, <1>10, <1>11 DEF LogShape

\* With the numbering of what was logged, NewestKept is inductive.
THEOREM LogShapeCorrect == LogSpec => []LogShape
<1>1. LogInit => LogShape
  BY EmptySeq, LogAssumption DEF LogInit, LogShape, LogTypeOK, NewestKept
<1>2. LogShape /\ [LogNext]_logVars => LogShape'
  <2> SUFFICES ASSUME LogShape, [LogNext]_logVars PROVE LogShape'
    OBVIOUS
  <2>1. ASSUME UNCHANGED <<entries, nextSeq, logged>>, logEffect' \in {logEffect, "log-error"}
        PROVE  LogShape'
    BY <2>1 DEF LogShape, LogTypeOK, NewestKept
  <2>2. ASSUME NEW payload \in JammedAtoms, LogAppend(payload) PROVE LogShape'
    BY <2>2, AppendKeepsShape
  <2>3. ASSUME NEW payload \in JammedAtoms, LogAppendRefused(payload) PROVE LogShape'
    BY <2>1, <2>3 DEF LogAppendRefused
  <2>4. CASE UNCHANGED logVars
    BY <2>1, <2>4 DEF logVars
  <2>5. QED  BY <2>2, <2>3, <2>4 DEF LogNext
<1>3. QED  BY <1>1, <1>2, PTL DEF LogSpec

\* NewestKept: for every cap, the log is the newest entries, without a gap.
THEOREM NewestKeptCorrect == LogSpec => []NewestKept
  BY LogShapeCorrect, PTL DEF LogShape

-----------------------------------------------------------------------------
(* rbac-graft *)

RbacShape == RbacTypeOK /\ EffectsTellAll

\* What each key holds after a put.
LEMMA HeldAfterPut ==
  ASSUME NEW k, NEW perms, roles' = Put(k, perms)
  PROVE  \A j : Held(j)' = IF j = k THEN perms ELSE Held(j)
BY DEF Put, Held

\* What each key holds after a del.
LEMMA HeldAfterDel ==
  ASSUME NEW k, roles' = Del(k)
  PROVE  \A j : Held(j)' = IF j = k THEN {} ELSE Held(j)
BY DEF Del, Held

\* A put within the caps keeps the table's type.
LEMMA PutKeepsCaps ==
  ASSUME RbacTypeOK, NEW k \in Pubkeys, NEW perms \in SUBSET Perms,
         Cardinality(perms) <= PermsPerRoleCap,
         k \in DOMAIN roles \/ ~(Cardinality(DOMAIN roles) >= RolesCap),
         roles' = Put(k, perms)
  PROVE  /\ DOMAIN roles' \subseteq Pubkeys
         /\ \A j \in DOMAIN roles' :
              roles'[j] \subseteq Perms /\ Cardinality(roles'[j]) <= PermsPerRoleCap
         /\ Cardinality(DOMAIN roles') <= RolesCap
<1>1. DOMAIN roles' = DOMAIN roles \cup {k}
  BY DEF Put
<1>2. \A j \in DOMAIN roles' : roles'[j] = IF j = k THEN perms ELSE roles[j]
  BY DEF Put
<1>3. IsFiniteSet(DOMAIN roles) /\ Cardinality(DOMAIN roles) \in Nat
  BY RbacAssumption, FS_Subset, FS_CardinalityType DEF RbacTypeOK
<1>4. Cardinality(DOMAIN roles') =
        IF k \in DOMAIN roles THEN Cardinality(DOMAIN roles) ELSE Cardinality(DOMAIN roles) + 1
  BY <1>1, <1>3, FS_AddElement
<1>5. Cardinality(DOMAIN roles') <= RolesCap
  BY <1>3, <1>4, RbacAssumption DEF RbacTypeOK
<1>6. QED  BY <1>1, <1>2, <1>5 DEF RbacTypeOK

\* What a key holds is a set of permissions within the inner cap.
LEMMA HeldTyped ==
  ASSUME RbacTypeOK, NEW k
  PROVE  Held(k) \subseteq Perms /\ Cardinality(Held(k)) <= PermsPerRoleCap
BY RbacAssumption, FS_EmptySet DEF RbacTypeOK, Held

\* A grant adds to the mirror just what it adds to the row.
LEMMA GrantKeepsShape ==
  ASSUME RbacShape, NEW k \in Pubkeys, NEW asked \in SUBSET Perms, RbacGrant(k, asked)
  PROVE  RbacShape'
<1>1. /\ RbacTypeOK /\ EffectsTellAll
      /\ roles' = Put(k, Held(k) \cup asked) /\ rbacEffect' = "rbac-granted"
      /\ mirror' = [mirror EXCEPT ![k] = @ \cup (asked \ Held(k))]
      /\ mirror \in [Pubkeys -> SUBSET Perms]
  BY DEF RbacShape, RbacGrant, RbacTypeOK
<1>2. Held(k) \cup asked \in SUBSET Perms
  BY <1>1, HeldTyped
<1>3. /\ k \in DOMAIN roles \/ ~(Cardinality(DOMAIN roles) >= RolesCap)
      /\ Cardinality(Held(k) \cup asked) <= PermsPerRoleCap
  <2>1. Cardinality(Held(k) \cup asked) \in Nat
    BY <1>2, RbacAssumption, FS_Subset, FS_CardinalityType
  <2>2. QED  BY <2>1, RbacAssumption DEF RbacGrant, CapReached
<1>4. mirror' \in [Pubkeys -> SUBSET Perms]
  BY <1>1
<1>5. RbacTypeOK'
  BY <1>1, <1>2, <1>3, <1>4, PutKeepsCaps DEF RbacTypeOK
<1>6. EffectsTellAll'
  <2>1. ASSUME NEW j \in Pubkeys PROVE mirror'[j] = Held(j)'
    <3>1. mirror[j] = Held(j) /\ mirror[k] = Held(k)
      BY <1>1 DEF EffectsTellAll
    <3>2. Held(j)' = IF j = k THEN Held(k) \cup asked ELSE Held(j)
      BY <1>1, HeldAfterPut
    <3>3. mirror'[j] = IF j = k THEN mirror[k] \cup (asked \ Held(k)) ELSE mirror[j]
      BY <1>1
    <3>4. QED  BY <3>1, <3>2, <3>3
  <2>2. QED  BY <2>1 DEF EffectsTellAll
<1>7. QED  BY <1>5, <1>6 DEF RbacShape

\* A revoke takes from the mirror just what it takes from the row, which goes when
\* it is left empty.
LEMMA RevokeKeepsShape ==
  ASSUME RbacShape, NEW k \in Pubkeys, NEW asked \in SUBSET Perms, RbacRevoke(k, asked)
  PROVE  RbacShape'
<1> DEFINE remaining == Held(k) \ asked
<1>1. /\ RbacTypeOK /\ EffectsTellAll /\ rbacEffect' = "rbac-revoked"
      /\ roles' = IF remaining = {} THEN Del(k) ELSE Put(k, remaining)
      /\ mirror' = [mirror EXCEPT ![k] = @ \ (asked \cap Held(k))]
      /\ mirror \in [Pubkeys -> SUBSET Perms]
  BY DEF RbacShape, RbacRevoke, RbacTypeOK
<1>2. /\ remaining \in SUBSET Perms /\ Cardinality(remaining) <= PermsPerRoleCap
      /\ Held(k) \subseteq Perms
  <2>1. Held(k) \subseteq Perms /\ Cardinality(Held(k)) <= PermsPerRoleCap
    BY <1>1, HeldTyped
  <2>2. IsFiniteSet(Held(k))
    BY <2>1, RbacAssumption, FS_Subset
  <2>3. /\ Cardinality(remaining) <= Cardinality(Held(k))
        /\ Cardinality(remaining) \in Nat /\ Cardinality(Held(k)) \in Nat
    BY <2>2, FS_Subset, FS_CardinalityType
  <2>4. QED  BY <2>1, <2>3, RbacAssumption
<1>3. mirror' \in [Pubkeys -> SUBSET Perms]
  BY <1>1
<1>4. \A j : Held(j)' = IF j = k THEN remaining ELSE Held(j)
  BY <1>1, HeldAfterPut, HeldAfterDel
<1>5. RbacTypeOK'
  <2>1. CASE remaining = {}
    <3>1. /\ DOMAIN roles' = DOMAIN roles \ {k}
          /\ \A j \in DOMAIN roles' : roles'[j] = roles[j]
      BY <1>1, <2>1 DEF Del
    <3>2. IsFiniteSet(DOMAIN roles)
      BY <1>1, RbacAssumption, FS_Subset DEF RbacTypeOK
    <3>3. /\ Cardinality(DOMAIN roles') <= Cardinality(DOMAIN roles)
          /\ Cardinality(DOMAIN roles') \in Nat /\ Cardinality(DOMAIN roles) \in Nat
      BY <3>1, <3>2, FS_Subset, FS_CardinalityType
    <3>4. Cardinality(DOMAIN roles') <= RolesCap
      BY <1>1, <3>3, RbacAssumption DEF RbacTypeOK
    <3>5. QED  BY <1>1, <1>3, <3>1, <3>4 DEF RbacTypeOK
  <2>2. CASE remaining # {}
    <3>1. k \in DOMAIN roles
      BY <2>2 DEF Held
    <3>2. QED  BY <1>1, <1>2, <1>3, <2>2, <3>1, PutKeepsCaps DEF RbacTypeOK
  <2>3. QED  BY <2>1, <2>2
<1>6. EffectsTellAll'
  <2>1. ASSUME NEW j \in Pubkeys PROVE mirror'[j] = Held(j)'
    <3>1. mirror[j] = Held(j) /\ mirror[k] = Held(k)
      BY <1>1 DEF EffectsTellAll
    <3>2. mirror'[j] = IF j = k THEN mirror[k] \ (asked \cap Held(k)) ELSE mirror[j]
      BY <1>1
    <3>3. QED  BY <1>4, <3>1, <3>2
  <2>2. QED  BY <2>1 DEF EffectsTellAll
<1>7. QED  BY <1>5, <1>6 DEF RbacShape

\* The table's type with its caps, and what the effects tell, are inductive.
THEOREM RbacShapeCorrect == RbacSpec => []RbacShape
<1>1. RbacInit => RbacShape
  <2> SUFFICES ASSUME RbacInit PROVE RbacShape
    OBVIOUS
  <2>1. DOMAIN roles = {} /\ mirror \in [Pubkeys -> SUBSET Perms] /\ rbacEffect = "none"
    BY DEF RbacInit
  <2>2. Cardinality(DOMAIN roles) = 0
    BY <2>1, FS_EmptySet
  <2>3. EffectsTellAll
    BY <2>1 DEF RbacInit, EffectsTellAll, Held
  <2>4. QED  BY <2>1, <2>2, <2>3, RbacAssumption DEF RbacShape, RbacTypeOK
<1>2. RbacShape /\ [RbacNext]_rbacVars => RbacShape'
  <2> SUFFICES ASSUME RbacShape, [RbacNext]_rbacVars PROVE RbacShape'
    OBVIOUS
  <2>1. ASSUME UNCHANGED <<roles, mirror>>, rbacEffect' \in {rbacEffect, "rbac-error"}
        PROVE  RbacShape'
    BY <2>1 DEF RbacShape, RbacTypeOK, EffectsTellAll, Held
  <2>2. ASSUME NEW k \in Pubkeys, NEW asked \in SUBSET Perms, RbacGrant(k, asked)
        PROVE  RbacShape'
    BY <2>2, GrantKeepsShape
  <2>3. ASSUME NEW k \in Pubkeys, NEW asked \in SUBSET Perms, RbacGrantRefused(k, asked)
        PROVE  RbacShape'
    BY <2>1, <2>3 DEF RbacGrantRefused
  <2>4. ASSUME NEW k \in Pubkeys, NEW asked \in SUBSET Perms, RbacRevoke(k, asked)
        PROVE  RbacShape'
    BY <2>4, RevokeKeepsShape
  <2>5. CASE UNCHANGED rbacVars
    BY <2>1, <2>5 DEF rbacVars
  <2>6. QED  BY <2>2, <2>3, <2>4, <2>5 DEF RbacNext
<1>3. QED  BY <1>1, <1>2, PTL DEF RbacSpec

\* EffectsTellAll: for every cap, adding up the effects gives the table.
THEOREM EffectsTellAllCorrect == RbacSpec => []EffectsTellAll
  BY RbacShapeCorrect, PTL DEF RbacShape

=============================================================================
