---------------------------- MODULE HullProofs ----------------------------
(***************************************************************************)
(* Theorems about the hull for every gate, every set of roots and ids, and *)
(* any number of timeouts, disconnects and crashes.                        *)
(*                                                                         *)
(* Neither safety property is inductive: a late poke might register a root *)
(* behind the handler's back, or answer it for another poke.  AnswersMatch *)
(* excludes both; with the types of what waits it makes an invariant.      *)
(***************************************************************************)
EXTENDS Hull, SequenceTheorems, FiniteSetTheorems, TLAPS

\* The pokes the hull really sends: it registers no hull but its own.
OwnPokes ==
  [cause : {"settle-register"}, hull : {HullId}, root : Roots]
    \cup [cause : {"settle-note"}, payload : Graft!Payloads]

\* What is in flight, and the part of the kernel's state the argument reads.
InFlight ==
  /\ inbox \in Seq(OwnPokes \cup {Peek})
  /\ handler \in {Idle} \cup [phase : Phases, poke : OwnPokes]
  /\ registered \in [Hulls -> Roots \cup {NoRoot}]
  /\ history \in Seq(Graft!Notes)
  /\ tree \in Roots \cup {NoRoot}
  /\ noteCounter \in Nat /\ counterFile \in Nat

HullInv == InFlight /\ AnswersMatch /\ ServedTreeIsRegistered /\ CounterNeverAhead

-----------------------------------------------------------------------------
(* What one poke does to the kernel *)

\* A register either changes one empty slot or answers without success.
LEMMA RegisterStep ==
  ASSUME NEW h \in Hulls, NEW r \in Roots, Graft!SettleRegister(h, r)
  PROVE  /\ history' = history /\ effects' # <<>>
         /\ \/ /\ registered' = registered
               /\ Head(effects') # "settle-registered"
            \/ /\ registered[h] = NoRoot
               /\ registered' = [registered EXCEPT ![h] = r]
BY DEF Graft!SettleRegister, Graft!SettleRegisterRefused,
       Graft!SettleRegisterAccepted, Graft!Refuse, Graft!graftState

\* A note either settles, which appends to the history, or answers without success.
LEMMA NoteStep ==
  ASSUME NEW p \in Graft!Payloads, Graft!SettleNote(p)
  PROVE  /\ registered' = registered /\ effects' # <<>>
         /\ \/ /\ history' = history
               /\ Head(effects') # "settle-noted"
            \/ history' = Append(history, [id |-> p.id, hull |-> p.hull, root |-> p.root])
BY DEF Graft!SettleNote, Graft!SettleNoteRefused, Graft!SettleNoteDenied,
       Graft!SettleNoteAccepted, Graft!SettleInEpoch, Graft!RotateAndSettle,
       Graft!Refuse, Graft!graftState

\* The two kinds of poke, and the peek, are told apart by their cause.
LEMMA Causes ==
  /\ \A p \in OwnPokes : p # Peek /\ p.cause \in {"settle-register", "settle-note"}
  /\ \A p \in OwnPokes : p.cause = "settle-register" => p.hull = HullId /\ p.root \in Roots
  /\ \A p \in OwnPokes : p.cause = "settle-note" => p.payload \in Graft!Payloads
BY DEF OwnPokes, Peek

\* A handler that is not idle carries one of the hull's own pokes.
LEMMA Carries ==
  ASSUME InFlight, handler.phase # "idle"
  PROVE  handler.poke \in OwnPokes /\ handler = [phase |-> handler.phase, poke |-> handler.poke]
         /\ handler.phase \in Phases
BY DEF InFlight, Idle
\* Nothing in the kernel's answer is read but through these.
LEMMA Invisible ==
  ASSUME HullInv, UNCHANGED <<kernel, inbox>>, handler' = Idle, tree' = tree,
         noteCounter' = noteCounter, counterFile' = counterFile
  PROVE  HullInv'
BY DEF HullInv, InFlight, AnswersMatch, ServedTreeIsRegistered, CounterNeverAhead,
       kernel, Idle, Answered

-----------------------------------------------------------------------------
(* The invariant is kept by each group of steps *)

\* A request enters the inbox as its last element.
LEMMA AwaitKeeps ==
  ASSUME HullInv, NEW poke \in OwnPokes,
         \/ Await("peeking", Peek, poke)
         \/ Await("awaiting", poke, poke)
  PROVE  HullInv'
<1>1. /\ UNCHANGED <<kernel, appState>>
      /\ handler' \in [phase : {"peeking", "awaiting"}, poke : {poke}]
  BY DEF Await
<1>2. PICK request \in OwnPokes \cup {Peek} :
        /\ inbox' = Append(inbox, request)
        /\ handler'.phase = "peeking" => request = Peek
        /\ handler'.phase = "awaiting" => request = poke
  BY DEF Await
<1>3. /\ inbox' \in Seq(OwnPokes \cup {Peek})
      /\ inbox' # <<>> /\ inbox'[Len(inbox')] = request
  BY <1>2 DEF HullInv, InFlight
<1>4. InFlight'
  BY <1>1, <1>3 DEF HullInv, InFlight, kernel, appState, Phases
<1>5. AnswersMatch'
  BY <1>1, <1>2, <1>3 DEF AnswersMatch, Answered
<1>6. ServedTreeIsRegistered' /\ CounterNeverAhead'
  BY <1>1 DEF HullInv, ServedTreeIsRegistered, CounterNeverAhead, kernel, appState
<1>7. QED
  BY <1>4, <1>5, <1>6 DEF HullInv

\* A handler that answers without a change of AppState.
LEMMA AnswerKeeps ==
  ASSUME HullInv, NEW status, Answer(status), UNCHANGED <<kernel, inbox>>
  PROVE  HullInv'
BY Invisible DEF Answer, appState

\* /commit reports success: the kernel holds the root it stores.
LEMMA CommitDoneKeeps ==
  ASSUME HullInv, CommitDone
  PROVE  HullInv'
<1>1. handler.poke \in OwnPokes /\ handler.poke.cause = "settle-register"
  BY Carries DEF CommitDone, Answered, HullInv
<1>2. tree' \in Roots /\ registered[HullId] = tree'
  BY <1>1, Causes DEF CommitDone, HullInv, AnswersMatch
<1>3. QED
  BY <1>2 DEF CommitDone, HullInv, InFlight, AnswersMatch, Answered, Idle,
              ServedTreeIsRegistered, CounterNeverAhead, kernel

\* /settle reports success: the counter stays within the history.
LEMMA SettleDoneKeeps ==
  ASSUME HullInv, SettleDone
  PROVE  HullInv'
<1>1. noteCounter < Len(history) /\ Len(history) \in Nat
  BY DEF SettleDone, HullInv, AnswersMatch, InFlight
<1>2. /\ noteCounter' \in Nat /\ counterFile' \in Nat
      /\ counterFile' <= noteCounter' /\ noteCounter' <= Len(history)
  BY <1>1 DEF SettleDone, HullInv, InFlight, CounterNeverAhead
<1>3. QED
  BY <1>2 DEF SettleDone, HullInv, InFlight, AnswersMatch, Answered, Idle,
              ServedTreeIsRegistered, CounterNeverAhead, kernel

\* A crash empties the inbox and falls back to the file.
LEMMA CrashKeeps ==
  ASSUME HullInv, CrashAndBoot
  PROVE  HullInv'
<1>1. /\ inbox' = <<>> /\ handler' = Idle /\ tree' = NoRoot
      /\ noteCounter' = counterFile /\ counterFile' = counterFile
      /\ UNCHANGED kernel
  BY DEF CrashAndBoot
<1>2. Len(history) \in Nat
  BY DEF HullInv, InFlight
<1>3. InFlight'
  BY <1>1 DEF HullInv, InFlight, kernel
<1>4. QED
  BY <1>1, <1>2, <1>3 DEF HullInv, InFlight, AnswersMatch, Answered, Idle,
                          ServedTreeIsRegistered, CounterNeverAhead, kernel

-----------------------------------------------------------------------------
(* The kernel thread *)

\* Taking the head of the inbox: the handler hears of it only if it is its own,
\* and then the inbox is left empty.
LEMMA TakeShape ==
  ASSUME HullInv, inbox # <<>>, NEW phase \in Phases, Take(phase)
  PROVE  /\ inbox' \in Seq(OwnPokes \cup {Peek})
         /\ Head(inbox) \in OwnPokes \cup {Peek}
         /\ \/ /\ handler.phase \in {"peeking", "awaiting"}
               /\ handler' = [handler EXCEPT !.phase = phase]
               /\ inbox' = <<>> /\ Head(inbox) = inbox[Len(inbox)]
            \/ /\ handler' = handler
               /\ handler.phase \notin {"admitted", "denied", "answered", "failed"}
               /\ handler.phase \in {"peeking", "awaiting"} =>
                    inbox' # <<>> /\ inbox'[Len(inbox')] = inbox[Len(inbox)]
<1> DEFINE S == OwnPokes \cup {Peek}
<1>1. inbox \in Seq(S) /\ inbox # <<>>
  BY DEF HullInv, InFlight
<1> HIDE DEF S
<1>2. inbox' \in Seq(S) /\ Head(inbox) \in S /\ Len(inbox') = Len(inbox) - 1
      /\ Len(inbox) \in Nat \ {0}
  BY <1>1, HeadTailProperties DEF Take
<1>3. handler.phase \notin {"admitted", "denied", "answered", "failed"}
  BY <1>1 DEF HullInv, AnswersMatch
<1>4. CASE handler.phase \in {"peeking", "awaiting"} /\ Len(inbox) = 1
  <2>1. inbox' = <<>>
    BY <1>2, <1>4, EmptySeq
  <2>2. Head(inbox) = inbox[Len(inbox)]
    BY <1>1, <1>4, HeadTailProperties
  <2>3. QED
    BY <1>2, <1>4, <2>1, <2>2 DEF Take, S
<1>5. CASE ~(handler.phase \in {"peeking", "awaiting"} /\ Len(inbox) = 1)
  <2>1. handler' = handler
    BY <1>5 DEF Take
  <2>2. ASSUME handler.phase \in {"peeking", "awaiting"}
        PROVE  inbox' # <<>> /\ inbox'[Len(inbox')] = inbox[Len(inbox)]
    <3>1. Len(inbox) - 1 \in 1..Len(inbox') /\ Len(inbox') = Len(inbox) - 1
      BY <1>2, <1>5, <2>2
    <3>2. inbox' = Tail(inbox)
      BY DEF Take
    <3>3. inbox'[Len(inbox')] = inbox[Len(inbox') + 1]
      BY <1>1, <3>1, <3>2, HeadTailProperties
    <3>4. QED
      BY <1>2, <3>1, <3>3
  <2>3. QED
    BY <1>2, <1>3, <2>1, <2>2 DEF S
<1>6. QED
  BY <1>4, <1>5

\* A handler that is not told keeps waiting for the last request.
LEMMA UntoldMatch ==
  ASSUME HullInv, inbox # <<>>, NEW phase \in Phases \ {"peeking", "awaiting"},
         Take(phase), handler' = handler
  PROVE  inbox' \in Seq(OwnPokes \cup {Peek}) /\ AnswersMatch'
<1>1. CASE /\ handler.phase \notin {"admitted", "denied", "answered", "failed"}
           /\ handler.phase \in {"peeking", "awaiting"} =>
                inbox' # <<>> /\ inbox'[Len(inbox')] = inbox[Len(inbox)]
  <2>1. handler.phase = "peeking" => inbox[Len(inbox)] = Peek
    BY DEF HullInv, AnswersMatch
  <2>2. handler.phase = "awaiting" => inbox[Len(inbox)] = handler.poke
    BY DEF HullInv, AnswersMatch
  <2>3. AnswersMatch'
    BY <1>1, <2>1, <2>2 DEF AnswersMatch, Answered
  <2>4. QED
    BY <2>3, TakeShape
<1>2. CASE /\ handler.phase \in {"peeking", "awaiting"}
           /\ handler' = [handler EXCEPT !.phase = phase]
  <2>1. handler = [phase |-> handler.phase, poke |-> handler.poke]
    BY <1>2, Carries DEF HullInv
  <2>2. handler'.phase = phase
    BY <1>2, <2>1
  <2>3. QED
    BY <1>2, <2>2
<1>3. QED
  BY <1>1, <1>2, TakeShape

\* A step of the kernel that leaves the roots and the history alone, answering
\* nobody or with something other than an answer to a poke.
LEMMA QuietKernelKeeps ==
  ASSUME HullInv, inbox # <<>>, NEW phase \in Phases \ {"peeking", "awaiting", "answered"},
         Take(phase), UNCHANGED kernel
  PROVE  HullInv'
<1>1. UNCHANGED appState
  BY DEF Take
<1>2. handler.phase \in {"peeking", "awaiting"} =>
        handler = [phase |-> handler.phase, poke |-> handler.poke] /\ handler.poke \in OwnPokes
  BY Carries DEF HullInv
<1>3. CASE handler' = handler
  <2>1. inbox' \in Seq(OwnPokes \cup {Peek}) /\ AnswersMatch'
    BY <1>3, UntoldMatch
  <2>2. QED
    BY <1>1, <1>3, <2>1 DEF HullInv, InFlight, ServedTreeIsRegistered,
                            CounterNeverAhead, kernel, appState
<1>4. CASE /\ handler.phase \in {"peeking", "awaiting"}
           /\ handler' = [handler EXCEPT !.phase = phase]
           /\ inbox' = <<>>
  <2>1. handler' \in [phase : {phase}, poke : OwnPokes]
    BY <1>2, <1>4
  <2>2. InFlight'
    BY <1>1, <1>4, <2>1 DEF HullInv, InFlight, kernel, appState
  <2>3. AnswersMatch'
    BY <1>4, <2>1 DEF AnswersMatch, Answered, Phases
  <2>4. QED
    BY <1>1, <2>2, <2>3 DEF HullInv, ServedTreeIsRegistered, CounterNeverAhead,
                            kernel, appState
<1>5. QED
  BY <1>3, <1>4, TakeShape

\* A poke that runs: a commit that was given up may still register the root,
\* but only a hull that serves no tree has none registered.
LEMMA RunKeeps ==
  ASSUME HullInv, KernelRuns
  PROVE  HullInv'
<1> DEFINE poke == Head(inbox)
<1>1. inbox # <<>> /\ Take("answered") /\ "answered" \in Phases
  BY DEF KernelRuns, Phases
<1>2. poke \in OwnPokes
  BY <1>1, TakeShape DEF KernelRuns, Peek
<1>3. UNCHANGED appState
  BY <1>1 DEF Take
<1>4. \/ /\ poke.cause = "settle-register" /\ poke.hull = HullId /\ poke.root \in Roots
         /\ history' = history /\ effects' # <<>>
         /\ \/ /\ registered' = registered
               /\ Head(effects') # "settle-registered"
            \/ /\ registered[HullId] = NoRoot
               /\ registered' = [registered EXCEPT ![HullId] = poke.root]
      \/ /\ poke.cause = "settle-note" /\ poke.payload \in Graft!Payloads
         /\ registered' = registered /\ effects' # <<>>
         /\ \/ /\ history' = history
               /\ Head(effects') # "settle-noted"
            \/ history' = Append(history, [id |-> poke.payload.id,
                     hull |-> poke.payload.hull, root |-> poke.payload.root])
  BY <1>2, Causes, RegisterStep, NoteStep, HullAssumption DEF KernelRuns
<1>5. /\ registered' \in [Hulls -> Roots \cup {NoRoot}]
      /\ registered[HullId] # NoRoot => registered'[HullId] = registered[HullId]
      /\ poke.cause = "settle-register" /\ Head(effects') = "settle-registered"
           => registered'[poke.hull] = poke.root
  BY <1>4, HullAssumption DEF HullInv, InFlight
<1>6. /\ history' \in Seq(Graft!Notes) /\ Len(history') >= Len(history)
      /\ poke.cause = "settle-note" /\ Head(effects') = "settle-noted" =>
           /\ Len(history') = Len(history) + 1
           /\ history'[Len(history')].id = poke.payload.id
  <2>1. history \in Seq(Graft!Notes)
    BY DEF HullInv, InFlight
  <2>2. ASSUME poke.payload \in Graft!Payloads
        PROVE  [id |-> poke.payload.id, hull |-> poke.payload.hull,
                root |-> poke.payload.root] \in Graft!Notes
    BY <2>2 DEF Graft!Payloads, Graft!Notes
  <2>3. QED
    BY <1>4, <2>1, <2>2
<1>7. ServedTreeIsRegistered'
  BY <1>3, <1>5 DEF HullInv, ServedTreeIsRegistered, InFlight, appState
<1>8. CounterNeverAhead'
  BY <1>3, <1>6 DEF HullInv, CounterNeverAhead, InFlight, appState
<1>9. CASE handler' = handler
  <2>1. inbox' \in Seq(OwnPokes \cup {Peek}) /\ AnswersMatch'
    BY <1>1, <1>9, UntoldMatch
  <2>2. QED
    BY <1>3, <1>5, <1>6, <1>7, <1>8, <1>9, <2>1 DEF HullInv, InFlight, appState
<1>10. CASE /\ handler.phase \in {"peeking", "awaiting"}
            /\ handler' = [handler EXCEPT !.phase = "answered"]
            /\ inbox' = <<>> /\ poke = inbox[Len(inbox)]
  <2>1. handler.phase = "awaiting" /\ handler.poke = poke
    BY <1>2, <1>10, Causes DEF HullInv, AnswersMatch
  <2>2. handler' = [phase |-> "answered", poke |-> poke]
    BY <1>10, <2>1, Carries DEF HullInv
  <2>3. /\ inbox' \in Seq(OwnPokes \cup {Peek})
        /\ handler' \in [phase : Phases, poke : OwnPokes]
    BY <1>1, <1>2, <2>2, TakeShape
  <2>4. InFlight'
    BY <1>3, <1>5, <1>6, <2>3 DEF HullInv, InFlight, appState
  <2>5. handler'.phase = "answered" /\ handler'.poke = poke /\ effects' # <<>>
    BY <1>4, <2>2
  <2>6. poke.cause = "settle-note" /\ Head(effects') = "settle-noted"
          => noteCounter' < Len(history')
    BY <1>3, <1>6 DEF HullInv, InFlight, CounterNeverAhead, appState
  <2>7. AnswersMatch'
    BY <1>5, <1>6, <1>10, <2>5, <2>6 DEF AnswersMatch, Answered
  <2>8. QED
    BY <1>7, <1>8, <2>4, <2>7 DEF HullInv
<1>11. QED
  BY <1>1, <1>9, <1>10, TakeShape

-----------------------------------------------------------------------------

\* HullInv is an invariant of every behaviour.
LEMMA HullInvariant == Spec => []HullInv
<1>1. Init => HullInv
  BY HullAssumption DEF Init, Graft!Init, HullInv, InFlight, AnswersMatch, Answered,
     Idle, ServedTreeIsRegistered, CounterNeverAhead
<1>2. HullInv /\ [Next]_vars => HullInv'
  <2> SUFFICES ASSUME HullInv, [Next]_vars
               PROVE  HullInv'
    OBVIOUS
  <2>1. CASE RefuseEarly \/ RbacDenied \/ CommitRefused \/ SettleRefused
             \/ SettleDrift \/ PokeFailed \/ Timeout \/ ClientGone
    BY <2>1, AnswerKeeps DEF RefuseEarly, RbacDenied, CommitRefused, SettleRefused,
       SettleDrift, PokeFailed, Timeout, ClientGone
  <2>2. ASSUME NEW r \in Roots, CommitRequest(r)
        PROVE  HullInv'
    <3>1. [cause |-> "settle-register", hull |-> HullId, root |-> r] \in OwnPokes
      BY DEF OwnPokes
    <3>2. QED
      BY <2>2, <3>1, AwaitKeeps DEF CommitRequest, Begin
  <2>3. ASSUME NEW id \in Ids \cup {DefaultId}, NEW h \in Hulls, NEW d \in Data,
               SettleRequest(id, h, d)
        PROVE  HullInv'
    <3> DEFINE p == [id |-> id, hull |-> h, root |-> tree, data |-> d, expected |-> tree]
    <3>1. id \in Ids
      <4>1. noteCounter \in Nat /\ noteCounter <= Len(history)
        BY DEF HullInv, InFlight, CounterNeverAhead
      <4>2. Len(history) < MaxSettles
        <5>1. Len(history) \in Nat /\ Len(inbox) \in Nat
          BY DEF HullInv, InFlight
        <5>2. Len(history) + Len(inbox) < MaxSettles
          BY <2>3 DEF SettleRequest
        <5>3. QED
          BY <5>1, <5>2, HullAssumption
      <4>3. QED
        BY <4>1, <4>2, HullAssumption DEF DefaultId
    <3>2. [cause |-> "settle-note", payload |-> p] \in OwnPokes
      BY <2>3, <3>1 DEF OwnPokes, Graft!Payloads, SettleRequest, HullInv, InFlight
    <3>3. QED
      BY <2>3, <3>2, AwaitKeeps DEF SettleRequest, Begin
  <2>4. CASE RbacAdmitted
    BY <2>4, Carries, AwaitKeeps DEF RbacAdmitted, HullInv
  <2>5. CASE CommitDone
    BY <2>5, CommitDoneKeeps
  <2>6. CASE SettleDone
    BY <2>6, SettleDoneKeeps
  <2>7. CASE CrashAndBoot
    BY <2>7, CrashKeeps
  <2>8. CASE KernelRuns
    BY <2>8, RunKeeps
  <2>9. CASE KernelPeeks \/ KernelFails
    BY <2>9, QuietKernelKeeps DEF KernelPeeks, KernelFails, Phases
  <2>10. CASE UNCHANGED vars
    BY <2>10 DEF vars, kernel, appState, HullInv, InFlight, AnswersMatch, Answered,
       ServedTreeIsRegistered, CounterNeverAhead
  <2>11. QED
    BY <2>1, <2>2, <2>3, <2>4, <2>5, <2>6, <2>7, <2>8, <2>9, <2>10 DEF Next
<1>3. QED
  BY <1>1, <1>2, PTL DEF Spec

-----------------------------------------------------------------------------
(* Answers of success and the notes they speak of *)

\* Each answer of success can be paired with a note of its own: of its id, and not
\* the note that a handler is about to report.
PairsReports(f) ==
  /\ f \in [DOMAIN reported -> DOMAIN history]
  /\ \A i, j \in DOMAIN reported : f[i] = f[j] => i = j
  /\ \A k \in DOMAIN reported : history[f[k]].id = reported[k]
  /\ Answered("settle-note") /\ Head(effects) = "settle-noted" =>
       \A k \in DOMAIN reported : f[k] # Len(history)

ReportsMatch ==
  /\ reported \in Seq(Ids)
  /\ \E f \in [DOMAIN reported -> DOMAIN history] : PairsReports(f)

\* A step that reports nothing and leaves no success of a settle to report.
LEMMA UnreportedKeeps ==
  ASSUME ReportsMatch, HullInv, reported' = reported, history' = history,
         ~Answered("settle-note")' \/ (Answered("settle-note") /\ effects' = effects)
  PROVE  ReportsMatch'
BY DEF ReportsMatch, PairsReports

\* A reported note takes the last place of the history, which no other report has.
LEMMA SettleDoneReports ==
  ASSUME ReportsMatch, HullInv, SettleDone
  PROVE  ReportsMatch'
<1> DEFINE id == handler.poke.payload.id
           n == Len(reported)
           last == Len(history)
<1>1. PICK f \in [DOMAIN reported -> DOMAIN history] : PairsReports(f)
  BY DEF ReportsMatch
<1>2. /\ Answered("settle-note") /\ Head(effects) = "settle-noted"
      /\ reported' = Append(reported, id) /\ history' = history
      /\ handler' = Idle
  BY DEF SettleDone, kernel
<1>3. id \in Ids
  <2>1. handler.poke \in OwnPokes
    BY <1>2, Carries DEF HullInv, Answered
  <2>2. handler.poke.payload \in Graft!Payloads
    BY <1>2, <2>1, Causes DEF Answered
  <2>3. QED
    BY <2>2 DEF Graft!Payloads
<1>4. last \in DOMAIN history /\ history[last].id = id
  <2>1. noteCounter < last /\ history[last].id = id
    BY <1>2 DEF HullInv, AnswersMatch
  <2>2. noteCounter \in Nat /\ history \in Seq(Graft!Notes)
    BY DEF HullInv, InFlight
  <2>3. QED
    BY <2>1, <2>2
<1>5. /\ reported \in Seq(Ids) /\ n \in Nat /\ DOMAIN reported = 1..n
      /\ reported' \in Seq(Ids) /\ DOMAIN reported' = 1..(n + 1)
      /\ \A k \in 1..n : reported'[k] = reported[k]
      /\ reported'[n + 1] = id
  BY <1>2, <1>3, AppendProperties DEF ReportsMatch
<1>6. PICK g \in [1..(n + 1) -> DOMAIN history] :
        g[n + 1] = last /\ \A k \in 1..n : g[k] = f[k]
  <2> DEFINE w == [k \in 1..(n + 1) |-> IF k = n + 1 THEN last ELSE f[k]]
  <2>1. w \in [1..(n + 1) -> DOMAIN history]
    BY <1>1, <1>4, <1>5
  <2>2. w[n + 1] = last /\ \A k \in 1..n : w[k] = f[k]
    BY <1>5
  <2>3. QED
    BY <2>1, <2>2
<1>7. g \in [DOMAIN reported' -> DOMAIN history']
  BY <1>2, <1>5
<1>8. \A k \in 1..n : f[k] # last
  BY <1>1, <1>2, <1>5 DEF PairsReports
<1>9. ASSUME NEW i \in 1..(n + 1), NEW j \in 1..(n + 1), g[i] = g[j]
      PROVE  i = j
  <2>1. i \in 1..n \/ i = n + 1
    BY <1>5
  <2>2. j \in 1..n \/ j = n + 1
    BY <1>5
  <2>3. CASE i \in 1..n /\ j \in 1..n
    BY <1>1, <1>5, <1>6, <1>9, <2>3 DEF PairsReports
  <2>4. QED
    BY <1>6, <1>8, <1>9, <2>1, <2>2, <2>3
<1>10. \A k \in 1..(n + 1) : history[g[k]].id = reported'[k]
  <2> SUFFICES ASSUME NEW k \in 1..(n + 1)
               PROVE  history[g[k]].id = reported'[k]
    OBVIOUS
  <2>1. CASE k \in 1..n
    <3>1. g[k] = f[k] /\ reported'[k] = reported[k] /\ k \in DOMAIN reported
      BY <1>5, <1>6, <2>1
    <3>2. history[f[k]].id = reported[k]
      BY <1>1, <3>1 DEF PairsReports
    <3>3. QED
      BY <3>1, <3>2
  <2>2. CASE k = n + 1
    <3>1. g[k] = last /\ reported'[k] = id
      BY <1>5, <1>6, <2>2
    <3>2. QED
      BY <1>4, <3>1
  <2>3. k \in 1..n \/ k = n + 1
    BY <1>5
  <2>4. QED
    BY <2>1, <2>2, <2>3
<1>11. ~Answered("settle-note")'
  BY <1>2 DEF Answered, Idle
<1>12. PairsReports(g)'
  BY <1>2, <1>5, <1>7, <1>9, <1>10, <1>11 DEF PairsReports
<1>13. QED
  BY <1>5, <1>7, <1>12 DEF ReportsMatch

\* A poke that runs leaves the pairs alone; the note it may add is still free.
LEMMA RunReports ==
  ASSUME ReportsMatch, HullInv, KernelRuns
  PROVE  ReportsMatch'
<1> DEFINE poke == Head(inbox)
<1>1. inbox # <<>> /\ Take("answered") /\ "answered" \in Phases
  BY DEF KernelRuns, Phases
<1>2. poke \in OwnPokes
  BY <1>1, TakeShape DEF KernelRuns, Peek
<1>3. PICK f \in [DOMAIN reported -> DOMAIN history] : PairsReports(f)
  BY DEF ReportsMatch
<1>4. reported' = reported /\ history \in Seq(Graft!Notes) /\ reported \in Seq(Ids)
  BY <1>1 DEF Take, HullInv, InFlight, ReportsMatch
<1>5. \/ /\ poke.cause = "settle-register" /\ history' = history
      \/ /\ poke.cause = "settle-note" /\ history' = history
         /\ Head(effects') # "settle-noted"
      \/ \E note \in Graft!Notes :
           poke.cause = "settle-note" /\ history' = Append(history, note)
  <2>1. CASE poke.cause = "settle-register"
    BY <1>2, <2>1, Causes, RegisterStep, HullAssumption DEF KernelRuns
  <2>2. CASE poke.cause = "settle-note"
    <3>1. poke.payload \in Graft!Payloads
      BY <1>2, <2>2, Causes
    <3>2. [id |-> poke.payload.id, hull |-> poke.payload.hull,
           root |-> poke.payload.root] \in Graft!Notes
      BY <3>1 DEF Graft!Payloads, Graft!Notes
    <3>3. QED
      BY <1>2, <2>2, <3>1, <3>2, NoteStep DEF KernelRuns
  <2>3. QED
    BY <1>2, <2>1, <2>2, Causes
<1>6. Answered("settle-note")' => poke.cause = "settle-note"
  <2>1. CASE handler' = handler /\
             handler.phase \notin {"admitted", "denied", "answered", "failed"}
    BY <2>1 DEF Answered
  <2>2. CASE /\ handler.phase \in {"peeking", "awaiting"}
             /\ handler' = [handler EXCEPT !.phase = "answered"]
             /\ poke = inbox[Len(inbox)]
    <3>1. handler.poke = poke
      BY <1>2, <2>2, Causes DEF HullInv, AnswersMatch
    <3>2. handler = [phase |-> handler.phase, poke |-> handler.poke]
      BY <2>2, Carries DEF HullInv
    <3>3. handler'.poke = poke
      BY <2>2, <3>1, <3>2
    <3>4. QED
      BY <3>3 DEF Answered
  <2>3. QED
    BY <1>1, <2>1, <2>2, TakeShape
<1>7. CASE history' = history
             /\ (poke.cause = "settle-note" => Head(effects') # "settle-noted")
  BY <1>3, <1>4, <1>6, <1>7 DEF PairsReports, ReportsMatch
<1>8. ASSUME NEW note \in Graft!Notes, history' = Append(history, note)
      PROVE  ReportsMatch'
  <2>1. /\ DOMAIN history = 1..Len(history) /\ Len(history) \in Nat
        /\ DOMAIN history' = 1..(Len(history) + 1) /\ Len(history') = Len(history) + 1
        /\ \A k \in DOMAIN history : history'[k] = history[k]
    BY <1>4, <1>8, AppendProperties
  <2>2. f \in [DOMAIN reported' -> DOMAIN history']
    BY <1>3, <1>4, <2>1
  <2>3. /\ \A k \in DOMAIN reported : history'[f[k]].id = reported[k]
        /\ \A k \in DOMAIN reported : f[k] # Len(history')
    BY <1>3, <2>1 DEF PairsReports
  <2>4. PairsReports(f)'
    BY <1>3, <1>4, <2>2, <2>3 DEF PairsReports
  <2>5. QED
    BY <1>4, <2>2, <2>4 DEF ReportsMatch
<1>9. QED
  BY <1>5, <1>7, <1>8

\* ReportsMatch is an invariant, given HullInv.
LEMMA ReportsInvariant == Spec => []ReportsMatch
<1>1. Init => ReportsMatch
  <2> SUFFICES ASSUME Init
               PROVE  ReportsMatch
    OBVIOUS
  <2>1. reported = <<>> /\ history = <<>> /\ handler = Idle
    BY DEF Init, Graft!Init
  <2>2. DOMAIN reported = {} /\ reported \in Seq(Ids)
    BY <2>1
  <2>3. PICK f : f \in [{} -> DOMAIN history]
    <3>1. [k \in {} |-> 0] \in [{} -> DOMAIN history]
      OBVIOUS
    <3>2. QED
      BY <3>1
  <2>4. PairsReports(f)
    BY <2>1, <2>2, <2>3 DEF PairsReports
  <2>5. QED
    BY <2>2, <2>3, <2>4 DEF ReportsMatch
<1>2. HullInv /\ ReportsMatch /\ [Next]_vars => ReportsMatch'
  <2> SUFFICES ASSUME HullInv, ReportsMatch, [Next]_vars
               PROVE  ReportsMatch'
    OBVIOUS
  <2>1. CASE RefuseEarly \/ RbacDenied \/ CommitRefused \/ SettleRefused
             \/ SettleDrift \/ PokeFailed \/ Timeout \/ ClientGone
    BY <2>1, UnreportedKeeps DEF RefuseEarly, RbacDenied, CommitRefused, SettleRefused,
       SettleDrift, PokeFailed, Timeout, ClientGone, Answer, kernel, Answered, Idle
  <2>2. ASSUME NEW poke, Await("peeking", Peek, poke) \/ Await("awaiting", poke, poke)
        PROVE  ReportsMatch'
    BY <2>2, UnreportedKeeps DEF Await, kernel, Answered
  <2>3. CASE RbacAdmitted \/ \E r \in Roots : CommitRequest(r)
    BY <2>2, <2>3 DEF RbacAdmitted, CommitRequest, Begin
  <2>4. CASE \E id \in Ids \cup {DefaultId}, h \in Hulls, d \in Data :
               SettleRequest(id, h, d)
    BY <2>2, <2>4 DEF SettleRequest, Begin
  <2>5. CASE CommitDone \/ CrashAndBoot
    BY <2>5, UnreportedKeeps DEF CommitDone, CrashAndBoot, kernel, Answered, Idle
  <2>6. CASE SettleDone
    BY <2>6, SettleDoneReports
  <2>7. CASE KernelRuns
    BY <2>7, RunReports
  <2>8. CASE KernelPeeks \/ KernelFails
    <3>1. PICK phase \in {"admitted", "denied", "failed"} :
            inbox # <<>> /\ Take(phase) /\ UNCHANGED kernel
      BY <2>8 DEF KernelPeeks, KernelFails
    <3>2. ~Answered("settle-note")'
      <4>1. CASE handler' = handler /\
                 handler.phase \notin {"admitted", "denied", "answered", "failed"}
        BY <4>1 DEF Answered
      <4>2. CASE /\ handler.phase \in {"peeking", "awaiting"}
                 /\ handler' = [handler EXCEPT !.phase = phase]
        <5>1. handler = [phase |-> handler.phase, poke |-> handler.poke]
          BY <4>2, Carries DEF HullInv
        <5>2. QED
          BY <4>2, <5>1 DEF Answered
      <4>3. QED
        BY <3>1, <4>1, <4>2, TakeShape DEF Phases
    <3>3. QED
      BY <3>1, <3>2, UnreportedKeeps DEF Take, kernel
  <2>9. CASE UNCHANGED vars
    BY <2>9, UnreportedKeeps DEF vars, kernel, Answered
  <2>10. QED
    BY <2>1, <2>3, <2>4, <2>5, <2>6, <2>7, <2>8, <2>9 DEF Next
<1>3. QED
  BY <1>1, <1>2, HullInvariant, PTL DEF Spec

\* A pairing that keeps the ids keeps their number.
LEMMA PairsCount ==
  ASSUME NEW r \in Seq(Ids), NEW s \in Seq(Ids), NEW id,
         NEW f \in [DOMAIN r -> DOMAIN s],
         \A i, j \in DOMAIN r : f[i] = f[j] => i = j,
         \A k \in DOMAIN r : s[f[k]] = r[k]
  PROVE  Occurrences(id, r) <= Occurrences(id, s)
<1> DEFINE R == {k \in DOMAIN r : r[k] = id}
           S == {k \in DOMAIN s : s[k] = id}
           g == [k \in R |-> f[k]]
<1>1. IsFiniteSet(S) /\ IsFiniteSet(R)
  <2>1. IsFiniteSet(1..Len(r)) /\ IsFiniteSet(1..Len(s))
    BY FS_Interval
  <2>2. R \subseteq 1..Len(r) /\ S \subseteq 1..Len(s)
    OBVIOUS
  <2>3. QED
    BY <2>1, <2>2, FS_Subset
<1>2. g \in Injection(R, S)
  BY DEF Injection, IsInjective
<1>3. Cardinality(R) <= Cardinality(S)
  BY <1>1, <1>2, FS_Injection, FS_CardinalityType DEF ExistsInjection
<1>4. QED
  BY <1>3 DEF Occurrences

-----------------------------------------------------------------------------

\* No interleaving of commits, timeouts, disconnects, late pokes and restarts
\* makes the hull serve a tree the kernel has not registered.
THEOREM ServedTreeIsRegisteredCorrect == Spec => []ServedTreeIsRegistered
BY HullInvariant, PTL DEF HullInv

\* The counter, and the file it is reloaded from, never pass the number of
\* notes the kernel settled.
THEOREM CounterNeverAheadCorrect == Spec => []CounterNeverAhead
BY HullInvariant, PTL DEF HullInv

\* Every handler gets the answer to its own request.
THEOREM AnswersMatchCorrect == Spec => []AnswersMatch
BY HullInvariant, PTL DEF HullInv

\* No client is told of a settlement that did not happen, nor two of the same one:
\* each 200 of /settle has a note of its own in the kernel's history.
THEOREM ReportedIsSettledCorrect == Spec => []ReportedIsSettled
<1>1. HullInv /\ ReportsMatch => ReportedIsSettled
  <2> SUFFICES ASSUME HullInv, ReportsMatch, NEW id \in Ids
               PROVE  Occurrences(id, reported)
                        <= Occurrences(id, [k \in DOMAIN history |-> history[k].id])
    BY DEF ReportedIsSettled
  <2> DEFINE ids == [k \in DOMAIN history |-> history[k].id]
  <2>1. PICK f \in [DOMAIN reported -> DOMAIN history] : PairsReports(f)
    BY DEF ReportsMatch
  <2>2. ids \in Seq(Ids) /\ DOMAIN ids = DOMAIN history
    <3>1. history \in Seq(Graft!Notes)
      BY DEF HullInv, InFlight
    <3>2. \A k \in 1..Len(history) : history[k] \in Graft!Notes
      BY <3>1, ElementOfSeq
    <3>3. \A k \in 1..Len(history) : history[k].id \in Ids
      BY <3>2 DEF Graft!Notes
    <3>4. QED
      BY <3>1, <3>3, IsASeq
  <2>3. reported \in Seq(Ids)
    BY DEF ReportsMatch
  <2>4. QED
    BY <2>1, <2>2, <2>3, PairsCount DEF PairsReports
<1>2. QED
  BY <1>1, HullInvariant, ReportsInvariant, PTL

-----------------------------------------------------------------------------
(* The kernel under the hull *)

\* The settle graft with the theorems about it.
Kernel == INSTANCE SettleGraftProofs

\* Its constants are as it assumes.
LEMMA KernelConstants == Kernel!ConstantsAssumption
<1>1. Kernel!IsFiniteSet(Hulls)
  BY KernelAssumption DEF IsFiniteSet, Kernel!IsFiniteSet
<1>2. QED
  BY <1>1, HullAssumption, KernelAssumption DEF Kernel!ConstantsAssumption, Kernel!Verdicts

LEMMA SameCount == ASSUME NEW S PROVE Graft!Cardinality(S) = Kernel!Cardinality(S)
BY Zenon DEF Graft!Cardinality, Kernel!Cardinality

LEMMA RegisterIsStep ==
  ASSUME NEW h \in Hulls, NEW r \in Roots, Graft!SettleRegister(h, r)
  PROVE  Kernel!SettleRegister(h, r)
BY SameCount DEF Graft!SettleRegister, Graft!SettleRegisterAccepted,
   Graft!SettleRegisterRefused, Graft!RegisteredHulls, Graft!Refuse, Graft!graftState,
   Kernel!SettleRegister, Kernel!SettleRegisterAccepted,
   Kernel!SettleRegisterRefused, Kernel!RegisteredHulls, Kernel!Refuse, Kernel!graftState

LEMMA NoteIsStep ==
  ASSUME NEW p, Graft!SettleNote(p)
  PROVE  Kernel!SettleNote(p)
BY DEF Graft!SettleNote, Graft!SettleNoteRefused, Graft!SettleNoteDenied,
   Graft!SettleNoteAccepted, Graft!RootBound, Graft!Replayed, Graft!Verdict,
   Graft!SettleInEpoch, Graft!RotateAndSettle, Graft!Refuse, Graft!graftState,
   Kernel!SettleNote, Kernel!SettleNoteRefused, Kernel!SettleNoteDenied,
   Kernel!SettleNoteAccepted, Kernel!RootBound, Kernel!Replayed, Kernel!Verdict,
   Kernel!SettleInEpoch, Kernel!RotateAndSettle, Kernel!Refuse, Kernel!graftState

\* Only the kernel's own run changes its state: a handler that refuses, waits, gives up or
\* ends leaves it as it is, and so does a crash, which the persisted state outlives.
LEMMA OthersLeaveTheKernel ==
  ASSUME [Next]_vars, ~KernelRuns
  PROVE  UNCHANGED kernel
<1>1. CASE vars' = vars
  BY <1>1 DEF vars, kernel
<1>2. CASE \/ \E r \in Roots : CommitRequest(r)
           \/ \E id \in Ids \cup {DefaultId}, h \in Hulls, d \in Data : SettleRequest(id, h, d)
  BY <1>2 DEF CommitRequest, SettleRequest, Begin, Await, kernel
<1>3. CASE RefuseEarly \/ RbacAdmitted \/ RbacDenied \/ CommitRefused \/ CommitDone
  BY <1>3 DEF RefuseEarly, RbacAdmitted, RbacDenied, CommitRefused, CommitDone, Begin, Await,
     kernel
<1>4. CASE SettleRefused \/ SettleDrift \/ SettleDone \/ PokeFailed \/ Timeout \/ ClientGone
  BY <1>4 DEF SettleRefused, SettleDrift, SettleDone, PokeFailed, Timeout, ClientGone, kernel
<1>5. CASE CrashAndBoot \/ KernelPeeks \/ KernelFails
  BY <1>5 DEF CrashAndBoot, KernelPeeks, KernelFails, kernel
<1>6. QED  BY <1>1, <1>2, <1>3, <1>4, <1>5 DEF Next

\* The hull drives the kernel as the settle graft is specified: whatever it sends,
\* drops or repeats, every step of it is a poke of the graft or leaves it alone.
THEOREM HullDrivesTheGraft == Spec => Kernel!Spec
<1>1. Init => Kernel!Init
  BY DEF Init, Graft!Init, Kernel!Init
<1>2. HullInv /\ [Next]_vars => [Kernel!Next]_(Kernel!vars)
  <2> SUFFICES ASSUME HullInv, [Next]_vars
               PROVE  Kernel!Next \/ UNCHANGED kernel
    BY DEF kernel, Kernel!vars, Kernel!graftState
  <2>1. CASE KernelRuns
    <3> DEFINE poke == Head(inbox)
    <3>1. poke \in OwnPokes
      BY <2>1, TakeShape DEF KernelRuns, Peek, Phases
    <3>2. CASE poke.cause = "settle-register"
      BY <2>1, <3>1, <3>2, Causes, RegisterIsStep, HullAssumption DEF KernelRuns, Kernel!Next
    <3>3. CASE poke.cause = "settle-note"
      BY <2>1, <3>1, <3>3, Causes, NoteIsStep
         DEF KernelRuns, Kernel!Next, Kernel!Payloads, Graft!Payloads
    <3>4. QED
      BY <3>1, <3>2, <3>3, Causes
  <2>2. CASE ~KernelRuns
    BY <2>2, OthersLeaveTheKernel
  <2>3. QED  BY <2>1, <2>2
<1>3. QED
  BY <1>1, <1>2, HullInvariant, PTL DEF Spec, Kernel!Spec

\* Under the hull, too, no id settles twice within the replay window, and every
\* settled note stays under the root of its hull, approved by the gate.
THEOREM HullKeepsHistorySound == Spec => []Kernel!HistorySound
BY HullDrivesTheGraft, KernelConstants, Kernel!HistorySoundCorrect

\* What clients see through the hull is the ledger the graft promises.
THEOREM HullImplementsLedger == Spec => Kernel!ImplementsLedger
BY HullDrivesTheGraft, KernelConstants, Kernel!ImplementsLedgerCorrect

\* The bound on the inbox and the set of answers, the two parts of the type that
\* nothing above needs.
Bounded == Len(inbox) <= MaxInbox /\ rbacEnabled \in BOOLEAN /\ reply \in Replies

LEMMA BoundedInvariant == Spec => []Bounded
<1>1. Init => Bounded
  BY HullAssumption DEF Init, Bounded, Replies
<1>2. HullInv /\ Bounded /\ [Next]_vars => Bounded'
  <2> SUFFICES ASSUME HullInv, Bounded, [Next]_vars
               PROVE  Bounded'
    OBVIOUS
  <2>1. inbox \in Seq(OwnPokes \cup {Peek})
    BY DEF HullInv, InFlight
  <2>2. CASE RefuseEarly \/ RbacDenied \/ CommitRefused \/ SettleRefused
             \/ SettleDrift \/ PokeFailed \/ Timeout \/ ClientGone
    BY <2>2 DEF RefuseEarly, RbacDenied, CommitRefused, SettleRefused, SettleDrift,
       PokeFailed, Timeout, ClientGone, Answer, appState, Bounded, Replies
  <2>3. CASE CommitDone \/ SettleDone \/ CrashAndBoot
    BY <2>3, HullAssumption DEF CommitDone, SettleDone, CrashAndBoot, Bounded, Replies
  <2>4. ASSUME NEW phase, NEW request \in OwnPokes \cup {Peek}, NEW poke,
               Await(phase, request, poke)
        PROVE  Bounded'
    <3>1. Len(inbox) \in Nat /\ Len(inbox') = Len(inbox) + 1
      BY <2>1, <2>4, AppendProperties DEF Await
    <3>2. QED
      BY <2>4, <3>1, HullAssumption DEF Await, appState, Bounded
  <2>5. CASE RbacAdmitted
    BY <2>4, <2>5, Carries DEF RbacAdmitted, HullInv
  <2>6. ASSUME NEW r \in Roots, CommitRequest(r)
        PROVE  Bounded'
    <3>1. [cause |-> "settle-register", hull |-> HullId, root |-> r] \in OwnPokes
      BY DEF OwnPokes
    <3>2. QED
      BY <2>4, <2>6, <3>1 DEF CommitRequest, Begin
  <2>7. ASSUME NEW id \in Ids \cup {DefaultId}, NEW h \in Hulls, NEW d \in Data,
               SettleRequest(id, h, d)
        PROVE  Bounded'
    <3>1. PICK phase, request, poke : Await(phase, request, poke)
      BY <2>7 DEF SettleRequest, Begin, Phases
    <3>2. inbox' = Append(inbox, request) /\ Len(inbox) < MaxInbox /\ UNCHANGED <<appState, reply>>
      BY <3>1 DEF Await
    <3>3. Len(inbox') = Len(inbox) + 1 /\ Len(inbox) \in Nat
      BY <2>1, <3>2
    <3>4. QED
      BY <3>2, <3>3, HullAssumption DEF appState, Bounded
  <2>8. CASE KernelRuns \/ KernelPeeks \/ KernelFails
    <3>1. PICK phase : inbox # <<>> /\ Take(phase)
      BY <2>8 DEF KernelRuns, KernelPeeks, KernelFails
    <3>2. Len(inbox') = Len(inbox) - 1 /\ Len(inbox) \in Nat
      BY <2>1, <3>1, HeadTailProperties DEF Take
    <3>3. QED
      BY <3>1, <3>2, HullAssumption DEF Take, appState, Bounded
  <2>9. CASE UNCHANGED vars
    BY <2>9 DEF vars, appState, Bounded
  <2>10. QED
    BY <2>2, <2>3, <2>5, <2>6, <2>7, <2>8, <2>9 DEF Next
<1>3. QED
  BY <1>1, <1>2, HullInvariant, PTL DEF Spec

\* The hull and the kernel it drives keep their types.
THEOREM HullTypeCorrect == Spec => []TypeOK
<1>1. HullInv /\ ReportsMatch /\ Bounded /\ Kernel!TypeOK => TypeOK
  <2> SUFFICES ASSUME HullInv, ReportsMatch, Bounded, Kernel!TypeOK
               PROVE  TypeOK
    OBVIOUS
  <2>1. OwnPokes \subseteq Pokes
    BY HullAssumption DEF OwnPokes, Pokes
  <2>2. inbox \in Seq(Pokes \cup {Peek}) /\ handler \in Handlers
    <3>1. inbox \in Seq(OwnPokes \cup {Peek}) /\ OwnPokes \cup {Peek} \subseteq Pokes \cup {Peek}
      BY <2>1 DEF HullInv, InFlight
    <3>2. inbox \in Seq(Pokes \cup {Peek})
      BY <3>1, SeqMonotonic
    <3>3. QED
      BY <2>1, <3>2 DEF HullInv, InFlight, Handlers
  <2>3. Graft!TypeOK
    BY DEF Graft!TypeOK, Graft!Notes, Graft!EffectTags, Kernel!TypeOK, Kernel!Notes, Kernel!EffectTags
  <2>4. QED
    BY <2>2, <2>3 DEF TypeOK, Bounded, HullInv, InFlight, ReportsMatch
<1>2. Spec => []Kernel!TypeOK
  BY HullDrivesTheGraft, KernelConstants, Kernel!TypeCorrect
<1>3. QED
  BY <1>1, <1>2, HullInvariant, ReportsInvariant, BoundedInvariant, PTL

=============================================================================
