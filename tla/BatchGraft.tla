----------------------------- MODULE BatchGraft -----------------------------
(***************************************************************************)
(* hoon/lib/batch-graft.hoon: a buffer of intents that is flushed at a     *)
(* threshold, or by hand.                                                  *)
(*                                                                         *)
(* One action per cause and outcome.  added and flushed are ghosts: every  *)
(* intent accepted, and what the bundles flushed so far held, in order.    *)
(***************************************************************************)
EXTENDS JammedPayloads, Integers, Sequences

CONSTANTS BatchCap,  \* pending-cap
          MaxAdds    \* bound of the model: accepted intents

ASSUME BatchAssumption == BatchCap \in Nat /\ MaxAdds \in Nat

VARIABLES batchPending, counter, threshold, batchEffects, added, flushed

batchVars == <<batchPending, counter, threshold, batchEffects, added, flushed>>

BatchInit ==
  /\ batchPending = <<>>
  /\ counter = 0
  /\ threshold = 0
  /\ batchEffects = <<>>
  /\ added = <<>> /\ flushed = <<>>

BatchRefuse ==
  /\ batchEffects' = <<"batch-error">>
  /\ UNCHANGED <<batchPending, counter, threshold, added, flushed>>

\* %batch-init; a threshold above the cap could never fire.
BatchInitialize(t) ==
  /\ t <= BatchCap
  /\ threshold' = t
  /\ batchEffects' = <<"batch-initialized">>
  /\ UNCHANGED <<batchPending, counter, added, flushed>>

BatchInitializeRefused(t) == t > BatchCap /\ BatchRefuse

\* The auto-flush check, on the list after the addition.
FlushDue(pending) == threshold > 0 /\ Len(pending) >= threshold

\* Wrong variant of BatchAdd: the intent that reaches the threshold is left out of
\* the bundle.
BatchAddLosing(payload) ==
  LET now == Append(batchPending, payload) IN
    /\ payload # Malformed
    /\ Len(batchPending) < BatchCap
    /\ Len(added) < MaxAdds
    /\ counter' = counter + 1
    /\ added' = Append(added, payload)
    /\ IF FlushDue(now)
         THEN /\ batchPending' = <<>>
              /\ flushed' = flushed \o batchPending
              /\ batchEffects' = <<"batch-added", "batch-flushed">>
         ELSE /\ batchPending' = now
              /\ batchEffects' = <<"batch-added">>
              /\ UNCHANGED flushed
    /\ UNCHANGED threshold

BatchAdd(payload) ==
  LET now == Append(batchPending, payload) IN
    /\ payload # Malformed
    /\ Len(batchPending) < BatchCap
    /\ Len(added) < MaxAdds
    /\ counter' = counter + 1
    /\ added' = Append(added, payload)
    /\ IF FlushDue(now)
         THEN /\ batchPending' = <<>>
              /\ flushed' = flushed \o now
              /\ batchEffects' = <<"batch-added", "batch-flushed">>
         ELSE /\ batchPending' = now
              /\ batchEffects' = <<"batch-added">>
              /\ UNCHANGED flushed
    /\ UNCHANGED threshold

\* The cap is checked before the threshold.
BatchAddRefused(payload) ==
  /\ payload = Malformed \/ Len(batchPending) >= BatchCap
  /\ BatchRefuse

\* An empty buffer flushes an empty bundle.
BatchFlush ==
  /\ batchPending' = <<>>
  /\ flushed' = flushed \o batchPending
  /\ batchEffects' = <<"batch-flushed">>
  /\ UNCHANGED <<counter, threshold, added>>

BatchNext ==
  \/ \E t \in 0..(BatchCap + 1) : BatchInitialize(t) \/ BatchInitializeRefused(t)
  \/ \E payload \in JammedAtoms : BatchAdd(payload) \/ BatchAddRefused(payload)
  \/ BatchFlush

BatchSpec == BatchInit /\ [][BatchNext]_batchVars

-----------------------------------------------------------------------------
(* Properties *)

BatchTypeOK ==
  /\ batchPending \in Seq(Nouns) /\ Len(batchPending) <= BatchCap
  /\ counter \in Nat
  /\ threshold \in 0..BatchCap
  /\ added \in Seq(Nouns) /\ flushed \in Seq(Nouns)

\* What was flushed, and then what is pending, is exactly the intents accepted, in
\* their order: no bundle loses, doubles or reorders one.  The id an addition is
\* answered with is its place among them, whatever was flushed in between.
IntentsConserved == flushed \o batchPending = added /\ counter = Len(added)

\* An addition leaves the buffer below the threshold in force, even one that was
\* lowered beneath what was pending: it never takes two additions to flush.
NoOverdueAddition ==
  [][added' # added /\ threshold > 0 => Len(batchPending') < threshold]_batchVars

=============================================================================
