---------------------------- MODULE CounterGraft ----------------------------
(***************************************************************************)
(* hoon/lib/counter-graft.hoon: named counters, created when first touched.*)
(*                                                                         *)
(* issued is a ghost: the numbers that increments of each name gave out    *)
(* since the counter was last set or reset, and base what it was then.     *)
(***************************************************************************)
EXTENDS Integers, Sequences, FiniteSets

CONSTANTS Names,
          CountersCap, \* counters-cap
          Bex64,       \* 2^64: the first value that a u64 cannot hold
          Settable     \* the values that callers set; an atom has no bound

ASSUME CounterAssumption == CountersCap \in Nat /\ Bex64 \in Nat \ {0} /\ Settable \subseteq Nat

VARIABLES counters,      \* a function on the names that are present
          counterEffect, issued, base

counterVars == <<counters, counterEffect, issued, base>>

CounterInit ==
  /\ counters = [n \in {} |-> 0]
  /\ counterEffect = "none"
  /\ issued = [n \in Names |-> <<>>] /\ base = [n \in Names |-> 0]

Current(name) == IF name \in DOMAIN counters THEN counters[name] ELSE 0

\* The cap is for new names only.
CountersFull(name) == name \notin DOMAIN counters /\ Cardinality(DOMAIN counters) >= CountersCap

\* put of a map.
Counted(name, value) ==
  [n \in DOMAIN counters \cup {name} |-> IF n = name THEN value ELSE counters[n]]

\* Wrong variant of Saturated: gth in place of gte.
SaturatedLate(name) == Current(name) + 1 > Bex64

\* The next value would not fit a u64.
Saturated(name) == Current(name) + 1 >= Bex64

CounterIncrement(name) ==
  /\ ~Saturated(name) /\ ~CountersFull(name)
  /\ counters' = Counted(name, Current(name) + 1)
  /\ issued' = [issued EXCEPT ![name] = Append(@, Current(name) + 1)]
  /\ counterEffect' = "counter-incremented"
  /\ UNCHANGED base

\* reset writes zero, set any atom: the same arm but for the value and the effect.
CounterWrite(name, value, effect) ==
  /\ ~CountersFull(name)
  /\ counters' = Counted(name, value)
  /\ issued' = [issued EXCEPT ![name] = <<>>] /\ base' = [base EXCEPT ![name] = value]
  /\ counterEffect' = effect

CounterReset(name) == CounterWrite(name, 0, "counter-reset")
CounterSet(name, value) == CounterWrite(name, value, "counter-set")

\* Saturation refuses an increment only.
CounterRefused(name) ==
  /\ Saturated(name) \/ CountersFull(name)
  /\ counterEffect' = "counter-error"
  /\ UNCHANGED <<counters, issued, base>>

CounterNext ==
  \E name \in Names :
    \/ CounterIncrement(name) \/ CounterReset(name) \/ CounterRefused(name)
    \/ \E value \in Settable : CounterSet(name, value)

CounterSpec == CounterInit /\ [][CounterNext]_counterVars

-----------------------------------------------------------------------------
(* Properties *)

CounterTypeOK ==
  /\ DOMAIN counters \subseteq Names /\ \A n \in DOMAIN counters : counters[n] \in Nat
  /\ Cardinality(DOMAIN counters) <= CountersCap
  /\ counterEffect \in {"none", "counter-incremented", "counter-reset", "counter-set",
                        "counter-error"}
  /\ issued \in [Names -> Seq(Nat)] /\ base \in [Names -> Nat]

\* The numbers that increments give out serve as sequence numbers: they go on from
\* the last set or reset one by one, refusals and other names notwithstanding, each
\* is one that a u64 holds (also after a set far above), and the counter stands at
\* the last of them.
IncrementsCountOn ==
  \A n \in Names :
    /\ \A i \in DOMAIN issued[n] : issued[n][i] = base[n] + i /\ issued[n][i] < Bex64
    /\ n \in DOMAIN counters => counters[n] = base[n] + Len(issued[n])

=============================================================================
