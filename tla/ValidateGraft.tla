--------------------------- MODULE ValidateGraft ----------------------------
(***************************************************************************)
(* hoon/lib/validate-graft.hoon in a kernel with clock-graft: the prelude  *)
(* that graft-inject places before the switch checks each cause against    *)
(* the rules of its tag, those of validate-graft and clock-graft included. *)
(*                                                                         *)
(* One rule exists, non-empty, so a tag has a number of rules.  A tag is   *)
(* also the body of a %validate-clear, where Nil is the empty cord: ~.     *)
(***************************************************************************)
EXTENDS Integers, FiniteSets

CONSTANTS OtherTags,          \* cause tags of the other grafts
          Nil,                \* the empty cord, as a cause tag
          RulesCap,           \* rules-cap
          RulesPerCauseCap,   \* rules-per-cause-cap
          MaxInits, MaxTicks  \* bounds of the model: rules installed, clock ticks

CauseTags == OtherTags \cup {Nil, "validate-init", "validate-clear", "clock-tick"}

ASSUME ValidateAssumption ==
  /\ IsFiniteSet(OtherTags) /\ Nil \notin OtherTags
  /\ RulesCap \in Nat /\ RulesPerCauseCap \in Nat /\ MaxInits \in Nat /\ MaxTicks \in Nat

VARIABLES rules,           \* a function on the tags that have an entry: how many rules
          ticks, validateEffect, inits

validateVars == <<rules, ticks, validateEffect, inits>>

ValidateInit ==
  /\ rules = [t \in {} |-> 0]
  /\ ticks = 0 /\ validateEffect = "none" /\ inits = 0

\* Wrong variant of Rejects: any body fails a rule.
RejectsAll(tag, emptyBody) == tag \in DOMAIN rules /\ rules[tag] > 0

\* check-rules fails: a rule is installed and the body is nil.
Rejects(tag, emptyBody) == tag \in DOMAIN rules /\ rules[tag] > 0 /\ emptyBody

\* The prelude answers for the graft, and the state stays as it is.
PreludeRejects(tag, emptyBody) ==
  /\ Rejects(tag, emptyBody)
  /\ validateEffect' = "validate-rejected"
  /\ UNCHANGED <<rules, ticks, inits>>

\* Wrong variant of Install: one entry past the cap.
InstallLate(tag, count) ==
  /\ ~Rejects("validate-init", FALSE)
  /\ count <= RulesPerCauseCap
  /\ tag \in DOMAIN rules \/ Cardinality(DOMAIN rules) <= RulesCap
  /\ inits < MaxInits
  /\ rules' = [t \in DOMAIN rules \cup {tag} |-> IF t = tag THEN count ELSE rules[t]]
  /\ inits' = inits + 1
  /\ validateEffect' = "validate-rules-installed"
  /\ UNCHANGED ticks

\* The body of %validate-init is a cell, which is never nil.
Install(tag, count) ==
  /\ ~Rejects("validate-init", FALSE)
  /\ count <= RulesPerCauseCap
  /\ tag \in DOMAIN rules \/ Cardinality(DOMAIN rules) < RulesCap
  /\ inits < MaxInits
  /\ rules' = [t \in DOMAIN rules \cup {tag} |-> IF t = tag THEN count ELSE rules[t]]
  /\ inits' = inits + 1
  /\ validateEffect' = "validate-rules-installed"
  /\ UNCHANGED ticks

InstallRefused(tag, count) ==
  /\ ~Rejects("validate-init", FALSE)
  /\ \/ count > RulesPerCauseCap
     \/ tag \notin DOMAIN rules /\ Cardinality(DOMAIN rules) >= RulesCap
  /\ validateEffect' = "validate-error"
  /\ UNCHANGED <<rules, ticks, inits>>

\* Clearing a tag without rules succeeds too.
Clear(tag) ==
  /\ ~Rejects("validate-clear", tag = Nil)
  /\ rules' = [t \in DOMAIN rules \ {tag} |-> rules[t]]
  /\ validateEffect' = "validate-rules-cleared"
  /\ UNCHANGED <<ticks, inits>>

\* The body of %clock-tick is nil: any rule on its tag stops the clock.
ClockTick ==
  /\ ~Rejects("clock-tick", TRUE)
  /\ ticks < MaxTicks
  /\ ticks' = ticks + 1
  /\ validateEffect' = "clock-ticked"
  /\ UNCHANGED <<rules, inits>>

ValidateNext ==
  \/ \E tag \in CauseTags :
       \/ \E count \in 0..(RulesPerCauseCap + 1) : Install(tag, count) \/ InstallRefused(tag, count)
       \/ Clear(tag)
       \/ PreludeRejects("validate-clear", tag = Nil)
  \/ ClockTick
  \/ PreludeRejects("clock-tick", TRUE)

\* An operator who wants the rules gone goes on asking, tag by tag.
ValidateFairness ==
  \A tag \in CauseTags : WF_validateVars(tag \in DOMAIN rules /\ Clear(tag))

ValidateSpec == ValidateInit /\ [][ValidateNext]_validateVars /\ ValidateFairness

-----------------------------------------------------------------------------
(* Properties *)

ValidateTypeOK ==
  /\ DOMAIN rules \subseteq CauseTags /\ Cardinality(DOMAIN rules) <= RulesCap
  /\ \A t \in DOMAIN rules : rules[t] \in 0..RulesPerCauseCap
  /\ ticks \in Nat /\ inits \in Nat
  /\ validateEffect \in {"none", "validate-rejected", "validate-rules-installed",
                         "validate-rules-cleared", "validate-error", "clock-ticked"}

\* No rules lock their operator out, those on the tags of validate-graft itself
\* included: whoever stops installing and goes on clearing each tag gets rid of them
\* all, after which every cause passes.
NoLockOut == []<>(DOMAIN rules = {})

=============================================================================
