------------------------------- MODULE Watch --------------------------------
(* vesl-test watch: a REPL that pokes and peeks a running kernel, and prints a  *)
(* row for each command with the effects it receives on a broadcast channel     *)
(* meanwhile.  The kernel's thread acknowledges a poke first; a task it spawns  *)
(* then broadcasts the effects, and may be late.                                *)
EXTENDS ListFilters, SequencesExt

CONSTANTS
  Causes, EffectTags,  \* tags of commands and of effects
  MaxCommands,         \* bound: numbered lines
  MaxEffects,          \* bound: effects of one poke
  ChannelCap           \* what the broadcast channel holds for a slow receiver

ASSUME WatchAssumption ==
  /\ MaxCommands \in Nat /\ MaxEffects \in Nat
  /\ ChannelCap \in Nat \ {0}

NoFilter == [on |-> "none", tag |-> "none"]
Filters ==
  {NoFilter} \cup [on : {"cause"}, tag : Causes] \cup [on : {"effect"}, tag : EffectTags]

VARIABLES
  repl,         \* where drive is: reading, poking, draining, peeking, ended
  filter,       \* WatchOpts.filter
  event_num, cause_tag,
  running,      \* the task of app.run()
  tasks,        \* per poke, the effects its task has yet to broadcast
  effect_rx,    \* the channel, as the REPL's receiver sees it
  effects,      \* what drain_effects has taken so far
  rows,         \* ghost: what was printed, or held back by an effect filter
  sent, lagged  \* ghosts: all that was broadcast; what the channel dropped of it

watchVars ==
  <<repl, filter, event_num, cause_tag, running, tasks, effect_rx, effects, rows, sent, lagged>>

kernelVars == <<running, tasks>>
channelVars == <<effect_rx, sent, lagged>>

Row(kind, num, seen) ==
  [kind |-> kind, num |-> num, effects |-> seen,
   shown |-> filter.on = "effect" /\ kind = "poke" =>
               \E i \in DOMAIN seen : seen[i].tag = filter.tag]

Write(kind, num, seen) == rows' = Append(rows, Row(kind, num, seen))

WatchInit ==
  /\ repl = "reading" /\ filter \in Filters /\ event_num = 0 /\ cause_tag = "none"
  /\ running = TRUE /\ tasks = [n \in 1 .. MaxCommands |-> << >>]
  /\ effect_rx = << >> /\ effects = << >> /\ rows = << >> /\ sent = << >> /\ lagged = {}

-----------------------------------------------------------------------------
(* The REPL.  The select is biased: a line is read only while the kernel runs. *)

\* Wrong variant: select takes either branch.
AwaitsLineUnbiased == repl = "reading"

AwaitsLine == repl = "reading" /\ running

Numbered ==
  /\ AwaitsLine /\ event_num < MaxCommands
  /\ event_num' = event_num + 1

Passes(tag) == filter.on = "cause" => filter.tag = tag

\* A line that does not parse has a row of its own.
ReadGarbage ==
  /\ Numbered
  /\ Write("error", event_num', << >>)
  /\ UNCHANGED <<repl, filter, cause_tag, effects, kernelVars, channelVars>>

\* A cause filter holds the command itself back, not only its row.
ReadFiltered(tag) ==
  /\ Numbered /\ ~Passes(tag)
  /\ UNCHANGED <<repl, filter, cause_tag, effects, rows, kernelVars, channelVars>>

\* Wrong variant: what the channel holds is cleared with the slogs.
ReadPokeClearing(tag) ==
  /\ Numbered /\ Passes(tag)
  /\ repl' = "poking" /\ cause_tag' = tag
  /\ effect_rx' = << >>
  /\ UNCHANGED <<filter, effects, rows, kernelVars, sent, lagged>>

ReadPoke(tag) ==
  /\ Numbered /\ Passes(tag)
  /\ repl' = "poking" /\ cause_tag' = tag
  /\ UNCHANGED <<filter, effects, rows, kernelVars, channelVars>>

ReadPeek(tag) ==
  /\ Numbered /\ Passes(tag)
  /\ repl' = "peeking" /\ cause_tag' = tag
  /\ UNCHANGED <<filter, effects, rows, kernelVars, channelVars>>

\* A poke-jam whose bytes are no jammed noun ends the session with an error.
ReadUndecodable(tag) ==
  /\ Numbered /\ Passes(tag)
  /\ repl' = "ended"
  /\ UNCHANGED <<filter, cause_tag, effects, rows, kernelVars, channelVars>>

\* quit, exit, or the end of stdin.
Quit ==
  /\ AwaitsLine
  /\ repl' = "ended"
  /\ UNCHANGED <<filter, event_num, cause_tag, effects, rows, kernelVars, channelVars>>

NoticeDeath ==
  /\ repl = "reading" /\ ~running
  /\ repl' = "ended"
  /\ Write("kernel-died", event_num, << >>)
  /\ UNCHANGED <<filter, event_num, cause_tag, effects, kernelVars, channelVars>>

\* recv takes the oldest effect there is; of those dropped it tells only Lagged.
DrainOne ==
  /\ repl = "draining" /\ effect_rx # << >>
  /\ effects' = Append(effects, Head(effect_rx))
  /\ effect_rx' = Tail(effect_rx)
  /\ UNCHANGED <<repl, filter, event_num, cause_tag, rows, kernelVars, sent, lagged>>

\* The deadline ends the drain, whatever the channel still holds.
WindowEnds ==
  /\ repl = "draining"
  /\ repl' = "reading" /\ effects' = << >>
  /\ Write("poke", event_num, effects)
  /\ UNCHANGED <<filter, event_num, cause_tag, kernelVars, channelVars>>

-----------------------------------------------------------------------------
(* The kernel: its thread, its death, the tasks that broadcast: external.     *)

EffectLists == UNION {[1 .. k -> EffectTags] : k \in 0 .. MaxEffects}

KernelRunsPoke(list) ==
  /\ repl = "poking" /\ running
  /\ tasks' = [tasks EXCEPT ![event_num] =
                 [i \in DOMAIN list |-> [of |-> event_num, place |-> i, tag |-> list[i]]]]
  /\ repl' = "draining"
  /\ UNCHANGED <<filter, event_num, cause_tag, running, effects, rows, channelVars>>

\* A poke or a peek that the kernel dies on is answered with an error.
PokeErrs ==
  /\ repl = "poking" /\ ~running
  /\ repl' = "draining"
  /\ UNCHANGED <<filter, event_num, cause_tag, effects, rows, kernelVars, channelVars>>

PeekAnswered ==
  /\ repl = "peeking"
  /\ repl' = "reading"
  /\ Write("peek", event_num, << >>)
  /\ UNCHANGED <<filter, event_num, cause_tag, effects, kernelVars, channelVars>>

Broadcast(n) ==
  /\ tasks[n] # << >>
  /\ tasks' = [tasks EXCEPT ![n] = Tail(@)]
  /\ sent' = Append(sent, Head(tasks[n]))
  /\ IF Len(effect_rx) < ChannelCap
     THEN effect_rx' = Append(effect_rx, Head(tasks[n])) /\ UNCHANGED lagged
     ELSE /\ effect_rx' = Append(Tail(effect_rx), Head(tasks[n]))
          /\ lagged' = lagged \cup {Head(effect_rx)}
  /\ UNCHANGED <<repl, filter, event_num, cause_tag, running, effects, rows>>

KernelDies ==
  /\ running /\ repl # "ended"
  /\ running' = FALSE
  /\ UNCHANGED <<repl, filter, event_num, cause_tag, tasks, effects, rows, channelVars>>

-----------------------------------------------------------------------------
WatchNext ==
  \/ ReadGarbage
  \/ \E tag \in Causes :
       ReadFiltered(tag) \/ ReadPoke(tag) \/ ReadPeek(tag) \/ ReadUndecodable(tag)
  \/ Quit
  \/ NoticeDeath
  \/ DrainOne
  \/ WindowEnds
  \/ \E list \in EffectLists : KernelRunsPoke(list)
  \/ PokeErrs
  \/ PeekAnswered
  \/ \E n \in 1 .. MaxCommands : Broadcast(n)
  \/ KernelDies

\* The runtime polls the REPL when its timer fires, when a dead kernel fails what
\* was asked of it, and when the kernel's task has ended. Nothing is assumed of the
\* user, nor of a kernel that lives.
WatchFairness ==
  /\ WF_watchVars(NoticeDeath)
  /\ WF_watchVars(WindowEnds)
  /\ WF_watchVars(PokeErrs)
  /\ WF_watchVars(PeekAnswered /\ ~running)

WatchSpec == WatchInit /\ [][WatchNext]_watchVars /\ WatchFairness

-----------------------------------------------------------------------------
(* Properties *)

\* Every effect is in the drain of one row, once, in the order of the broadcast,
\* though often a later row than its poke's; or it waits in the channel, or fell
\* out of it. And an effect filter holds back no effect that it asks for
\* (drain_effects and run_poke; the slogs are cleared before a poke, the effects
\* must not be).
EffectsConserved ==
  /\ FlattenSeq([i \in DOMAIN rows |-> rows[i].effects]) \o effects \o effect_rx
       = Only(sent, Range(sent) \ lagged)
  /\ \A i \in DOMAIN rows : \A k \in DOMAIN rows[i].effects :
       /\ rows[i].effects[k].of <= rows[i].num
       /\ filter = [on |-> "effect", tag |-> rows[i].effects[k].tag] => rows[i].shown

\* A kernel that has died before the next line is read gets its row, and the
\* session ends with it; also when it dies on a command in hand (drive:
\* "clean exit OR panic -- both produce a kernel-died row").
DeathIsReported ==
  ~running /\ repl # "ended" ~> repl = "ended" /\ rows # << >> /\ Last(rows).kind = "kernel-died"

=============================================================================
