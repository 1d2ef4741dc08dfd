----------------------------- MODULE Checkpoint -----------------------------
(***************************************************************************)
(* vesl-checkpoint: snapshot writes state.jam and then meta.toml into a    *)
(* directory, resume boots a kernel from them.  A developer rebuilds the   *)
(* kernel in between, and the process may die at any point.                *)
(*                                                                         *)
(* A build stands for a kernel source, its SHA-256 and the jam compiled    *)
(* from it.  uses, pure and resumed are ghosts: the snapshots begun in each*)
(* directory, whether the source was still that of the kernel when it was  *)
(* hashed, and what the last resume booted.                                *)
(***************************************************************************)
EXTENDS Integers

CONSTANTS Builds, Dirs,
          Nothing,   \* an absent file
          Torn,      \* a file whose write was cut short
          NoApp,     \* no kernel is running, or none was resumed
          MaxData,   \* bound of the model: pokes that change the state
          MaxUses    \* bound of the model: snapshots begun

ASSUME CheckpointAssumption ==
  /\ {Nothing, Torn, NoApp} \cap Builds = {} /\ Nothing # Torn
  /\ NoApp \notin [build : Builds, data : 0..MaxData]
  /\ MaxData \in Nat /\ MaxUses \in Nat

VARIABLES source,     \* the build that app.hoon and out.jam hold now
          app,        \* the running kernel: its build and its data
          stateJam, metaToml, \* the files of each directory
          saving,     \* the snapshot under way: where it is and what it took
          uses, pure, resumed

checkpointVars == <<source, app, stateJam, metaToml, saving, uses, pure, resumed>>

Kernels == [build : Builds, data : 0..MaxData]
Idle == [at |-> "idle"]

CheckpointInit ==
  /\ source \in Builds /\ app = NoApp
  /\ stateJam = [d \in Dirs |-> Nothing] /\ metaToml = [d \in Dirs |-> Nothing]
  /\ saving = Idle
  /\ uses = [d \in Dirs |-> 0] /\ pure = [d \in Dirs |-> TRUE] /\ resumed = NoApp

filesStay == UNCHANGED <<stateJam, metaToml, uses, pure>>

\* The developer's tools: out.jam is compiled again when app.hoon changes.
Rebuild(build) ==
  /\ build # source
  /\ source' = build
  /\ filesStay /\ UNCHANGED <<app, saving, resumed>>

BootFresh ==
  /\ app = NoApp
  /\ app' = [build |-> source, data |-> 0]
  /\ filesStay /\ UNCHANGED <<source, saving, resumed>>

Poke ==
  /\ app # NoApp /\ saving.at = "idle"
  /\ app.data < MaxData
  /\ app' = [app EXCEPT !.data = @ + 1]
  /\ filesStay /\ UNCHANGED <<source, saving, resumed>>

\* snapshot, up to the hash of the source as it is on disk now.
SnapshotBegins(d) ==
  /\ app # NoApp /\ saving.at = "idle"
  /\ uses[d] < MaxUses
  /\ saving' = [at |-> "exporting", dir |-> d, hash |-> source]
  /\ uses' = [uses EXCEPT ![d] = @ + 1]
  /\ pure' = [pure EXCEPT ![d] = @ /\ source = app.build]
  /\ UNCHANGED <<source, app, stateJam, metaToml, resumed>>

\* write of state.jam: the file is cut to nothing and then filled.
WriteStateBegins ==
  /\ saving.at = "exporting"
  /\ stateJam' = [stateJam EXCEPT ![saving.dir] = Torn]
  /\ saving' = [saving EXCEPT !.at = "writing-state"]
  /\ UNCHANGED <<source, app, metaToml, uses, pure, resumed>>

WriteStateEnds ==
  /\ saving.at = "writing-state"
  /\ stateJam' = [stateJam EXCEPT ![saving.dir] = app]
  /\ saving' = [saving EXCEPT !.at = "state-written"]
  /\ UNCHANGED <<source, app, metaToml, uses, pure, resumed>>

\* Wrong variant of WriteMetaBegins: meta.toml does not wait for state.jam.
WriteMetaBeginsEarly ==
  /\ saving.at \in {"exporting", "state-written"}
  /\ metaToml' = [metaToml EXCEPT ![saving.dir] = IF saving.at = "exporting" THEN saving.hash ELSE Torn]
  /\ saving' = [saving EXCEPT !.at = IF @ = "exporting" THEN "exporting" ELSE "writing-meta"]
  /\ UNCHANGED <<source, app, stateJam, uses, pure, resumed>>

WriteMetaBegins ==
  /\ saving.at = "state-written"
  /\ metaToml' = [metaToml EXCEPT ![saving.dir] = Torn]
  /\ saving' = [saving EXCEPT !.at = "writing-meta"]
  /\ UNCHANGED <<source, app, stateJam, uses, pure, resumed>>

WriteMetaEnds ==
  /\ saving.at = "writing-meta"
  /\ metaToml' = [metaToml EXCEPT ![saving.dir] = saving.hash]
  /\ saving' = Idle
  /\ UNCHANGED <<source, app, stateJam, uses, pure, resumed>>

\* An error of any step leaves the files as they are.
SnapshotFails ==
  /\ saving.at # "idle"
  /\ saving' = Idle
  /\ filesStay /\ UNCHANGED <<source, app, resumed>>

Crash ==
  /\ app # NoApp
  /\ app' = NoApp /\ saving' = Idle
  /\ filesStay /\ UNCHANGED <<source, resumed>>

\* Snapshot::load reads meta.toml alone.
Loads(d) == metaToml[d] \in Builds

\* What is kept of the saved data is up to ++load of the new kernel; the overlay that
\* graft-inject writes there takes the defaults.
Resume(d, strict) ==
  /\ app = NoApp /\ Loads(d)
  /\ strict => source = metaToml[d]
  /\ stateJam[d] \in Kernels
  /\ \E data \in {stateJam[d].data, 0} : app' = [build |-> source, data |-> data]
  /\ resumed' = [strict |-> strict, pure |-> pure[d],
                  from |-> stateJam[d].build, into |-> source]
  /\ filesStay /\ UNCHANGED <<source, saving>>

CheckpointNext ==
  \/ \E build \in Builds : Rebuild(build)
  \/ BootFresh \/ Poke \/ Crash
  \/ WriteStateBegins \/ WriteStateEnds \/ WriteMetaBegins \/ WriteMetaEnds \/ SnapshotFails
  \/ \E d \in Dirs : SnapshotBegins(d) \/ \E strict \in BOOLEAN : Resume(d, strict)

CheckpointSpec == CheckpointInit /\ [][CheckpointNext]_checkpointVars

-----------------------------------------------------------------------------
(* Properties *)

CheckpointTypeOK ==
  /\ source \in Builds /\ app \in Kernels \cup {NoApp}
  /\ stateJam \in [Dirs -> Kernels \cup {Nothing, Torn}]
  /\ metaToml \in [Dirs -> Builds \cup {Nothing, Torn}]
  /\ saving.at \in {"idle", "exporting", "writing-state", "state-written", "writing-meta"}

\* meta.toml commits a snapshot: in a directory that serves one snapshot only, a
\* crash or failure at any point leaves either nothing that loads or the whole state
\* it was taken of, and the hash is that of the state's kernel if the source had not
\* been changed since that kernel was built.
SnapshotTells ==
  \A d \in Dirs : uses[d] <= 1 /\ Loads(d) =>
    stateJam[d] \in Kernels /\ (pure[d] => stateJam[d].build = metaToml[d])

\* What resume promises of strict mode: a kernel that was rebuilt since the snapshot,
\* which would lose the saved data, is refused.  Asked only of directories where every
\* snapshot was given the source of its own kernel.
StrictMeansSameBuild ==
  resumed # NoApp => (resumed.strict /\ resumed.pure => resumed.from = resumed.into)

=============================================================================
