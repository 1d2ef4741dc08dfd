---------------------------- MODULE RenameKernel ----------------------------
(* nockup graft rename-kernel --apply: the kernel's file, the name in           *)
(* nockapp.toml and the commands shown in README.md are changed one after the   *)
(* other, and the tool may stop between any two.                                *)
EXTENDS Integers

CONSTANTS
  KernelNames,  \* the well-formed base names of kernel files
  AppKernel,    \* "app": the name when nockapp.toml has none
  Unnamed,      \* nockapp.toml has no kernel_name
  NoKernel,     \* there is no file of this name
  MaxRenames    \* bound: runs

ASSUME RenameAssumption ==
  /\ AppKernel \in KernelNames
  /\ {Unnamed, NoKernel} \cap KernelNames = {}
  /\ MaxRenames \in Nat

VARIABLES
  files,        \* hoon/app: what each file holds, told by its first name
  kernelName,   \* [project].kernel_name
  readme,       \* the kernels that the bash blocks of README.md speak of
  rename,       \* the run at work: step, from and new
  renames,      \* bound
  cutShort,     \* ghost: some run stopped after its first write
  kernels       \* ghost: the kernels there were at first

renameVars == <<files, kernelName, readme, rename, renames, cutShort, kernels>>

NoRename == [step |-> "none", from |-> AppKernel, new |-> AppKernel]

RenameTypeOK ==
  /\ files \in [KernelNames -> KernelNames \cup {NoKernel}]
  /\ kernelName \in KernelNames \cup {Unnamed}
  /\ readme \subseteq KernelNames
  /\ rename \in [step : {"none", "file", "toml", "readme"}, from : KernelNames, new : KernelNames]

\* A project in order: its kernel is named in nockapp.toml, or called app; it may
\* have others; a README speaks of some of them or is absent.
RenameInit ==
  /\ kernels \in (SUBSET KernelNames) \ {{}}
  /\ files = [n \in KernelNames |-> IF n \in kernels THEN n ELSE NoKernel]
  /\ kernelName \in kernels \cup (IF AppKernel \in kernels THEN {Unnamed} ELSE {})
  /\ readme \in SUBSET kernels
  /\ rename = NoRename /\ renames = 0 /\ cutShort = FALSE

Exists(n) == files[n] # NoKernel

ConfiguredKernel == IF kernelName = Unnamed THEN AppKernel ELSE kernelName

\* from is --from, or the configured name. What is refused changes nothing, and a
\* run without --apply stops here.
RenameStarts(from, new) ==
  /\ rename.step = "none" /\ renames < MaxRenames
  /\ Exists(from) /\ ~Exists(new)
  /\ rename' = [step |-> "file", from |-> from, new |-> new]
  /\ renames' = renames + 1
  /\ UNCHANGED <<files, kernelName, readme, cutShort, kernels>>

RenameFile ==
  /\ rename.step = "file"
  /\ files' = [files EXCEPT ![rename.new] = files[rename.from], ![rename.from] = NoKernel]
  /\ rename' = [rename EXCEPT !.step = "toml"]
  /\ UNCHANGED <<kernelName, readme, renames, cutShort, kernels>>

rewrite_nockapp_toml ==
  /\ rename.step = "toml"
  /\ kernelName' = rename.new
  /\ rename' = [rename EXCEPT !.step = "readme"]
  /\ UNCHANGED <<files, readme, renames, cutShort, kernels>>

\* Wrong variant: what is replaced is the name that nockapp.toml has by now.
rewrite_readme_configured ==
  /\ rename.step = "readme"
  /\ readme' = IF ConfiguredKernel \in readme
               THEN (readme \ {ConfiguredKernel}) \cup {rename.new} ELSE readme
  /\ rename' = NoRename
  /\ UNCHANGED <<files, kernelName, renames, cutShort, kernels>>

rewrite_readme_codeblocks ==
  /\ rename.step = "readme"
  /\ readme' = IF rename.from \in readme
               THEN (readme \ {rename.from}) \cup {rename.new} ELSE readme
  /\ rename' = NoRename
  /\ UNCHANGED <<files, kernelName, renames, cutShort, kernels>>

\* A step fails, or the tool is killed. atomic_write leaves the old file whole.
RenameStops ==
  /\ rename.step # "none"
  /\ rename' = NoRename
  /\ cutShort' = (cutShort \/ rename.step # "file")
  /\ UNCHANGED <<files, kernelName, readme, renames, kernels>>

RenameNext ==
  \/ \E new \in KernelNames :
       \/ RenameStarts(ConfiguredKernel, new)
       \/ \E from \in KernelNames : RenameStarts(from, new)
  \/ RenameFile
  \/ rewrite_nockapp_toml
  \/ rewrite_readme_codeblocks
  \/ RenameStops

RenameSpec == RenameInit /\ [][RenameNext]_renameVars

-----------------------------------------------------------------------------
(* Properties *)

\* No kernel is ever lost or doubled, wherever a run stops; and between runs none
\* of which was cut short, nockapp.toml and the README name kernels that exist
\* (run_rename_kernel: the guards against clobbering, the order of the three
\* writes, and --from of a kernel that is not the configured one).
NamesHaveKernels ==
  /\ \A k \in kernels : \E n \in KernelNames : \A m \in KernelNames : files[m] = k <=> m = n
  /\ rename.step = "none" /\ ~cutShort =>
       Exists(ConfiguredKernel) /\ \A n \in readme : Exists(n)

=============================================================================
