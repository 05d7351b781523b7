---------------------------- MODULE ProtonInstall ----------------------------
(***************************************************************************)
(* The installer of a patched Proton                                       *)
(* (backend/internal/linuwux/proton/installer.go): a worker process        *)
(* extracts the selected archive next to Steam's tools, inspects the       *)
(* result, and renames it to its place, which must be free.                *)
(*                                                                         *)
(* Others install tools too, Steam and its users, at any time.  Install is *)
(* broken at each look at the place and each change; ppc is "idle" when it *)
(* does not run.  A staging directory has a random name and is never used  *)
(* again, so that of those a kill leaves nothing is kept here.             *)
(***************************************************************************)
EXTENDS Archive

CONSTANTS
  Archives,      \* what the user may select
  MaxSelections, \* bound: how often Install is called
  MaxOthers,     \* bound: how often others change the tool's place
  FailingFiles   \* may the file system, or the worker, fail?

VARIABLES
  tool,          \* at the tool's place: nothing, an empty directory, another's, which is no
                 \* patched Proton, or ours
  ppc, archive, staged, installed, \* of Install: its step, the archive, the staged tree, the end
  selections, othersChanges

protonJob == <<ppc, archive, staged, installed, selections>>
protonVars == <<tool, protonJob, othersChanges>>

ASSUME ArchivesAssumption == Archives \subseteq Seq(Entry)
ASSUME ProtonBounds == MaxSelections \in Nat /\ MaxOthers \in Nat /\ FailingFiles \in BOOLEAN

Trees == {"whole", "broken"}
ProtonSteps == {"open", "extract", "look", "inspect", "recheck", "commit", "answer"}

\* The place of the tool and the local variables of Install.
ProtonTypeOK ==
  /\ tool \in {"none", "empty", "others"} \cup Trees
  /\ ppc \in {"idle"} \cup ProtonSteps
  /\ archive \in Archives \cup {<<>>}
  /\ staged \in {"none"} \cup Trees
  /\ installed \in {"none", "failed", "installed"}
  /\ selections \in 0..MaxSelections /\ othersChanges \in 0..MaxOthers

ProtonInit ==
  /\ tool = "none"
  /\ ppc = "idle" /\ archive = <<>> /\ staged = "none" /\ installed = "none"
  /\ selections = 0 /\ othersChanges = 0

-----------------------------------------------------------------------------
(* Install, in the worker.                                                 *)

PGoto(step) == ppc' = step /\ UNCHANGED <<archive, staged, installed>>

\* Whatever was staged is removed.
PEnd(how) == ppc' = "idle" /\ archive' = <<>> /\ staged' = "none" /\ installed' = how

BeginProton ==
  /\ ppc = "idle" /\ selections < MaxSelections
  /\ selections' = selections + 1
  /\ ppc' = "open" /\ archive' \in Archives
  /\ staged' = "none" /\ installed' = "none"
  /\ UNCHANGED <<tool, othersChanges>>

\* ValidateDestination, openArchive, ensureCompatibilityTools, which makes Steam's
\* directory of tools if it is missing, and the staging directory in it.  Each may
\* refuse what the host has there.
OpenArchive ==
  /\ ppc = "open"
  /\ PGoto("extract") \/ PEnd("failed")
  /\ UNCHANGED <<tool, selections, othersChanges>>

Quality(a) == IF Installable(a) THEN "whole" ELSE "broken"

\* Mutant: the archive is extracted where the tool will be.
ExtractInPlace ==
  /\ ppc = "extract"
  /\ \/ Extracts(archive) /\ tool = "none" /\ staged' = Quality(archive) /\ tool' = staged'
        /\ ppc' = "look" /\ UNCHANGED <<archive, installed>>
     \/ FailingFiles /\ tool = "none" /\ tool' = "broken" /\ PEnd("failed")
     \/ UNCHANGED tool /\ PEnd("failed")
  /\ UNCHANGED <<selections, othersChanges>>

\* extractArchive
Extract ==
  /\ ppc = "extract"
  /\ \/ Extracts(archive) /\ staged' = Quality(archive) /\ ppc' = "look"
        /\ UNCHANGED <<archive, installed>>
     \/ (~Extracts(archive) \/ FailingFiles) /\ PEnd("failed")
  /\ UNCHANGED <<tool, selections, othersChanges>>

\* The place must be free, before the inspection and after it.
LookIfFree(step, then) ==
  /\ ppc = step
  /\ \/ tool = "none" /\ PGoto(then)
     \/ (tool # "none" \/ FailingFiles) /\ PEnd("failed")
  /\ UNCHANGED <<tool, selections, othersChanges>>

LookAtPlace == LookIfFree("look", "inspect") \/ LookIfFree("recheck", "commit")

\* InspectInstalledWithLimits
InspectStaged ==
  /\ ppc = "inspect"
  /\ \/ staged = "whole" /\ PGoto("recheck")
     \/ (staged # "whole" \/ FailingFiles) /\ PEnd("failed")
  /\ UNCHANGED <<tool, selections, othersChanges>>

\* Mutant: what is in the place is removed first.
CommitOver ==
  /\ ppc = "commit"
  /\ tool' = staged /\ PGoto("answer")
  /\ UNCHANGED <<selections, othersChanges>>

\* The rename.  What has appeared in the place stops it; an empty directory only
\* if it is there when os.Rename looks for one.
Commit ==
  /\ ppc = "commit"
  /\ \/ tool \in {"none", "empty"} /\ tool' = staged /\ PGoto("answer")
     \/ (tool # "none" \/ FailingFiles) /\ UNCHANGED tool /\ PEnd("failed")
  /\ UNCHANGED <<selections, othersChanges>>

\* The worker removes the staging directory and answers; an answer that does not
\* arrive is a failure of the job.
Answer ==
  /\ ppc = "answer"
  /\ PEnd("installed") \/ (FailingFiles /\ PEnd("failed"))
  /\ UNCHANGED <<tool, selections, othersChanges>>

ProtonStep ==
  \/ OpenArchive \/ Extract \/ LookAtPlace \/ InspectStaged \/ Commit \/ Answer

-----------------------------------------------------------------------------
(* The environment.                                                        *)

\* The backend dies, or the host goes down.  The worker outlives the backend at
\* most to its next report, which breaks its pipe; the rename may be made.
KillProton ==
  /\ PEnd("none")
  /\ \/ ppc = "commit" /\ tool = "none" /\ tool' = staged
     \/ UNCHANGED tool
  /\ UNCHANGED <<selections, othersChanges>>

\* Another makes the directory of a tool of this name, fills it, or removes a tool.
Others ==
  /\ othersChanges < MaxOthers
  /\ othersChanges' = othersChanges + 1
  /\ \/ tool = "none" /\ tool' \in {"empty", "others"}
     \/ tool = "empty" /\ tool' = "others"
     \/ tool # "none" /\ tool' = "none"
  /\ installed' = "none"
  /\ UNCHANGED <<ppc, archive, staged, selections>>

ProtonNext == BeginProton \/ ProtonStep \/ KillProton \/ Others

ProtonSpec == ProtonInit /\ [][ProtonNext]_protonVars

-----------------------------------------------------------------------------
(* Properties.                                                             *)

\* "compatibility tool already exists": no step of Install touches a tool that
\* another has put there, however late; only an empty directory may be replaced.
OthersToolStays ==
  [][tool = "others" /\ tool' # tool => othersChanges' # othersChanges]_protonVars

\* The tool comes into its place whole or not at all, so that Steam, and the
\* inspection, never see a part of one, whatever fails or is killed.
ToolIsWhole == tool # "broken"

\* The two validators agree.  An archive accepted by the entries it lists needs
\* only directories for its links: the search for the file behind a hard link
\* accepts exactly those links that can be made, in whatever order they come.
\* And what is extracted passes the inspection of a staged tool.
AcceptedArchivesInstall ==
  ppc = "extract" /\ Accepted(archive) /\ HomedLinks(archive) =>
    LinksMade(archive) /\ Installable(archive)

=============================================================================
