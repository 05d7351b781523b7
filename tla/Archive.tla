------------------------------- MODULE Archive -------------------------------
(***************************************************************************)
(* What the Proton installer makes of a selected archive                   *)
(* (backend/internal/linuwux/proton/archive.go, structure.go, installer.go):*)
(* which entries it accepts, in the order of the archive, which tree it    *)
(* leaves in the staging directory, and what it requires of a tool.        *)
(*                                                                         *)
(* A path is the sequence of its names below the tool's root; <<>> is the  *)
(* root.  Outside stands for every name and link target that              *)
(* normalizeEntryPath or resolveLinkTarget refuses: absolute, with "..", too *)
(* long, of another root.                                                  *)
(***************************************************************************)
EXTENDS Naturals, Sequences, SequencesExt

Outside == <<"..">>

\* <<"proton">> stands for the four files that a tool must have.
Required == <<"proton">>
Payload == <<"files">>
PackedPayload == <<"proton_dist.tar">>

Kinds == {"directory", "regular", "symlink", "hard-link", "unsupported"}
Links == {"symlink", "hard-link"}
Path == Seq(STRING)
Entry == [name : Path, kind : Kinds, target : Path]

Parent(p) == SubSeq(p, 1, Len(p) - 1)
Below(p, q) == Len(q) < Len(p) /\ SubSeq(p, 1, Len(q)) = q
Ancestors(p) == {SubSeq(p, 1, n) : n \in 0..(Len(p) - 1)}

Names(archive, kind) == {e.name : e \in {archive[i] : i \in {j \in DOMAIN archive : archive[j].kind = kind}}}
TargetOf(archive, p) == archive[CHOOSE i \in DOMAIN archive : archive[i].name = p].target

\* recordPath, for the i-th entry after those before it.
Recorded(archive, i) ==
  LET e == archive[i]
      before == {archive[j] : j \in 1..(i - 1)}
  IN  /\ e.kind # "unsupported" /\ e.name # Outside
      /\ e.name = <<>> => e.kind = "directory"
      /\ \A b \in before : b.name = e.name => b.kind = "directory" /\ e.kind = "directory"
      /\ \A b \in before : Below(e.name, b.name) => b.kind = "directory"
      /\ e.kind # "directory" => \A b \in before : ~Below(b.name, e.name)
      /\ e.kind \in Links => e.target # Outside

\* hardLinkTargetsRegular: from link to link, never twice to the same.
TargetsRegular(archive, link) ==
  LET walk[n \in 0..Len(archive)] ==
        IF n = 0 THEN link
        ELSE IF walk[n - 1] \in Names(archive, "hard-link") THEN TargetOf(archive, walk[n - 1])
        ELSE walk[n - 1]
  IN  walk[Len(archive)] \in Names(archive, "regular")

\* validateStructure
Structure(regular, filesPayload) ==
  Required \in regular /\ (filesPayload \/ PackedPayload \in regular)

\* validateLayout takes a name below files for the directory.
FilesPayload(archive) ==
  \/ Payload \in Names(archive, "directory")
  \/ \E i \in DOMAIN archive : Below(archive[i].name, Payload)

Accepted(archive) ==
  /\ \A i \in DOMAIN archive : Recorded(archive, i)
  /\ \A link \in Names(archive, "hard-link") : TargetsRegular(archive, link)
  /\ Structure(Names(archive, "regular"), FilesPayload(archive))

\* The directories that are there when the links are made: those of the archive,
\* and those above its files, but none that is only above a link.
StagedDirectories(archive) ==
  Names(archive, "directory")
  \cup UNION {Ancestors(p) : p \in Names(archive, "directory") \cup Names(archive, "regular")}

\* One pass over the archive, with these paths there.
LinkPass(archive, there) ==
  LET made[i \in 0..Len(archive)] ==
        IF i = 0 THEN there
        ELSE made[i - 1] \cup IF archive[i].kind = "hard-link" /\ archive[i].target \in made[i - 1]
                                THEN {archive[i].name} ELSE {}
  IN  made[Len(archive)]

\* Mutant: the hard links are made in one pass, in the order of the archive.
HardLinksOnce(archive) == LinkPass(archive, Names(archive, "regular"))

\* createArchiveLinks: pass after pass, in the order of the archive, every hard
\* link is made whose target is there, until no pass makes one.
HardLinks(archive) ==
  LET passes[n \in 0..Len(archive)] ==
        IF n = 0 THEN Names(archive, "regular") ELSE LinkPass(archive, passes[n - 1])
  IN  passes[Len(archive)]

\* Every link needs a directory to be made in; a symbolic link needs no target.
HomedLinks(archive) ==
  \A p \in Names(archive, "hard-link") \cup Names(archive, "symlink") :
    Parent(p) \in StagedDirectories(archive)

LinksMade(archive) ==
  HomedLinks(archive) /\ Names(archive, "hard-link") \subseteq HardLinks(archive)

\* extractArchive
Extracts(archive) == Accepted(archive) /\ LinksMade(archive)

\* InspectInstalled, of the tree that extractArchive leaves; it follows no link.
Installable(archive) ==
  Structure(HardLinks(archive), Payload \in StagedDirectories(archive))

=============================================================================
