-------------------------- MODULE ProjectWorkspace --------------------------
(***************************************************************************)
(* The project that the workspace shows: its files, its Git changes and    *)
(* the file that is open, read over IPC while the user opens another       *)
(* project, refreshes, picks files and runs code; and the list of projects *)
(* that the user has approved, which the desktop keeps over its restarts.  *)
(* Sources: loadProjectForDisplay, commitProjectSnapshot and the handlers  *)
(* of the project pane in apps/web/src/App.tsx, desktop.ts beside it, and  *)
(* the project handlers of apps/desktop/src/main.ts with project-roots.ts. *)
(*                                                                         *)
(* A snapshot is abstracted to the root it was read from.  Two generation  *)
(* counters invalidate loads and reads of files; here what a counter has   *)
(* passed is marked as not current.  Roots are real paths.                 *)
(***************************************************************************)
EXTENDS Naturals, Sequences, SequencesExt

CONSTANTS
    Roots,          \* directories
    MaxApproved,    \* maximumApprovedProjectRoots
    MaxUnderway     \* loads, reads of files, runs and selections under way at a time

VARIABLES
    present,        \* the directories that exist
    approvedRoots,  \* approvedProjectRoots of the main process, oldest first
    rootsFile,      \* approved-project-roots.json
    saves,          \* selections whose list is being saved
    chosen,         \* history: directories that the user has picked in a dialog
    project,        \* the root, and the roots that the files, the changes and the open file are of
    diffStatus,     \* projectDiffStatus
    validated,      \* validatedProjectRef and validatedProjectDiffStatusRef
    recent,         \* localStorage cod.project.root
    loads,          \* loads of loadProjectForDisplay and of handleSend under way
    fileReads       \* files being read

projectVars == <<present, approvedRoots, rootsFile, saves, chosen, project, diffStatus, validated,
                 recent, loads, fileReads>>
mainVars == <<present, approvedRoots, rootsFile, saves, chosen>>

NoRoot == "none"
ASSUME WorkspaceAssumption == NoRoot \notin Roots /\ MaxApproved \in Nat

emptyProject == [root |-> NoRoot, files |-> NoRoot, diff |-> NoRoot, file |-> NoRoot]

ProjectInit ==
    /\ present = Roots /\ approvedRoots = <<>> /\ rootsFile = <<>> /\ saves = {} /\ chosen = {}
    /\ project = emptyProject /\ diffStatus = "idle"
    /\ validated = [project |-> emptyProject, status |-> "idle"]
    /\ recent = NoRoot /\ loads = {} /\ fileReads = {}

-----------------------------------------------------------------------------
(* Approval. *)

\* approvedProjectRoot: what the handlers that read check.
Readable(root) == root \in present /\ root \in ToSet(approvedRoots)

\* The members of a list that are in s, in their order: the one at place n is the nth of them.
Filtered(list, s) ==
    LET places == {i \in DOMAIN list : list[i] \in s}
        upTo(i) == Cardinality({j \in places : j <= i})
    IN [n \in 1..Cardinality(places) |-> list[CHOOSE i \in places : upTo(i) = n]]

\* rememberApprovedProjectRoot: the latest choice goes last, the oldest are dropped.
Remembered(root) ==
    LET all == Append(Filtered(approvedRoots, Roots \ {root}), root) IN
    SubSeq(all, IF Len(all) > MaxApproved THEN Len(all) - MaxApproved + 1 ELSE 1, Len(all))

Room == Cardinality(saves) + Cardinality(loads) + Cardinality(fileReads) < MaxUnderway

\* cod:select-project, up to the write of the list.
Choose(root) ==
    /\ root \in present /\ Room
    /\ chosen' = chosen \cup {root}
    /\ approvedRoots' = Remembered(root)
    /\ saves' = saves \cup {[root |-> root, before |-> approvedRoots, list |-> approvedRoots', awaited |-> TRUE]}
    /\ UNCHANGED <<present, rootsFile, project, diffStatus, validated, recent, loads, fileReads>>

\* What the counters have passed.
Passed(all) == {[one EXCEPT !.current = FALSE] : one \in all}

\* The beginning of loadProjectForDisplay, after the generation was counted up.
Loading(root, keep) ==
    Passed(loads) \cup {[kind |-> "load", root |-> root, current |-> TRUE, keep |-> keep,
                         files |-> "loading", diff |-> "loading"]}

\* The list is saved, and handleOpenProject goes on with the root.
Saved(sv) ==
    /\ rootsFile' = sv.list /\ saves' = saves \ {sv}
    /\ IF sv.awaited
       THEN /\ recent' = sv.root /\ diffStatus' = "loading"
            /\ project' = [emptyProject EXCEPT !.root = sv.root]
            /\ loads' = Loading(sv.root, FALSE) /\ fileReads' = Passed(fileReads)
       ELSE UNCHANGED <<recent, diffStatus, project, loads, fileReads>>
    /\ UNCHANGED <<present, approvedRoots, chosen, validated>>

\* It is not: the list is what it was before.
SaveFails(sv) ==
    /\ approvedRoots' = sv.before /\ saves' = saves \ {sv}
    /\ UNCHANGED <<present, rootsFile, chosen, project, diffStatus, validated, recent, loads, fileReads>>

\* Directories come and go.
MoveDirectory(root) ==
    /\ present' = IF root \in present THEN present \ {root} ELSE present \cup {root}
    /\ UNCHANGED <<approvedRoots, rootsFile, saves, chosen, project, diffStatus, validated, recent, loads, fileReads>>

-----------------------------------------------------------------------------
(* Loads. *)

\* A load is over once both of its answers are in.
Unsettled(ld) == IF ld.files = "loading" \/ ld.diff = "loading" THEN {ld} ELSE {}

Shows(next, status) ==
    /\ project' = next /\ diffStatus' = status
    /\ validated' = [project |-> next, status |-> status]

refreshProject ==
    /\ project.root # NoRoot /\ Room
    /\ diffStatus' = "loading"
    /\ loads' = Loading(project.root, TRUE) /\ fileReads' = Passed(fileReads)
    /\ UNCHANGED <<mainVars, project, validated, recent>>

\* Mutation of Overtaken: the answer of a load that was overtaken is shown.
OvertakenNever(ld) == FALSE

\* generation !== projectLoadGenerationRef.current
Overtaken(ld) == ~ld.current

\* The files; the selection of a refreshed project stays.
Filled(ld) ==
    LET diff == IF ld.diff = "ready" THEN ld.root ELSE NoRoot
        kept == ld.keep /\ project.root = ld.root
    IN [root |-> ld.root, files |-> ld.root,
        diff |-> IF kept /\ ld.diff # "ready" THEN project.diff ELSE diff,
        file |-> IF kept THEN project.file ELSE NoRoot]

\* Without the files the last project that could be shown is shown again.
FallBack ==
    /\ project' = validated.project /\ diffStatus' = validated.status
    /\ recent' = validated.project.root
    /\ UNCHANGED validated

FilesAnswered(ld, ok) ==
    /\ ld.kind = "load" /\ ld.files = "loading"
    /\ ok => Readable(ld.root)
    /\ IF Overtaken(ld)
       THEN /\ loads' = (loads \ {ld}) \cup Unsettled([ld EXCEPT !.files = "dropped"])
            /\ UNCHANGED <<project, diffStatus, validated, recent, fileReads>>
       ELSE IF ok
       THEN /\ loads' = (loads \ {ld}) \cup Unsettled([ld EXCEPT !.files = "loaded"])
            /\ Shows(Filled(ld), ld.diff)
            /\ UNCHANGED <<recent, fileReads>>
       ELSE /\ loads' = Passed((loads \ {ld}) \cup Unsettled([ld EXCEPT !.files = "dropped"]))
            /\ fileReads' = Passed(fileReads)
            /\ FallBack
    /\ UNCHANGED mainVars

\* The changes: a failure of git, or of the approval, is a text that says so.
DiffAnswered(ld, status) ==
    LET next == [project EXCEPT !.diff = IF status = "ready" /\ project.root = ld.root THEN ld.root ELSE @] IN
    /\ ld.kind = "load" /\ ld.diff = "loading"
    /\ status = "ready" => Readable(ld.root)
    /\ loads' = (loads \ {ld}) \cup Unsettled([ld EXCEPT !.diff = status])
    /\ IF ld.files = "loaded" /\ ~Overtaken(ld)
       THEN /\ project' = next /\ diffStatus' = status
            /\ validated' = [project |-> IF next = project THEN validated.project ELSE next, status |-> status]
       ELSE UNCHANGED <<project, diffStatus, validated>>
    /\ UNCHANGED <<mainVars, recent, fileReads>>

\* handleSend notes the project it was sent in, to load it when it has its answer.
RunBegins ==
    /\ project.root # NoRoot /\ Room
    /\ loads' = loads \cup {[kind |-> "run", root |-> project.root, current |-> TRUE, keep |-> FALSE,
                           files |-> "none", diff |-> "none"]}
    /\ UNCHANGED <<mainVars, project, diffStatus, validated, recent, fileReads>>

\* commitProjectSnapshot.
Committed(ld, status) ==
    /\ ld.kind = "run"
    /\ status = "ready" => Readable(ld.root)
    /\ loads' = loads \ {ld}
    /\ IF status # "failed" /\ ~Overtaken(ld) /\ project.root = ld.root
       THEN /\ Shows([root |-> ld.root, files |-> ld.root,
                      diff |-> IF status = "ready" THEN ld.root ELSE NoRoot, file |-> project.file], status)
            /\ fileReads' = Passed(fileReads)
       ELSE UNCHANGED <<project, diffStatus, validated, fileReads>>
    /\ UNCHANGED <<mainVars, recent>>

-----------------------------------------------------------------------------
(* Files. *)

\* A click on a file, or on a directory, is the last one that counts.
handleFileSelect(isFile) ==
    /\ project.files # NoRoot /\ (isFile => Room)
    /\ fileReads' = Passed(fileReads) \cup (IF isFile THEN {[root |-> project.root, current |-> TRUE]} ELSE {})
    /\ UNCHANGED <<mainVars, project, diffStatus, validated, recent, loads>>

FileRead(rd, ok) ==
    /\ ok => Readable(rd.root)
    /\ fileReads' = fileReads \ {rd}
    /\ IF ok /\ ~Overtaken(rd) /\ project.root = rd.root
       THEN /\ project' = [project EXCEPT !.file = rd.root]
            /\ validated' = [validated EXCEPT !.project = project']
       ELSE UNCHANGED <<project, validated>>
    /\ UNCHANGED <<mainVars, diffStatus, recent, loads>>

-----------------------------------------------------------------------------
(* The window and the application. *)

\* The effect of the first render opens the project of the last visit.
Mounts ==
    /\ project' = [emptyProject EXCEPT !.root = recent]
    /\ diffStatus' = IF recent = NoRoot THEN "idle" ELSE "loading"
    /\ validated' = [project |-> emptyProject, status |-> "idle"]
    /\ loads' = IF recent = NoRoot THEN {}
                ELSE {[kind |-> "load", root |-> recent, current |-> TRUE, keep |-> FALSE,
                       files |-> "loading", diff |-> "loading"]}
    /\ fileReads' = {}
    /\ UNCHANGED recent

\* A window closed and opened again; a selection goes on without it.
WindowReopens ==
    /\ Mounts
    /\ Cardinality(saves) < MaxUnderway
    /\ saves' = {[sv EXCEPT !.awaited = FALSE] : sv \in saves}
    /\ UNCHANGED <<present, approvedRoots, rootsFile, chosen>>

\* restoreApprovedProjectRoots: what has gone is not approved again.
AppRestarts(ok) ==
    LET restored == Filtered(rootsFile, present) IN
    /\ approvedRoots' = restored /\ saves' = {}
    /\ rootsFile' = IF ok THEN restored ELSE rootsFile
    /\ Mounts
    /\ UNCHANGED <<present, chosen>>

ProjectNext ==
    \/ \E root \in Roots : Choose(root) \/ MoveDirectory(root)
    \/ \E sv \in saves : Saved(sv) \/ SaveFails(sv)
    \/ \E ld \in loads, ok \in BOOLEAN : FilesAnswered(ld, ok)
    \/ \E ld \in loads, status \in {"ready", "error"} : DiffAnswered(ld, status)
    \/ \E ld \in loads, status \in {"ready", "error", "failed"} : Committed(ld, status)
    \/ \E rd \in fileReads, ok \in BOOLEAN : FileRead(rd, ok)
    \/ \E yes \in BOOLEAN : handleFileSelect(yes) \/ AppRestarts(yes)
    \/ refreshProject \/ RunBegins \/ WindowReopens

ProjectSpec == ProjectInit /\ [][ProjectNext]_projectVars

-----------------------------------------------------------------------------
\* What is shown under the name of a project was read from it, whatever was opened,
\* refreshed or picked meanwhile; and so it is of the project kept for a failure.
ShownIsOfRoot ==
    \A p \in {project, validated.project} :
        /\ {p.files, p.diff, p.file} \subseteq {NoRoot, p.root}
        /\ p.diff # NoRoot \/ p.file # NoRoot => p.files # NoRoot

\* Once the files of the last load are in, or have failed, the pane shows a project
\* that could be read, and the next visit will open the same one.
SettledIsValidated ==
    /\ recent = project.root
    /\ ~(\E ld \in loads : ld.current /\ ld.files = "loading") =>
          /\ project = validated.project /\ diffStatus = validated.status
          /\ project.root # NoRoot => project.files = project.root
    /\ diffStatus = "ready" => project.diff = project.root

\* Only directories that the user picked in a dialog are approved, or will be after a
\* restart, and only such a directory is ever shown; the list stays within its bound.
ApprovedWereChosen ==
    /\ \A list \in {approvedRoots, rootsFile} :
          ToSet(list) \subseteq chosen /\ Len(list) <= MaxApproved /\ IsInjective(list)
    /\ {project.files, validated.project.files} \subseteq chosen \cup {NoRoot}

WorkspaceSafe == ShownIsOfRoot /\ SettledIsValidated /\ ApprovedWereChosen

=============================================================================
