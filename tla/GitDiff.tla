------------------------------ MODULE GitDiff -------------------------------
(***************************************************************************)
(* The changes that the desktop shows of a project: what Git says of its   *)
(* tracked files and a preview of the untracked ones, within limits, while *)
(* others write to the directory.  Sources: apps/desktop/src/git-diff.ts   *)
(* and git-command.ts.                                                     *)
(*                                                                         *)
(* Sizes are small numbers; a line that stands for a file that is not      *)
(* shown has size 1, and so has a line break between two entries.          *)
(***************************************************************************)
EXTENDS Integers, Sequences, Functions

CONSTANTS
    Untracked,          \* what git ls-files may list: sequences of paths
    DiffSizes,          \* what Git may print of one file
    DiffOutputLimit, SummaryReserve, FileLimit, TotalLimit, PreviewLimit, PathLimit

\* A path, as it was when the preview came to it, and whether it may go away then.
PathTypes == [kind : {"file", "link"}, size : Nat, mayGo : BOOLEAN]

ASSUME DiffAssumption ==
    /\ Untracked \subseteq Seq(PathTypes) /\ DiffSizes \subseteq Nat
    /\ {DiffOutputLimit, SummaryReserve, FileLimit, TotalLimit, PreviewLimit, PathLimit} \subseteq Nat
    /\ DiffOutputLimit > SummaryReserve /\ SummaryReserve > 1

VARIABLES
    git,        \* collectGitDiff: the commands that run, and what is to be shown
    todo,       \* collectUntrackedDiff: the untracked paths
    entries,    \* sizes of the entries made of them
    budget      \* bytes of output, paths included, bytes and files previewed

diffVars == <<git, todo, entries, budget>>

DiffInit ==
    /\ git = [running |-> {"rev-parse"}, shown |-> "none"]
    /\ todo \in Untracked
    /\ entries = <<>>
    /\ budget = [output |-> 0, included |-> 0, bytes |-> 0, files |-> 0]

-----------------------------------------------------------------------------
(* The changes. *)

Showing(what) == git' = [running |-> {}, shown |-> what]

\* Whether this is a work tree at all: a failure says no, a timeout says so.
RevParse ==
    /\ "rev-parse" \in git.running
    /\ \/ git' = [git EXCEPT !.running = {"unstaged", "staged", "ls-files"}]
       \/ Showing("no repository") \/ Showing("timeout")
    /\ UNCHANGED <<todo, entries, budget>>

\* Promise.all: the first command that fails decides; the preview goes on unseen.
CommandEnds(command) ==
    /\ command \in git.running \cap {"unstaged", "staged", "ls-files"}
    /\ \/ git' = [git EXCEPT !.running = (@ \ {command}) \cup
                                IF command = "ls-files" THEN {"preview"} ELSE {}]
       \/ Showing("timeout") \/ Showing("failed")
    /\ UNCHANGED <<todo, entries, budget>>

-----------------------------------------------------------------------------
(* The untracked files. *)

EntryLimit == DiffOutputLimit - SummaryReserve

\* Mutation of Added: the line break is not counted.
AddedBare(size) == size

\* An entry and the line break before it.
Added(size) == size + (IF entries = <<>> THEN 0 ELSE 1)

\* appendPathDiff: whether the entry still fits.
Fits(size) == budget.output + Added(size) <= EntryLimit

AppendPathDiff(size, preview) ==
    IF Fits(size)
    THEN /\ entries' = Append(entries, size)
         /\ budget' = [budget EXCEPT !.output = @ + Added(size), !.included = @ + 1,
                                     !.bytes = @ + preview.bytes, !.files = @ + preview.files]
    ELSE /\ entries' = entries
         /\ budget' = [budget EXCEPT !.bytes = @ + preview.bytes, !.files = @ + preview.files]

NoPreview == [bytes |-> 0, files |-> 0]

\* The paths that are looked at: not beyond the limit.
Seen == budget.included
NextPath == todo[Seen + 1]
Looking == "preview" \in git.running /\ Seen < Len(todo) /\ Seen < PathLimit

\* After an entry that does not fit, the rest is left out.
Onward(size, stop) ==
    git' = IF Fits(size) /\ ~stop THEN git
           ELSE [git EXCEPT !.running = (@ \ {"preview"}) \cup {"summary"}]

\* What only a line stands for: no regular file, one that has gone, a large one, and
\* what is beyond the limits of all previews.
Previewable(p) ==
    /\ p.kind = "file" /\ p.size <= FileLimit
    /\ budget.bytes + p.size <= TotalLimit
    /\ budget.files < PreviewLimit

Placeholder ==
    /\ Looking /\ (~Previewable(NextPath) \/ NextPath.mayGo)
    /\ AppendPathDiff(1, NoPreview)
    /\ Onward(1, FALSE)
    /\ UNCHANGED todo

\* git diff --no-index: what it prints of the file as it now is, or a line for an empty
\* file, a failure, or a timeout, which ends the preview.
Preview ==
    /\ Looking /\ Previewable(NextPath)
    /\ \E size \in DiffSizes, timeout \in BOOLEAN :
          /\ timeout => size = 1
          /\ AppendPathDiff(size, [bytes |-> NextPath.size, files |-> 1])
          /\ Onward(size, timeout)
    /\ UNCHANGED todo

\* The paths left out are counted in a last line.
Omitted == Len(todo) - budget.included

Summary ==
    /\ \/ "summary" \in git.running
       \/ "preview" \in git.running /\ ~Looking
    /\ entries' = IF Omitted > 0 THEN Append(entries, SummaryReserve - 1) ELSE entries
    /\ git' = [git EXCEPT !.running = @ \ {"preview", "summary"}]
    /\ UNCHANGED <<todo, budget>>

Shown ==
    /\ git.running = {} /\ git.shown = "none"
    /\ Showing("changes")
    /\ UNCHANGED <<todo, entries, budget>>

DiffNext ==
    \/ RevParse \/ \E c \in {"unstaged", "staged", "ls-files"} : CommandEnds(c)
    \/ Placeholder \/ Preview \/ Summary \/ Shown

DiffSpec == DiffInit /\ [][DiffNext]_diffVars

-----------------------------------------------------------------------------
\* Joined with line breaks.
Printed ==
    SumFunctionOnSet(entries, DOMAIN entries) + (IF entries = <<>> THEN 0 ELSE Len(entries) - 1)

(* The preview keeps within all its limits, the line that counts what it     *)
(* leaves out included, and is complete: every untracked path has an entry   *)
(* or is counted, however files change while it is made; and it is shown     *)
(* only when every command has answered.                                     *)
DiffComplete ==
    /\ Printed <= DiffOutputLimit
    /\ budget.files <= PreviewLimit /\ budget.bytes <= TotalLimit
    /\ budget.included <= PathLimit
    /\ git.shown = "changes" =>
          Len(entries) = budget.included + (IF Omitted > 0 THEN 1 ELSE 0)

=============================================================================
