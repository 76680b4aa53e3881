---------------------------- MODULE ProjectFiles ----------------------------
(***************************************************************************)
(* What the desktop shows of the files of a project: its tree and its      *)
(* changes.  They are collected apart and share no variable.               *)
(***************************************************************************)
EXTENDS GitDiff, WorkspaceTree

FilesSpec == DiffSpec /\ TreeSpec

\* Both are complete, or say what they leave out, and keep within their limits.
FilesSafe == DiffComplete /\ TreeComplete

=============================================================================
