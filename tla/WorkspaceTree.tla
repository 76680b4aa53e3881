---------------------------- MODULE WorkspaceTree ---------------------------
(***************************************************************************)
(* The files of a project as the desktop lists them: depth first, within   *)
(* limits of all entries, of one directory and of the depth, while the     *)
(* directories may go away.  Source: apps/desktop/src/workspace-files.ts.  *)
(***************************************************************************)
EXTENDS Integers, Sequences

CONSTANTS
    Trees,              \* directory -> its visible entries as they are sorted: [name, dir]
    Top,                \* the selected directory
    NodeLimit, DirectoryLimit, DepthLimit

\* A name stands for a path, so that no two entries have the same; that of a directory
\* leads to its entries.
IsTree(t) ==
    /\ t \in [DOMAIN t -> Seq([name : STRING, dir : BOOLEAN])] /\ Top \in DOMAIN t
    /\ \A d \in DOMAIN t : \A i \in DOMAIN t[d] :
          /\ t[d][i].name # Top /\ (t[d][i].dir <=> t[d][i].name \in DOMAIN t)
          /\ \A c \in DOMAIN t : \A j \in DOMAIN t[c] :
                t[c][j].name = t[d][i].name => c = d /\ j = i

ASSUME TreeAssumption ==
    /\ {NodeLimit, DirectoryLimit, DepthLimit} \subseteq Nat /\ NodeLimit >= 2 /\ DirectoryLimit >= 1
    /\ \A t \in Trees : IsTree(t)

VARIABLES
    tree,       \* the directories
    stack,      \* collectDirectory: the directories that are being read, innermost last
    listing,    \* the entries listed
    nodes       \* remaining and truncated; whether reading a directory failed

treeVars == <<tree, stack, listing, nodes>>

TreeInit ==
    /\ tree \in Trees
    /\ stack = <<[dir |-> Top, next |-> 1, depth |-> 0]>>
    /\ listing = <<>>
    /\ nodes = [remaining |-> NodeLimit - 1, truncated |-> FALSE, failed |-> FALSE]

-----------------------------------------------------------------------------
Level == stack[Len(stack)]
Entries(dir) == tree[dir]
Reading == stack # <<>> /\ ~nodes.failed
AtEnd == Level.next > Len(Entries(Level.dir)) \/ Level.next > DirectoryLimit

\* A directory that has more entries than are listed of one.
Overfull == Len(Entries(Level.dir)) > DirectoryLimit

\* A directory is entered unless it is too deep; with nothing left it is not read.
Entered(dir, depth) ==
    IF depth > DepthLimit \/ nodes.remaining <= 1 THEN <<>>
    ELSE <<[dir |-> dir, next |-> 1, depth |-> depth]>>

Unread(e, depth) == e.dir /\ depth <= DepthLimit /\ nodes.remaining <= 1

ListEntry ==
    /\ Reading /\ ~AtEnd /\ nodes.remaining > 0
    /\ LET e == Entries(Level.dir)[Level.next]
           at == [stack EXCEPT ![Len(stack)].next = @ + 1]
       IN  /\ listing' = Append(listing, [name |-> e.name, depth |-> Level.depth])
           /\ stack' = at \o (IF e.dir THEN Entered(e.name, Level.depth + 1) ELSE <<>>)
           /\ nodes' = [nodes EXCEPT !.remaining = @ - 1,
                           !.truncated = @ \/ Overfull \/ Unread(e, Level.depth + 1)]
    /\ UNCHANGED tree

\* The end of a directory, or of what may be listed.
LeaveDirectory ==
    /\ Reading /\ (AtEnd \/ nodes.remaining <= 0)
    /\ stack' = SubSeq(stack, 1, Len(stack) - 1)
    /\ nodes' = [nodes EXCEPT !.truncated = @ \/ Overfull \/ ~AtEnd]
    /\ UNCHANGED <<tree, listing>>

\* readdir of a directory that went away after its entry was listed: no tree is shown.
ReadFails ==
    /\ Reading /\ Level.next = 1 /\ Level.dir # Top
    /\ nodes' = [nodes EXCEPT !.failed = TRUE]
    /\ UNCHANGED <<tree, stack, listing>>

TreeNext == ListEntry \/ LeaveDirectory \/ ReadFails

TreeSpec == TreeInit /\ [][TreeNext]_treeVars

-----------------------------------------------------------------------------
InListing(name, depth) == \E i \in DOMAIN listing : listing[i] = [name |-> name, depth |-> depth]
AllInListing(dir, depth) == \A i \in DOMAIN Entries(dir) : InListing(Entries(dir)[i].name, depth)

(* The list of files never exceeds its limit, names nothing twice, and when  *)
(* it does not say that it is cut, holds all of the top directory and all of *)
(* every directory that is listed above the depth limit.                     *)
TreeComplete ==
    /\ Len(listing) + (IF nodes.truncated THEN 1 ELSE 0) <= NodeLimit
    /\ \A i, j \in DOMAIN listing : listing[i].name = listing[j].name => i = j
    /\ stack = <<>> /\ ~nodes.truncated =>
          /\ AllInListing(Top, 0)
          /\ \A d \in DOMAIN tree, depth \in 0..(DepthLimit - 1) :
                InListing(d, depth) => AllInListing(d, depth + 1)

=============================================================================
