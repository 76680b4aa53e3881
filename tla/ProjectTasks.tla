----------------------------- MODULE ProjectTasks -----------------------------
(***************************************************************************)
(* One task of the project board: its row, its comments, and the agents    *)
(* and the user that read it and ask for transitions and comments with the *)
(* version they have read, however old, and repeat what was answered.      *)
(***************************************************************************)
EXTENDS Integers

CONSTANTS
    Threads,         \* agent conversations that may claim the task
    NoThread,        \* the thread of a request of the user, and of an unclaimed task
    MaxTaskVersion   \* bound: versions of the task

Callers == Threads \cup {NoThread}

TaskStatuses == {"todo", "in_progress", "in_review", "blocked", "done", "cancelled"}

VARIABLES
    board,     \* the row: status, version and the thread that claimed it; its comments
    notes,     \* the row each caller has read, on which it acts
    reviewed,  \* when it was completed: the status that was read, the comments that were not
    claims     \* the threads whose claim was accepted, in order

boardVars == <<board, notes, reviewed, claims>>

BoardInit ==
    /\ board = [status |-> "todo", version |-> 1, thread |-> NoThread, comments |-> 0]
    /\ notes = [c \in Callers |-> board]
    /\ reviewed = [status |-> "todo", unread |-> 0]
    /\ claims = {}

ReadBoard(c) ==
    /\ notes' = [notes EXCEPT ![c] = board]
    /\ UNCHANGED <<board, reviewed, claims>>

-----------------------------------------------------------------------------

transitions ==
    [todo        |-> {"in_progress", "cancelled"},
     in_progress |-> {"in_review", "blocked", "cancelled"},
     in_review   |-> {"in_progress", "done", "cancelled"},
     blocked     |-> {"in_progress", "cancelled"},
     done        |-> {},
     cancelled   |-> {}]

assertProjectTaskTransition(current, status, thread, userAccepted) ==
    /\ status \in transitions[current]
    /\ status = "in_progress" => thread # NoThread
    /\ status = "done" => userAccepted
    /\ status # "done" => ~userAccepted

SameVersion(ifVersion) == board.version = ifVersion

\* The first thread that claims a task stays its owner.
Owner(status, thread) ==
    IF status = "in_progress" /\ board.thread = NoThread THEN thread ELSE board.thread

\* validateProjectTaskTransitionInput.  A caller acts on what it has read; agents
\* send their thread and never accept, the user sends no thread.
TransitionInputs(c) ==
    [status : TaskStatuses, ifVersion : {notes[c].version}, threadId : {c},
     userAccepted : IF c = NoThread THEN BOOLEAN ELSE {FALSE}]

transitionProjectTask(c, input) ==
    /\ SameVersion(input.ifVersion)
    /\ assertProjectTaskTransition(board.status, input.status, input.threadId, input.userAccepted)
    /\ board.version < MaxTaskVersion
    /\ board' = [board EXCEPT !.status = input.status, !.version = @ + 1,
                              !.thread = Owner(input.status, input.threadId)]
    /\ reviewed' = IF input.status = "done"
                   THEN [status |-> notes[c].status, unread |-> board.comments - notes[c].comments]
                   ELSE reviewed
    /\ claims' = IF input.status = "in_progress" THEN claims \cup {input.threadId} ELSE claims
    /\ UNCHANGED notes

\* Mutation of Commented: a comment leaves the version of its task alone.
CommentedSilently == [board EXCEPT !.comments = @ + 1]

Commented == [board EXCEPT !.comments = @ + 1, !.version = @ + 1]

\* validateProjectTaskCommentInput.
CommentInput(c) == [ifVersion |-> notes[c].version, threadId |-> c]

addProjectTaskComment(input) ==
    /\ SameVersion(input.ifVersion)
    /\ board.version < MaxTaskVersion /\ board.comments < MaxTaskVersion
    /\ board' = Commented
    /\ UNCHANGED <<notes, reviewed, claims>>

BoardNext ==
    \/ \E c \in Callers : ReadBoard(c)
    \/ \E c \in Callers : addProjectTaskComment(CommentInput(c))
    \/ \E c \in Callers : \E input \in TransitionInputs(c) : transitionProjectTask(c, input)

BoardSpec == BoardInit /\ [][BoardNext]_boardVars

-----------------------------------------------------------------------------

\* A task that is done was accepted by a user who had read it in review and with
\* every comment it has: a requirement that was added meanwhile is never accepted
\* unseen, and no agent completes its own work.  The task belongs to a thread that
\* claimed it, from the first claim on.
DoneAsReviewed ==
    /\ board.status = "done" =>
        /\ reviewed.status = "in_review"
        /\ reviewed.unread = 0
        /\ board.thread \in claims
    /\ \A c \in Callers : notes[c].thread # NoThread => board.thread = notes[c].thread
=============================================================================
