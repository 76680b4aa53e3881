------------------------------ MODULE EventFeed ------------------------------
(***************************************************************************)
(* cod_events and a client that follows it.  A writer changes a task and   *)
(* appends an event; the cursor is drawn from a sequence when the event is *)
(* inserted and the event is visible when the writer commits.              *)
(***************************************************************************)
EXTENDS Naturals, Sequences

CONSTANTS
    FeedTasks,    \* tasks of one user
    Writers,      \* requests that the server works on
    NoWriter,
    PageLimit,    \* events in one answer: 500
    MaxCursor     \* bound: cursors drawn

ASSUME FeedAssumption == NoWriter \notin Writers

VARIABLES
    rows,       \* the version of each task, 0 before it is created
    rowLock,    \* the writer that has locked the row of a task
    writing,    \* each writer: what it does, to which task, with which version and cursor
    nextCursor, \* the sequence of cod_events
    events,     \* the committed events
    position,   \* the last cursor the follower has read
    followed    \* the events it has read, in order

feedVars == <<rows, rowLock, writing, nextCursor, events, position, followed>>

Resting == [at |-> "idle", task |-> NoWriter, version |-> 0, cursor |-> 0]

FeedInit ==
    /\ rows = [t \in FeedTasks |-> 0]
    /\ rowLock = [t \in FeedTasks |-> NoWriter]
    /\ writing = [w \in Writers |-> Resting]
    /\ nextCursor = 1
    /\ events = {}
    /\ position = 0
    /\ followed = <<>>

\* createTask inserts the row and commits it; the event follows in a statement
\* of its own.
InsertTask(w, t) ==
    /\ writing[w].at = "idle" /\ rows[t] = 0
    /\ rows' = [rows EXCEPT ![t] = 1]
    /\ writing' = [writing EXCEPT ![w] = [at |-> "created", task |-> t, version |-> 1, cursor |-> 0]]
    /\ UNCHANGED <<rowLock, nextCursor, events, position, followed>>

\* Mutation of RowFreeFor: the row is read without FOR UPDATE.
RowReadOnly(t) == TRUE

RowFreeFor(t) == rowLock[t] = NoWriter

\* claimTask, updateTask and expireTaskLeases lock the row, then change it.
LockTask(w, t) ==
    /\ writing[w].at = "idle" /\ rows[t] > 0 /\ RowFreeFor(t)
    /\ rowLock' = [rowLock EXCEPT ![t] = w]
    /\ writing' = [writing EXCEPT ![w] = [at |-> "locked", task |-> t,
                                          version |-> rows[t] + 1, cursor |-> 0]]
    /\ UNCHANGED <<rows, nextCursor, events, position, followed>>

\* The INSERT draws the cursor.
AppendEvent(w) ==
    /\ writing[w].at \in {"created", "locked"}
    /\ nextCursor <= MaxCursor
    /\ writing' = [writing EXCEPT ![w].at = IF @ = "created" THEN "announcing" ELSE "changing",
                                  ![w].cursor = nextCursor]
    /\ nextCursor' = nextCursor + 1
    /\ UNCHANGED <<rows, rowLock, events, position, followed>>

Event(w) == [cursor |-> writing[w].cursor, task |-> writing[w].task, version |-> writing[w].version,
             type |-> IF writing[w].at = "announcing" THEN "task.created" ELSE "task.updated"]

CommitEvent(w) ==
    /\ writing[w].at \in {"announcing", "changing"}
    /\ events' = events \cup {Event(w)}
    /\ LET t == writing[w].task IN
       IF writing[w].at = "changing"
       THEN /\ rows' = [rows EXCEPT ![t] = writing[w].version]
            /\ rowLock' = [rowLock EXCEPT ![t] = NoWriter]
       ELSE UNCHANGED <<rows, rowLock>>
    /\ writing' = [writing EXCEPT ![w] = Resting]
    /\ UNCHANGED <<nextCursor, position, followed>>

\* The request fails or the process ends: an open transaction is rolled back, its
\* cursor is lost, and a task that was inserted is there without an event.
Abandon(w) ==
    /\ writing[w].at # "idle"
    /\ rowLock' = [t \in FeedTasks |-> IF rowLock[t] = w THEN NoWriter ELSE rowLock[t]]
    /\ writing' = [writing EXCEPT ![w] = Resting]
    /\ UNCHANGED <<rows, nextCursor, events, position, followed>>

\* eventsAfter: the committed events after the cursor, in its order; the follower
\* goes on after the last of them.
After(cursor) == {e \in events : e.cursor > cursor}

\* ORDER BY cursor LIMIT: what is not among them comes after a full page.
EventPage(batch, n) ==
    /\ \A i, j \in 1..n : i < j => batch[i].cursor < batch[j].cursor
    /\ \A e \in After(position) :
          (\E i \in 1..n : batch[i] = e) \/ (n = PageLimit /\ batch[n].cursor < e.cursor)

eventsAfter ==
    /\ \E n \in 1..PageLimit : \E batch \in [1..n -> After(position)] :
          /\ EventPage(batch, n)
          /\ followed' = followed \o batch
          /\ position' = batch[n].cursor
    /\ UNCHANGED <<rows, rowLock, writing, nextCursor, events>>

FeedNext ==
    \/ \E w \in Writers, t \in FeedTasks : InsertTask(w, t) \/ LockTask(w, t)
    \/ \E w \in Writers : AppendEvent(w) \/ CommitEvent(w) \/ Abandon(w)
    \/ eventsAfter

FeedSpec == FeedInit /\ [][FeedNext]_feedVars

-----------------------------------------------------------------------------
(* Properties.                                                             *)

\* The updates of a task reach a follower in the order of the task's versions,
\* each version once, although transactions of other tasks commit out of the
\* order of their cursors: an update draws its cursor while it holds the row.
UpdatesInOrder ==
    \A i, j \in 1..Len(followed) :
        /\ i < j
        /\ followed[i].task = followed[j].task
        /\ followed[i].type = "task.updated" /\ followed[j].type = "task.updated"
        => followed[i].version < followed[j].version
=============================================================================
