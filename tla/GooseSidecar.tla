----------------------------- MODULE GooseSidecar -----------------------------
(***************************************************************************)
(* The local agent of COD Desktop: launches that the renderer asks for,    *)
(* stops when the renderer navigates, and the record on disk by which a    *)
(* later start finds an agent that the process left behind.                *)
(* A launch runs alone: it waits for the launches and stops before it.     *)
(* Each step below is the code between two awaits.                         *)
(***************************************************************************)
EXTENDS Naturals, FiniteSets

CONSTANTS
    Launches,     \* calls of ensureGooseSidecar
    Stops,        \* calls of invalidateAndStopGooseSidecar
    Keys,         \* configurations: task, execution, model, token, project
    Pids,         \* process ids; they are reused
    Nothing,
    MaxStarts     \* bound: starts of COD Desktop

ASSUME SidecarAssumption ==
    /\ Launches \cap Stops = {}
    /\ Nothing \notin Launches \cup Pids

Calls == Launches \cup Stops

VARIABLES
    app,          \* number of the start of COD Desktop, and "down", "cleaning" or "up"
    generation,   \* GooseLaunchCoordinator.generation
    tail,         \* the calls that the next launch waits for
    progress,     \* each call: its step, generation, what it waits for, and what it holds
    gooseSidecar, \* the process id of the agent, or Nothing
    gooseAcpProxy,\* the launch whose proxy is in use, or Nothing
    published,    \* the configuration and generation of the URL the renderer was given, or Nothing
    process,      \* what runs under each process id
    openProxies,  \* the launches whose proxy listens
    record,       \* goose-sidecar-owner.json
    sweeps,       \* calls of clearGooseOwnershipRecord that nobody awaits
    abandoned,    \* the agent that the last start left behind and recorded, if any
    killedOther   \* a process that is not an agent was signalled

sidecarVars == <<app, generation, tail, progress, gooseSidecar, gooseAcpProxy, published, process,
                 openProxies, record, sweeps, abandoned, killedOther>>

NoRecord == [start |-> 0, pid |-> Nothing]
NotPublished == [key |-> Nothing, generation |-> 0]
Unused == [at |-> "unused", generation |-> 0, waits |-> {}, key |-> Nothing, pid |-> Nothing, proxy |-> Nothing]

SidecarInit ==
    /\ app = [start |-> 1, state |-> "up"]
    /\ generation = 0 /\ tail = {}
    /\ progress = [c \in Calls |-> Unused]
    /\ gooseSidecar = Nothing /\ gooseAcpProxy = Nothing /\ published = NotPublished
    /\ process = [p \in Pids |-> "free"]
    /\ openProxies = {} /\ record = NoRecord /\ sweeps = {}
    /\ abandoned = {} /\ killedOther = FALSE

Up == app.state = "up"
CallEnded(c) == progress[c].at \in {"done", "failed"}
At(c, step) == Up /\ progress[c].at = step
Goto(c, step) == progress' = [progress EXCEPT ![c].at = step]

\* Mutation of Uninterrupted: assertCurrent is not called after the first await.
UninterruptedOnce(l) == progress[l].at # "queued" \/ progress[l].generation = generation

Uninterrupted(l) == progress[l].generation = generation

-----------------------------------------------------------------------------
(* GooseLaunchCoordinator.                                                 *)

Before == tail

run(l, key) ==
    /\ Up /\ progress[l].at = "unused"
    /\ progress' = [progress EXCEPT ![l] = [Unused EXCEPT !.at = "queued", !.generation = generation,
                                                  !.waits = Before, !.key = key]]
    /\ tail' = {l}
    /\ UNCHANGED <<app, generation, gooseSidecar, gooseAcpProxy, published, process, openProxies,
                   record, sweeps, abandoned, killedOther>>

\* stopGooseSidecar takes over the process and the proxy and forgets them.
TakeOver == /\ gooseSidecar' = Nothing /\ gooseAcpProxy' = Nothing /\ published' = NotPublished

\* The stop begins at once, beside whatever launch is under way.
invalidate(s) ==
    /\ Up /\ progress[s].at = "unused"
    /\ generation' = generation + 1
    /\ tail' = tail \cup {s}
    /\ progress' = [progress EXCEPT ![s] = [Unused EXCEPT !.at = "closing", !.pid = gooseSidecar,
                                                  !.proxy = gooseAcpProxy]]
    /\ TakeOver
    /\ UNCHANGED <<app, process, openProxies, record, sweeps, abandoned, killedOther>>

-----------------------------------------------------------------------------
(* Processes.                                                              *)

\* clearSpawnedSidecar, when the agent exits: the record is cleared once it is
\* written, and the agent is forgotten if it is still the one in use.
Exited(p) ==
    /\ process' = [process EXCEPT ![p] = "free"]
    /\ sweeps' = sweeps \cup {[pid |-> p, read |-> FALSE]}
    /\ IF gooseSidecar = p
       THEN TakeOver /\ openProxies' = openProxies \ {gooseAcpProxy}
       ELSE UNCHANGED <<gooseSidecar, gooseAcpProxy, published, openProxies>>

AgentExits(p) ==
    /\ Up /\ process[p] = "agent"
    /\ Exited(p)
    /\ UNCHANGED <<app, generation, tail, progress, record, abandoned, killedOther>>

\* terminateChildProcess: a handle, not a process id, so it signals nobody else.
Terminate(p) ==
    IF p # Nothing /\ process[p] = "agent" THEN Exited(p)
    ELSE UNCHANGED <<process, sweeps, gooseSidecar, gooseAcpProxy, published, openProxies>>

\* A program that has nothing to do with COD gets a free process id, and ends.
OtherProgram(p) ==
    /\ process' = [process EXCEPT ![p] = IF @ = "free" THEN "other" ELSE "free"]
    /\ process[p] \in {"free", "other"}
    /\ UNCHANGED <<app, generation, tail, progress, gooseSidecar, gooseAcpProxy, published, openProxies,
                   record, sweeps, abandoned, killedOther>>

\* clearGooseOwnershipRecord reads the record and, unless it names another agent,
\* removes the file; in between the file may be written again.
Names(pid) == record = NoRecord \/ record.pid = pid

Sweep(w) ==
    /\ Up /\ w \in sweeps
    /\ ~\E l \in Launches : progress[l].at = "saving" /\ progress[l].pid = w.pid
    /\ IF w.read
       THEN /\ record' = NoRecord
            /\ sweeps' = sweeps \ {w}
       ELSE /\ sweeps' = (sweeps \ {w}) \cup (IF Names(w.pid) THEN {[w EXCEPT !.read = TRUE]} ELSE {})
            /\ UNCHANGED record
    /\ UNCHANGED <<app, generation, tail, progress, gooseSidecar, gooseAcpProxy, published, process,
                   openProxies, abandoned, killedOther>>

-----------------------------------------------------------------------------
(* Stopping, as a call of its own or as a part of a launch.                *)

CloseProxy(c) ==
    /\ At(c, "closing")
    /\ openProxies' = openProxies \ {progress[c].proxy}
    /\ Goto(c, "terminating")
    /\ UNCHANGED <<app, generation, tail, gooseSidecar, gooseAcpProxy, published, process, record,
                   sweeps, abandoned, killedOther>>

TerminateTaken(c) ==
    /\ At(c, "terminating")
    /\ Terminate(progress[c].pid)
    /\ Goto(c, "clearing")
    /\ UNCHANGED <<app, generation, tail, record, abandoned, killedOther>>

ClearRecord(c) ==
    /\ At(c, "clearing") \/ At(c, "removing")
    /\ LET mine == progress[c].pid # Nothing /\ Names(progress[c].pid) IN
       IF progress[c].at = "clearing" /\ mine
       THEN Goto(c, "removing") /\ UNCHANGED record
       ELSE /\ record' = IF progress[c].at = "removing" THEN NoRecord ELSE record
            /\ Goto(c, IF c \in Stops THEN "done" ELSE IF Uninterrupted(c) THEN "minting" ELSE "failed")
    /\ UNCHANGED <<app, generation, tail, gooseSidecar, gooseAcpProxy, published, process,
                   openProxies, sweeps, abandoned, killedOther>>

-----------------------------------------------------------------------------
(* ensureGooseSidecarSerialized.                                           *)

Enter(l) ==
    /\ At(l, "queued") /\ \A c \in progress[l].waits : CallEnded(c)
    /\ Goto(l, IF Uninterrupted(l) THEN "approving" ELSE "failed")
    /\ UNCHANGED <<app, generation, tail, gooseSidecar, gooseAcpProxy, published, process,
                   openProxies, record, sweeps, abandoned, killedOther>>

Reusable(l) == gooseAcpProxy # Nothing /\ published.key = progress[l].key

\* The project root is approved; the agent in use is kept if it has the same
\* configuration and its token is fresh, and is stopped otherwise.
Compare(l) ==
    /\ At(l, "approving")
    /\ \E fresh \in BOOLEAN :
        IF ~Uninterrupted(l)
        THEN Goto(l, "failed") /\ UNCHANGED <<gooseSidecar, gooseAcpProxy, published>>
        ELSE IF Reusable(l) /\ fresh
        THEN Goto(l, "done") /\ UNCHANGED <<gooseSidecar, gooseAcpProxy, published>>
        ELSE IF gooseSidecar # Nothing \/ gooseAcpProxy # Nothing
        THEN /\ progress' = [progress EXCEPT ![l].at = "closing", ![l].pid = gooseSidecar,
                                     ![l].proxy = gooseAcpProxy]
             /\ TakeOver
        ELSE Goto(l, "minting") /\ UNCHANGED <<gooseSidecar, gooseAcpProxy, published>>
    /\ UNCHANGED <<app, generation, tail, process, openProxies, record, sweeps, abandoned, killedOther>>

\* The binary is found, a session of the task is minted, storage and a port are
\* prepared; each may fail, and after each the launch may find itself interrupted.
MintFails(l) ==
    /\ At(l, "minting")
    /\ Goto(l, "failed")
    /\ UNCHANGED <<app, generation, tail, gooseSidecar, gooseAcpProxy, published, process,
                   openProxies, record, sweeps, abandoned, killedOther>>

Spawn(l, p) ==
    /\ At(l, "minting") /\ Uninterrupted(l) /\ process[p] = "free"
    /\ process' = [process EXCEPT ![p] = "agent"]
    /\ gooseSidecar' = p
    /\ progress' = [progress EXCEPT ![l].at = "saving", ![l].pid = p]
    /\ UNCHANGED <<app, generation, tail, gooseAcpProxy, published, openProxies, record, sweeps,
                   abandoned, killedOther>>

SaveRecord(l) ==
    /\ At(l, "saving")
    /\ record' = [start |-> app.start, pid |-> progress[l].pid]
    /\ Goto(l, "waiting")
    /\ UNCHANGED <<app, generation, tail, gooseSidecar, gooseAcpProxy, published, process,
                   openProxies, sweeps, abandoned, killedOther>>

Mine(l) == gooseSidecar = progress[l].pid /\ process[progress[l].pid] = "agent"

\* waitForGoose and startAcpProxy; when the launch was interrupted or its agent is
\* gone, the proxy is closed and the agent terminated.
StartProxy(l) ==
    /\ At(l, "waiting") /\ Uninterrupted(l) /\ Mine(l)
    /\ openProxies' = openProxies \cup {l}
    /\ Goto(l, "proxying")
    /\ UNCHANGED <<app, generation, tail, gooseSidecar, gooseAcpProxy, published, process, record,
                   sweeps, abandoned, killedOther>>

Withdraw(l) ==
    /\ At(l, "saving") \/ At(l, "waiting") \/ At(l, "proxying")
    /\ progress' = [progress EXCEPT ![l].at = "dropping"]
    /\ openProxies' = openProxies \ {l}
    /\ UNCHANGED <<app, generation, tail, gooseSidecar, gooseAcpProxy, published, process, record,
                   sweeps, abandoned, killedOther>>

Drop(l) ==
    /\ At(l, "dropping")
    /\ Terminate(progress[l].pid)
    /\ Goto(l, "failed")
    /\ UNCHANGED <<app, generation, tail, record, abandoned, killedOther>>

Publish(l) ==
    /\ At(l, "proxying") /\ Uninterrupted(l)
    /\ IF Mine(l)
       THEN /\ gooseAcpProxy' = l
            /\ published' = [key |-> progress[l].key, generation |-> generation]
            /\ Goto(l, "done")
            /\ UNCHANGED openProxies
       ELSE /\ openProxies' = openProxies \ {l}
            /\ Goto(l, "failed")
            /\ UNCHANGED <<gooseAcpProxy, published>>
    /\ UNCHANGED <<app, generation, tail, gooseSidecar, process, record, sweeps, abandoned, killedOther>>

-----------------------------------------------------------------------------
(* The end of COD Desktop, and its next start.                             *)

\* When the process exits, its exit handler kills the agent in use; when it is
\* killed itself, nothing does.
AppEnds ==
    /\ Up
    /\ \E graceful \in BOOLEAN : process' =
        [p \in Pids |-> CASE graceful /\ p = gooseSidecar -> "free"
                          [] process[p] = "agent" /\ ~(graceful /\ p = gooseSidecar) -> "orphan"
                          [] OTHER -> process[p]]
    /\ abandoned' = {p \in Pids : process'[p] = "orphan" /\ record.pid = p}
    /\ app' = [app EXCEPT !.state = "down"]
    /\ progress' = [c \in Calls |-> Unused] /\ tail' = {} /\ generation' = 0
    /\ gooseSidecar' = Nothing /\ gooseAcpProxy' = Nothing /\ published' = NotPublished
    /\ openProxies' = {} /\ sweeps' = {}
    /\ UNCHANGED <<record, killedOther>>

\* An agent that was left behind may end by itself; then another program may get
\* its process id.
OrphanExits(p) ==
    /\ process[p] = "orphan"
    /\ process' = [process EXCEPT ![p] = "free"]
    /\ abandoned' = abandoned \ {p}
    /\ UNCHANGED <<app, generation, tail, progress, gooseSidecar, gooseAcpProxy, published,
                   openProxies, record, sweeps, killedOther>>

AppStarts ==
    /\ app.state = "down" /\ app.start < MaxStarts
    /\ app' = [start |-> app.start + 1, state |-> "cleaning"]
    /\ UNCHANGED <<generation, tail, progress, gooseSidecar, gooseAcpProxy, published, process,
                   openProxies, record, sweeps, abandoned, killedOther>>

matchesOwnership(p) == process[p] = "orphan"

\* cleanupAbandonedGooseSidecar, before the first window opens.  The process id of
\* the owner may have been given to another program: then nothing is touched.
cleanupAbandonedGooseSidecar(ownerExists) ==
    /\ app.state = "cleaning"
    /\ app' = [app EXCEPT !.state = "up"]
    /\ LET p == record.pid IN
       IF record = NoRecord \/ ownerExists
       THEN /\ abandoned' = {}
            /\ UNCHANGED <<process, record, killedOther>>
       ELSE /\ IF process[p] # "free" /\ matchesOwnership(p)
               THEN /\ process' = [process EXCEPT ![p] = "free"]
                    /\ killedOther' = (killedOther \/ process[p] = "other")
                    /\ abandoned' = abandoned \ {p}
               ELSE UNCHANGED <<process, killedOther, abandoned>>
            /\ record' = NoRecord
    /\ UNCHANGED <<generation, tail, progress, gooseSidecar, gooseAcpProxy, published, openProxies, sweeps>>

SidecarNext ==
    \/ \E l \in Launches, k \in Keys : run(l, k)
    \/ \E s \in Stops : invalidate(s)
    \/ \E c \in Calls : CloseProxy(c) \/ TerminateTaken(c) \/ ClearRecord(c)
    \/ \E l \in Launches : \/ Enter(l) \/ Compare(l) \/ MintFails(l) \/ SaveRecord(l)
                           \/ StartProxy(l) \/ Withdraw(l) \/ Drop(l) \/ Publish(l)
    \/ \E l \in Launches, p \in Pids : Spawn(l, p)
    \/ \E p \in Pids : AgentExits(p) \/ OrphanExits(p) \/ OtherProgram(p)
    \/ \E w \in sweeps : Sweep(w)
    \/ AppEnds \/ AppStarts
    \/ \E ownerExists \in BOOLEAN : cleanupAbandonedGooseSidecar(ownerExists)

SidecarSpec == SidecarInit /\ [][SidecarNext]_sidecarVars

-----------------------------------------------------------------------------
(* Properties.                                                             *)

\* No two agents run at once, however launches, stops and exits overlap.
OneAgent == Cardinality({p \in Pids : process[p] = "agent"}) <= 1

\* The URL that the renderer was given belongs to a launch that no navigation has
\* interrupted, with an agent and a proxy that are there; and a proxy listens only
\* while it is in use, being started or being closed.
UrlIsCurrent ==
    /\ published # NotPublished =>
        /\ published.generation = generation
        /\ gooseSidecar # Nothing /\ process[gooseSidecar] = "agent"
        /\ gooseAcpProxy \in openProxies
    /\ \A l \in openProxies :
        \/ gooseAcpProxy = l \/ progress[l].at = "proxying"
        \/ \E c \in Calls : progress[c].at = "closing" /\ progress[c].proxy = l

\* Whatever way COD Desktop ends, its next start stops the agent that the record
\* names, and no program that got a process id of COD is ever signalled.
AbandonedIsStopped == (Up => abandoned = {}) /\ ~killedOther

SidecarSafe == OneAgent /\ UrlIsCurrent /\ AbandonedIsStopped
=============================================================================
