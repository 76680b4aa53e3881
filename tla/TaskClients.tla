----------------------------- MODULE TaskClients -----------------------------
(***************************************************************************)
(* The clients of one task, the network between them and the server, and   *)
(* the server's task routes on top of TaskLease.  Sources:                 *)
(* apps/web/src/api.ts (the credentials a client remembers),               *)
(* apps/web/src/App.tsx (runs, the 15 s synchronization, cancelling) and   *)
(* services/control-plane/src/server.ts (the routes).                      *)
(*                                                                         *)
(* A client runs three flows that each await one request at a time: its    *)
(* run, its synchronization and a cancellation.  A request can be lost,    *)
(* its answer can be lost, and a request the client has given up can still *)
(* be executed later.  A client can crash or reload at any time and then   *)
(* remembers nothing.                                                      *)
(***************************************************************************)
EXTENDS TaskLease, FiniteSets

CONSTANTS
    Clients,        \* windows logged in to the account
    Runners,        \* those on the device of the task, which may run it
    CodeClients,    \* runners in code mode: they renew the lease of their run
    MaxFaults,      \* bound on lost requests and answers, crashes and devices
                    \* that are not seen for 45 s
    MaxCancels      \* bound on the cancellations

ASSUME ClientAssumption == CodeClients \subseteq Runners /\ Runners \subseteq Clients

VARIABLES
    client,         \* client -> what it remembers
    call,           \* client -> flow -> the request it awaits
    late,           \* requests given up by their clients, still on their way
    origin,         \* history: execution -> the claim that began it
    used            \* the bounded resources used up so far

clientVars == <<task, fate, deviceSeen, client, call, late, origin, used>>

-----------------------------------------------------------------------------
Flows == {"run", "sync", "cancel"}

NoClaim == [token |-> None, version |-> 0]

NoView == [status |-> "none", version |-> 0]

\* lease and pending are the maps taskExecutionLeases and
\* pendingTaskExecutionClaims, seen is the task in the state of the view.  The
\* rest is the ActiveRun: the task of its closure (at), whether it was cancelled
\* (stopped), and the execution whose lease it has acquired (exec).
Fresh == [lease |-> NoCredential, pending |-> NoClaim, seen |-> NoView, run |-> "idle",
          at |-> NoView, stopped |-> FALSE, exec |-> None, retried |-> FALSE]

Runs == {"idle", "claiming", "working", "completing", "failing"}

\* A request and its answer.  A refusal may say that the lease is gone.
NoAnswer == [ok |-> FALSE, fatal |-> FALSE, row |-> NoView, cred |-> NoCredential]
Refusal(fatal) == [NoAnswer EXCEPT !.fatal = fatal]
View(row) == [status |-> row.status, version |-> row.version]
Answer(row) == [ok |-> TRUE, fatal |-> FALSE, row |-> View(row),
                cred |-> [exec |-> row.exec, token |-> row.token]]

\* Mutation of ReapsFirst: only a claim reaps.
ReapsForClaim(op) == op = "claim"

\* Every route but the heartbeat begins with reapTaskLeases.
ReapsFirst(op) == op # "heartbeat"

\* A request remembers the lapsed row that its handler is bound to reap first.
Request(op, version, cred) ==
    [phase |-> "sent", op |-> op, version |-> version, cred |-> cred,
     reaps |-> IF Expirable /\ ReapsFirst(op) THEN task.version ELSE 0, answer |-> NoAnswer]
NoCall == [phase |-> "none", op |-> "none", version |-> 0, cred |-> NoCredential,
           reaps |-> 0, answer |-> NoAnswer]

ClientsInit ==
    /\ TaskInit
    /\ client = [c \in Clients |-> Fresh]
    /\ call = [c \in Clients |-> [f \in Flows |-> NoCall]]
    /\ late = {}
    /\ origin = [e \in Executions |-> NoClaim]
    /\ used = [faults |-> 0, cancels |-> 0, tokens |-> {}]

Nobody == [client |-> None, flow |-> "none"]

Answered(q, a) == [q EXCEPT !.phase = "answered", !.reaps = 0, !.answer = a]

Awaits(c, f) == call[c][f].phase # "none"
Send(c, f, q) == call' = [call EXCEPT ![c][f] = q]
Remember(c, r) == client' = [client EXCEPT ![c] = r]

serverVars == <<task, fate, deviceSeen, origin>>

-----------------------------------------------------------------------------
(* The server. *)

\* reapTaskLeases is a transaction of its own.  It comes some time after the request was sent: if the lease had
\* lapsed by then, the row is reaped before the rest of the handler; if it
\* lapses later, perhaps.
Reaping(q) ==
    /\ q.phase = "sent" /\ ReapsFirst(q.op)
    /\ Expire
    /\ UNCHANGED origin

Reaped(q) == Expirable => task.version # q.reaps

Began(e, q) == origin' = [origin EXCEPT ![e] = [token |-> q.cred.token, version |-> q.version]]

\* The answer goes to the flow that awaits the request, if one still does.
Reply(q, to, a) ==
    IF to = Nobody
    THEN late' = late \ {q} /\ UNCHANGED call
    ELSE Send(to.client, to.flow, Answered(q, a)) /\ UNCHANGED late

\* claimTask and its answer.
HandleClaim(q, to) ==
    \/ \E e \in Executions :
          /\ Claim(e, q.cred.token, q.version)
          /\ Began(e, q)
          /\ Reply(q, to, Answer(task'))
    \/ /\ SameClaim(q.cred.token)
       /\ Reply(q, to, [Answer(task) EXCEPT !.cred.token = q.cred.token])
       /\ UNCHANGED serverVars
    \/ /\ IF IsActive THEN ~SameClaim(q.cred.token) ELSE ~Current(q.version) \/ ~deviceSeen
       /\ Reply(q, to, Refusal(FALSE))
       /\ UNCHANGED serverVars

\* updateTask with what a client reports: an answer, a failure, a cancellation.
Report(op) ==
    CASE op = "complete" -> [status |-> "complete", result |-> "set", error |-> "clear"]
      [] op = "fail"     -> [status |-> "failed", result |-> "keep", error |-> "set"]
      [] op = "cancel"   -> [status |-> "cancelled", result |-> "clear", error |-> "clear"]

HandleReport(q, to) ==
    LET r == Report(q.op) IN
    \/ /\ Update(r.status, q.version, r.result, r.error, q.cred)
       /\ Reply(q, to, Answer(task'))
       /\ UNCHANGED origin
    \/ /\ ~UpdateAllowed(r.status, q.version, r.result, r.error, q.cred)
       /\ Reply(q, to, Refusal(Current(q.version) /\ IsActive))
       /\ UNCHANGED serverVars

HandleHeartbeat(q, to) ==
    \/ Heartbeat(q.cred) /\ Reply(q, to, Answer(task)) /\ UNCHANGED origin
    \/ /\ ~(Renewable(q.cred.exec) /\ q.cred.token = task.token)
       /\ Reply(q, to, Refusal(TRUE))
       /\ UNCHANGED serverVars

Handle(q, to) ==
    \/ Reaping(q) /\ UNCHANGED <<call, late>>
    \/ /\ q.phase = "sent" /\ Reaped(q)
       /\ \/ q.op = "claim" /\ HandleClaim(q, to)
          \/ q.op \in {"complete", "fail", "cancel"} /\ HandleReport(q, to)
          \/ q.op = "list" /\ Reply(q, to, Answer(task)) /\ UNCHANGED serverVars
    \/ q.phase = "sent" /\ q.op = "heartbeat" /\ HandleHeartbeat(q, to)

\* A request that its client awaits, and one that nobody awaits any more.
Serve(c, f) ==
    /\ Handle(call[c][f], [client |-> c, flow |-> f])
    /\ UNCHANGED <<client, used>>

ServeLate ==
    /\ \E q \in late : Handle(q, Nobody)
    /\ UNCHANGED <<client, used>>

-----------------------------------------------------------------------------
(* A run: handleSend and updateRemoteTask. *)

HasLease(c) == client[c].lease # NoCredential
Ended(r) == [r EXCEPT !.run = "idle", !.stopped = FALSE, !.exec = None,
                      !.at = NoView, !.retried = FALSE]

Forgotten(r) == [r EXCEPT !.lease = NoCredential, !.pending = NoClaim]

\* The pending claim is sent again unless the task has moved on since.
KeepsClaim(r) ==
    /\ r.pending # NoClaim
    /\ r.seen.status \in Active \/ r.pending.version = r.seen.version

SendClaim(c) ==
    LET r == client[c]
        Claiming(claim) ==
            /\ Remember(c, [r EXCEPT !.pending = claim, !.run = "claiming", !.at = r.seen])
            /\ Send(c, "run", Request("claim", claim.version,
                                      [exec |-> None, token |-> claim.token]))
    IN  \/ KeepsClaim(r) /\ Claiming(r.pending) /\ UNCHANGED used
        \/ /\ ~KeepsClaim(r)
           /\ \E t \in Tokens \ used.tokens :
                 /\ Claiming([token |-> t, version |-> r.seen.version])
                 /\ used' = [used EXCEPT !.tokens = @ \cup {t}]

\* The device is seen by the heartbeat before the run.  A code run goes on with
\* the lease it has, a chat goes on with any active task.
StartRun(c) ==
    /\ c \in Runners /\ client[c].run = "idle" /\ client[c].seen # NoView
    /\ deviceSeen' = TRUE
    /\ IF IF c \in CodeClients THEN client[c].seen.status = "running" /\ HasLease(c)
                               ELSE client[c].seen.status \in Active
       THEN /\ Remember(c, [client[c] EXCEPT !.run = "working", !.at = client[c].seen,
                              !.exec = IF c \in CodeClients THEN client[c].lease.exec ELSE None])
            /\ UNCHANGED <<call, used>>
       ELSE ~HasLease(c) /\ SendClaim(c)
    /\ UNCHANGED <<task, fate, late, origin>>

\* The run reports with the version and the lease it knows.
SendReport(c, op, run, r) ==
    /\ Remember(c, [r EXCEPT !.run = run])
    /\ Send(c, "run", Request(op, r.at.version, r.lease))

FinishWork(c) ==
    /\ client[c].run = "working" /\ ~client[c].stopped
    /\ \/ SendReport(c, "complete", "completing", client[c])
       \/ SendReport(c, "fail", "failing", client[c])
    /\ UNCHANGED <<serverVars, late, used>>

AbortWork(c) ==
    /\ client[c].run = "working" /\ client[c].stopped
    /\ Remember(c, Ended(client[c]))
    /\ UNCHANGED <<serverVars, call, late, used>>

\* The catch block: a run that was not cancelled reports that it failed.
RunFailed(c, r) ==
    IF c \in CodeClients /\ ~r.stopped /\ r.run # "failing"
       /\ r.at.status \in {"draft", "running", "waiting"}
    THEN SendReport(c, "fail", "failing", r)
    ELSE Remember(c, Ended(r)) /\ Send(c, "run", NoCall)

RunAnswered(c) ==
    LET r == client[c]
        a == call[c]["run"].answer
        known == [r EXCEPT !.pending = NoClaim, !.seen = a.row]
    IN
    /\ call[c]["run"].phase = "answered"
    /\ \/ /\ a.ok /\ r.run = "claiming"
          /\ Remember(c, IF r.stopped THEN Ended([known EXCEPT !.lease = a.cred])
                         ELSE [known EXCEPT !.lease = a.cred, !.run = "working", !.at = a.row,
                                  !.exec = IF c \in CodeClients THEN a.cred.exec ELSE None])
          /\ Send(c, "run", NoCall)
       \/ /\ a.ok /\ r.run # "claiming"
          /\ Remember(c, Ended([known EXCEPT !.lease = NoCredential]))
          /\ Send(c, "run", NoCall)
       \/ /\ ~a.ok
          /\ RunFailed(c, IF r.run = "claiming" THEN [r EXCEPT !.pending = NoClaim]
                          ELSE IF a.fatal THEN [r EXCEPT !.lease = NoCredential] ELSE r)
    /\ UNCHANGED <<serverVars, late, used>>

\* A claim whose answer is lost is sent once more, with the same credential.
RunUnanswered(c) ==
    LET r == client[c] IN
    IF r.run = "claiming" /\ ~r.retried
    THEN /\ Remember(c, [r EXCEPT !.retried = TRUE])
         /\ Send(c, "run", Request("claim", call[c]["run"].version, call[c]["run"].cred))
    ELSE RunFailed(c, r)

-----------------------------------------------------------------------------
(* The synchronization: a heartbeat, then the list of tasks. *)

\* Mutation of Stopped: a run whose lease is gone goes on.
StoppedNot(r) == r

\* A run whose lease is gone stops, unless it is reporting its end.
Stopped(r) == [r EXCEPT !.stopped = r.stopped \/ r.run = "working"]

SendList(c) == Send(c, "sync", Request("list", 0, NoCredential))

BeginSync(c) ==
    /\ ~Awaits(c, "sync")
    /\ \/ /\ client[c].exec # None /\ HasLease(c)
          /\ Send(c, "sync", Request("heartbeat", 0, client[c].lease))
          /\ UNCHANGED <<client, deviceSeen>>
       \/ /\ client[c].exec # None /\ ~HasLease(c)
          /\ Remember(c, Stopped(client[c])) /\ SendList(c)
          /\ UNCHANGED deviceSeen
       \/ /\ client[c].exec = None
          /\ deviceSeen' = (deviceSeen \/ c \in Runners)
          /\ SendList(c)
          /\ UNCHANGED client
    /\ UNCHANGED <<task, fate, late, origin, used>>

\* A refused heartbeat drops whatever lease the client holds by now.
HeartbeatAnswered(c) ==
    LET q == call[c]["sync"]
        r == Forgotten(client[c]) IN
    /\ q.phase = "answered" /\ q.op = "heartbeat"
    /\ IF q.answer.ok THEN UNCHANGED client
       ELSE Remember(c, IF r.exec = q.cred.exec THEN Stopped(r) ELSE r)
    /\ SendList(c)
    /\ UNCHANGED <<serverVars, late, used>>

\* The state of the view, and its effect that ends a run whose task has ended.
Shown(r, row) ==
    [r EXCEPT !.seen = row,
              !.stopped = @ \/ (r.run # "idle" /\ row.status \in {"cancelled", "failed"})]

\* listTasks drops the leases and claims that the list shows to be over.
ListAnswered(c) ==
    LET q == call[c]["sync"]
        r == client[c]
        row == q.answer.row
        active == row.status \in Active
    IN
    /\ q.phase = "answered" /\ q.op = "list"
    /\ Remember(c, Shown([r EXCEPT
            !.lease = IF active THEN r.lease ELSE NoCredential,
            !.pending = IF active \/ r.pending.version = row.version THEN r.pending
                        ELSE NoClaim], row))
    /\ Send(c, "sync", NoCall)
    /\ UNCHANGED <<serverVars, late, used>>

-----------------------------------------------------------------------------
(* Cancelling, losing and crashing. *)

CancelTask(c) ==
    /\ ~Awaits(c, "cancel") /\ client[c].seen.status \in Active
    /\ used.cancels < MaxCancels
    /\ used' = [used EXCEPT !.cancels = @ + 1]
    /\ Remember(c, [client[c] EXCEPT !.stopped = client[c].run # "idle"])
    /\ Send(c, "cancel", Request("cancel", client[c].seen.version, NoCredential))
    /\ UNCHANGED <<serverVars, late>>

CancelAnswered(c) ==
    LET a == call[c]["cancel"].answer IN
    /\ call[c]["cancel"].phase = "answered"
    /\ Remember(c, IF a.ok THEN Shown(Forgotten(client[c]), a.row) ELSE client[c])
    /\ Send(c, "cancel", NoCall)
    /\ UNCHANGED <<serverVars, late, used>>

Fault == used.faults < MaxFaults /\ used' = [used EXCEPT !.faults = @ + 1]

\* The request or its answer is lost, or the client gives the request up and it
\* is executed later.
Lose(c, f) ==
    /\ Awaits(c, f) /\ Fault
    /\ \/ UNCHANGED late
       \/ call[c][f].phase # "answered" /\ late' = late \cup {call[c][f]}
    /\ \/ f = "run" /\ RunUnanswered(c)
       \/ /\ f = "sync" /\ UNCHANGED client
          /\ IF call[c][f].op = "heartbeat" THEN SendList(c) ELSE Send(c, f, NoCall)
       \/ f = "cancel" /\ UNCHANGED client /\ Send(c, f, NoCall)
    /\ UNCHANGED serverVars

\* A crash, a reload or a logout: nothing is remembered, and what was sent may
\* still arrive.
Crash(c) ==
    /\ Fault
    /\ Remember(c, Fresh)
    /\ late' \in {late, late \cup {call[c][f] : f \in {g \in Flows :
                                      call[c][g].phase = "sent"}}}
    /\ call' = [call EXCEPT ![c] = [f \in Flows |-> NoCall]]
    /\ UNCHANGED serverVars

\* renewTaskExecution, by the model requests of a run.
KeepAlive(c) ==
    /\ client[c].run = "working" /\ client[c].exec # None
    /\ RenewTaskExecution(client[c].exec)
    /\ UNCHANGED <<client, call, late, origin, used>>

Time ==
    /\ (Lapse /\ UNCHANGED used) \/ (DeviceLost /\ Fault)
    /\ UNCHANGED <<client, call, late, origin>>

ClientStep(c) ==
    \/ \E f \in Flows : Serve(c, f)
    \/ RunAnswered(c) \/ HeartbeatAnswered(c) \/ ListAnswered(c) \/ CancelAnswered(c)
    \/ AbortWork(c) \/ BeginSync(c)

ClientNext(c) ==
    \/ ClientStep(c) \/ StartRun(c) \/ FinishWork(c) \/ CancelTask(c)
    \/ Crash(c) \/ KeepAlive(c)
    \/ \E f \in Flows : Lose(c, f)

ClientsNext ==
    \/ \E c \in Clients : ClientNext(c)
    \/ ServeLate
    \/ Time

ClientsSpec == ClientsInit /\ [][ClientsNext]_clientVars

\* Nobody works under the lease, so nobody renews it.
Unattended == \A c \in Clients : client[c].run # "idle" => client[c].exec # task.exec

\* The server serves, answers are read, a cancelled run notices, and a window
\* synchronizes every 15 s; time passes for a lease that nobody renews.  Users
\* and agents may stop at any point.
Fairness ==
    /\ \A c \in Clients :
          /\ \A f \in Flows : WF_clientVars(Serve(c, f))
          /\ WF_clientVars(RunAnswered(c))
          /\ WF_clientVars(HeartbeatAnswered(c) \/ ListAnswered(c))
          /\ WF_clientVars(CancelAnswered(c))
          /\ WF_clientVars(AbortWork(c))
          /\ WF_clientVars(BeginSync(c))
    /\ WF_clientVars(Unattended /\ Lapse /\ UNCHANGED <<client, call, late, origin, used>>)

FairClientsSpec == ClientsSpec /\ Fairness

-----------------------------------------------------------------------------
(* Properties. *)

ClientsTypeOK ==
    /\ \A c \in Clients :
          /\ client[c].run \in Runs
          /\ client[c].run \in {"claiming", "completing", "failing"} <=> Awaits(c, "run")
          /\ client[c].lease \in Credential \cup {NoCredential}
          /\ client[c].lease # NoCredential => client[c].seen.status \in Active
          /\ client[c].exec # None => c \in CodeClients

\* Two clients never believe that the same execution is theirs, however claims
\* are repeated, lost or answered late.
DistinctHolders ==
    \A c, d \in Clients :
        c # d /\ HasLease(c) => client[c].lease.exec # client[d].lease.exec

\* A claim begins at most one execution, however often it arrives.
ClaimBeginsOnce ==
    \A d, e \in Executions :
        d # e /\ origin[d] # NoClaim => origin[d].token # origin[e].token

\* A cancellation only ends an execution that whoever asked for it could see: a
\* late or stale one does not reach the next run.
CancelHitsWhatWasSeen ==
    [][\A e \in Executions :
          (fate[e] = "running" /\ fate'[e] = "cancelled") =>
             \E q \in late \cup {call[c]["cancel"] : c \in Clients} :
                 q.op = "cancel" /\ q.version > origin[e].version]_clientVars

\* An answer that the server accepted came from the run that began the execution:
\* the client reporting it, or a request it gave up, carries its claim's token.
ResultIsOwn ==
    [][\A e \in Executions :
          (fate[e] = "running" /\ fate'[e] \in {"complete", "failed"}) =>
             \E q \in late \cup {call[c]["run"] : c \in Clients} :
                 q.cred = [exec |-> e, token |-> origin[e].token]]_clientVars

\* An agent does not go on working for an execution that has ended, whoever or
\* whatever ended it.
StaleRunStops ==
    \A c \in Clients : \A e \in Executions :
        (client[c].run = "working" /\ client[c].exec = e /\ fate[e] # "running")
            ~> client[c].run # "working"

\* No execution stays open for ever with nobody working on it: not when the
\* answer of its claim was lost, its client crashed or forgot its lease.
OpenExecutionEnds ==
    \A e \in Executions :
        fate[e] = "running"
            ~> (fate[e] # "running" \/ \E c \in Clients : client[c].exec = e)

=============================================================================
