------------------------------ MODULE TaskLease ------------------------------
(***************************************************************************)
(* One row of cod_tasks and the device it belongs to: the execution lease  *)
(* of a task and every transaction over it.  Source:                       *)
(* services/control-plane/src/database.ts, PostgresDatabase.               *)
(*                                                                         *)
(* Every action is one committed transaction on the row (each locks it     *)
(* FOR UPDATE); a transaction that throws is rolled back and is a          *)
(* stuttering step.  The callers are left free: anyone may call anything   *)
(* with any version and any credential.  TaskClients restricts them to     *)
(* what the client and the server's routes do.                             *)
(*                                                                         *)
(* A claim id and a lease token are drawn together, stored as hashes and   *)
(* compared together: one token stands for the pair.  lease_expires_at is  *)
(* abstracted to whether it lies in the future ("live") or in the past, so *)
(* that renewing a live lease changes nothing.                             *)
(***************************************************************************)
EXTENDS Integers

CONSTANTS
    Executions,     \* execution ids, drawn by randomUUID
    Tokens,         \* (claimId, leaseToken) pairs, drawn by the clients
    None,           \* NULL
    Unverified,     \* the author of a result that no lease vouches for
    MaxVersion      \* bound on the version of the row

ASSUME TaskAssumption ==
    /\ None \notin Executions \cup Tokens
    /\ Unverified \notin Executions \cup {None}
    /\ MaxVersion \in Nat

VARIABLES
    task,           \* the row
    fate,           \* history, from cod_audit and cod_events: how executions ended
    deviceSeen      \* the task's device is online, last seen within 45 s

taskVars == <<task, fate, deviceSeen>>

-----------------------------------------------------------------------------
Active == {"running", "waiting"}
Terminal == {"complete", "failed", "cancelled"}
Status == {"draft"} \cup Active \cup Terminal

taskTransitions ==
    [draft     |-> {"running", "failed", "cancelled"},
     running   |-> {"waiting", "complete", "failed", "cancelled"},
     waiting   |-> {"running", "complete", "failed", "cancelled"},
     complete  |-> {"running"},
     failed    |-> {"running"},
     cancelled |-> {"running"}]

\* validateTaskTransition: staying is always allowed.
MayMove(from, to) == from = to \/ to \in taskTransitions[from]

\* A row; its result is the execution that reported it, error that there is one.
Row == [status : Status, version : Nat, exec : Executions \cup {None},
        token : Tokens \cup {None}, lease : {"none", "live", "past"},
        result : Executions \cup {None, Unverified}, error : BOOLEAN]

Credential == [exec : Executions, token : Tokens]
NoCredential == [exec |-> None, token |-> None]

\* Types, and the CHECK constraint: a row has a lease exactly while it is active.
TaskTypeOK ==
    /\ task \in Row
    /\ IF task.status \in Active
       THEN task.exec # None /\ task.token # None /\ task.lease # "none"
       ELSE task.exec = None /\ task.token = None /\ task.lease = "none"
    /\ fate \in [Executions -> {"unused", "running", "interrupted"} \cup Terminal]
    /\ deviceSeen \in BOOLEAN

\* createTask, for a device that is online.
TaskInit ==
    /\ task = [status |-> "draft", version |-> 1, exec |-> None, token |-> None,
               lease |-> "none", result |-> None, error |-> FALSE]
    /\ fate = [e \in Executions |-> "unused"]
    /\ deviceSeen = TRUE

IsActive == task.status \in Active
LeaseLive == task.lease = "live"

WithoutLease(row) == [row EXCEPT !.exec = None, !.token = None, !.lease = "none"]

\* Every commit counts the version up; a task that ends gives up its lease.
Commit(row) ==
    /\ task.version < MaxVersion
    /\ task' = [(IF row.status \in Terminal THEN WithoutLease(row) ELSE row)
                   EXCEPT !.version = task.version + 1]

\* The execution of the row, if it has one, ends as verdict.
EndAs(verdict) ==
    fate' = IF IsActive THEN [fate EXCEPT ![task.exec] = verdict] ELSE fate

-----------------------------------------------------------------------------
(* expireTaskLeases: the reaping that most handlers begin with. *)

Expirable == IsActive /\ ~LeaseLive

Expire ==
    /\ Expirable
    /\ Commit([task EXCEPT !.status = "failed", !.result = None, !.error = TRUE])
    /\ EndAs("interrupted")
    /\ UNCHANGED deviceSeen

-----------------------------------------------------------------------------
(* claimTask: a new execution, or the same one again for a repeated claim. *)

\* Mutation of Current: a version that has passed is accepted.
CurrentAny(version) == TRUE

\* ifVersion of the requests.
Current(version) == task.version = version

Free == ~IsActive

\* Mutation of Cleared: the columns of the last run are kept.
ClearedNot(row) == row

Cleared(row) == [row EXCEPT !.result = None, !.error = FALSE]

Claim(e, t, version) ==
    /\ Free
    /\ Current(version)
    /\ MayMove(task.status, "running")
    /\ deviceSeen
    /\ fate[e] = "unused"
    /\ Commit([Cleared(task) EXCEPT !.status = "running", !.exec = e, !.token = t,
                                    !.lease = "live"])
    /\ fate' = [fate EXCEPT ![e] = "running"]
    /\ UNCHANGED deviceSeen

\* Mutation of SameClaim: the token of the claim is not compared.
SameClaimAny(t) == IsActive /\ LeaseLive

SameClaim(t) == IsActive /\ task.token = t /\ task.exec # None /\ LeaseLive

-----------------------------------------------------------------------------
(* updateTask.  An outcome's result and error are "keep" when undefined,   *)
(* "clear" when null and "set" when given.                                 *)

Outcome == {"keep", "clear", "set"}

\* Mutation of Vouched: a live lease is enough, whoever reports.
VouchedByAnyone(cred) == LeaseLive

\* Mutation of Vouched: the expiry of the lease is not looked at.
VouchedExpired(cred) == cred.exec = task.exec /\ cred.token = task.token

Vouched(cred) == cred.exec = task.exec /\ cred.token = task.token /\ LeaseLive

Author == IF IsActive THEN task.exec ELSE Unverified

Resumes(status) == status = "running" /\ task.status # "running"

NextResult(status, result) ==
    IF Resumes(status) \/ status \in {"failed", "cancelled"} \/ result = "clear" THEN None
    ELSE IF result = "set" THEN Author ELSE task.result

NextError(status, error) ==
    /\ ~Resumes(status) /\ status \notin {"complete", "cancelled"}
    /\ error = "set" \/ (error = "keep" /\ task.error)

UpdateAllowed(status, version, result, error, cred) ==
    /\ Current(version)
    /\ status = "running" => IsActive
    /\ MayMove(task.status, status)
    /\ IsActive /\ status # "cancelled" => Vouched(cred)
    /\ status = "complete" => NextResult(status, result) # None
    /\ status = "failed" => NextError(status, error)

Update(status, version, result, error, cred) ==
    /\ UpdateAllowed(status, version, result, error, cred)
    /\ status # task.status \/ result # "keep" \/ error # "keep"
    /\ Commit([task EXCEPT !.status = status, !.result = NextResult(status, result),
                           !.error = NextError(status, error)])
    /\ IF status \in Terminal THEN EndAs(status) ELSE UNCHANGED fate
    /\ UNCHANGED deviceSeen

-----------------------------------------------------------------------------
(* Leases and devices are renewed, and age. *)

Renewable(e) == IsActive /\ task.exec = e /\ LeaseLive

\* renewTaskExecution, by the keepalive of a model request.
RenewTaskExecution(e) ==
    /\ Renewable(e)
    /\ task' = [task EXCEPT !.lease = "live"]
    /\ UNCHANGED <<fate, deviceSeen>>

\* heartbeat, with the lease of a run or without one.  When the lease cannot be
\* renewed the whole transaction fails and the device is not seen either.
Heartbeat(cred) ==
    /\ \/ /\ cred = NoCredential
          /\ UNCHANGED task
       \/ /\ Renewable(cred.exec) /\ cred.token = task.token
          /\ task' = [task EXCEPT !.lease = "live"]
    /\ deviceSeen' = TRUE
    /\ UNCHANGED fate

Lapse ==
    /\ LeaseLive
    /\ task' = [task EXCEPT !.lease = "past"]
    /\ UNCHANGED <<fate, deviceSeen>>

DeviceLost ==
    /\ deviceSeen
    /\ deviceSeen' = FALSE
    /\ UNCHANGED <<task, fate>>

TaskNext ==
    \/ Expire
    \/ \E e \in Executions, t \in Tokens : Claim(e, t, task.version)
    \/ \E status \in Status, result \in Outcome, error \in Outcome,
          cred \in Credential \cup {NoCredential} :
          Update(status, task.version, result, error, cred)
    \/ \E e \in Executions : RenewTaskExecution(e)
    \/ \E cred \in Credential \cup {NoCredential} : Heartbeat(cred)
    \/ Lapse
    \/ DeviceLost

TaskSpec == TaskInit /\ [][TaskNext]_taskVars

-----------------------------------------------------------------------------
(* Properties. *)

\* The row has the lease of the one execution that has begun and not ended.
OneOpenExecution == \A e \in Executions : fate[e] = "running" <=> task.exec = e

\* A task never shows the answer of an earlier run as that of the present one:
\* while a run is active the result is its own, and the result of a completed
\* task comes from an execution that completed under its lease, unless a user
\* wrote it later without one.
ResultIsCurrent ==
    /\ IsActive => task.result \in {None, task.exec}
    /\ task.status = "complete" =>
          task.result = Unverified \/ \E e \in Executions :
                                         task.result = e /\ fate[e] = "complete"
    /\ task.status = "failed" => task.result = None /\ task.error

\* The row and its history as SingleExecution sees them.
Fates == [e \in Executions |->
             IF task.exec = e THEN IF LeaseLive THEN "live" ELSE "lapsed" ELSE fate[e]]

Promise == INSTANCE SingleExecution WITH fate <- Fates

\* Executions of a task run one at a time, and a stale one can neither report
\* nor come back to life: the transactions implement SingleExecution.
ExecutionPromise == Promise!Spec

=============================================================================
