------------------------- MODULE TaskClientsProofs -------------------------
(***************************************************************************)
(* Theorems about TaskLease and TaskClients, for any clients, executions,  *)
(* tokens and bounds: the row of a task has one execution at a time and    *)
(* implements SingleExecution; the routes under the real clients perform   *)
(* only transactions of TaskLease, and claims, leases, cancellations and   *)
(* reports reach only the execution they were meant for.                   *)
(***************************************************************************)
EXTENDS TaskClients, TLAPS

-----------------------------------------------------------------------------
(* The row of a task. *)

\* The three invariants are inductive together: what a row shows depends on who
\* holds its lease, and who holds it on the CHECK constraint.
LeaseInv == TaskTypeOK /\ OneOpenExecution /\ ResultIsCurrent

\* What Commit does to each column.
Committed(row) ==
    /\ task'.status = row.status
    /\ task'.exec = IF row.status \in Terminal THEN None ELSE row.exec
    /\ task'.token = IF row.status \in Terminal THEN None ELSE row.token
    /\ task'.lease = IF row.status \in Terminal THEN "none" ELSE row.lease
    /\ task'.result = row.result
    /\ task'.error = row.error

\* Commit keeps a row a row and gives up the lease of a task that ends.
LEMMA CommitRow ==
    ASSUME task \in Row, NEW row \in Row, Commit(row)
    PROVE  task' \in Row /\ Committed(row)
<1>1. CASE row.status \in Terminal
  <2>. DEFINE ended == WithoutLease(row)
  <2>1. /\ ended \in Row /\ ended.status = row.status /\ ended.exec = None
        /\ ended.token = None /\ ended.lease = "none" /\ ended.result = row.result
        /\ ended.error = row.error
    BY DEF WithoutLease, Row
  <2>2. task' = [ended EXCEPT !.version = task.version + 1]
    BY <1>1 DEF Commit
  <2>. HIDE DEF ended
  <2>3. task' \in Row
    BY <2>1, <2>2 DEF Row
  <2>4. Committed(row)
    BY <1>1, <2>1, <2>2 DEF Committed, Row
  <2>. QED BY <2>3, <2>4
<1>2. CASE row.status \notin Terminal
  BY <1>2 DEF Commit, Committed, Row
<1>. QED BY <1>1, <1>2

\* A new task has no execution and no result.
LEMMA InitInv == TaskInit => LeaseInv
BY TaskAssumption DEF TaskInit, LeaseInv, TaskTypeOK, OneOpenExecution, ResultIsCurrent,
   Row, Status, Active, Terminal, IsActive

-----------------------------------------------------------------------------
(* One lemma per transaction that commits a row. *)

\* Reaping ends the one open execution.
LEMMA ExpireInv == LeaseInv /\ Expire => LeaseInv'
<1>. DEFINE row == [task EXCEPT !.status = "failed", !.result = None, !.error = TRUE]
<1>. SUFFICES ASSUME LeaseInv, Expire PROVE LeaseInv'
  OBVIOUS
<1>1. task \in Row /\ IsActive /\ task.exec \in Executions
  BY DEF LeaseInv, TaskTypeOK, Expire, Expirable, IsActive, Row
<1>2. row \in Row /\ row.status = "failed" /\ row.result = None /\ row.error = TRUE
  BY <1>1 DEF Row, Status, Terminal
<1>3. Commit(row)
  BY DEF Expire
<1>. HIDE DEF row
<1>4. task' \in Row /\ Committed(row)
  BY ONLY <1>1, <1>2, <1>3, CommitRow
<1>5. /\ task'.status = "failed" /\ task'.exec = None /\ task'.token = None
      /\ task'.lease = "none" /\ task'.result = None /\ task'.error = TRUE
  BY <1>2, <1>4 DEF Committed, Terminal
<1>6. fate' = [fate EXCEPT ![task.exec] = "interrupted"] /\ deviceSeen' = deviceSeen
  BY <1>1 DEF Expire, EndAs
<1>7. TaskTypeOK'
  BY <1>1, <1>4, <1>5, <1>6 DEF LeaseInv, TaskTypeOK, Active
<1>8. OneOpenExecution'
  BY <1>1, <1>5, <1>6, TaskAssumption DEF LeaseInv, TaskTypeOK, OneOpenExecution
<1>9. ResultIsCurrent'
  BY <1>5 DEF ResultIsCurrent, IsActive, Active
<1>. QED BY <1>7, <1>8, <1>9 DEF LeaseInv

\* A claim begins an execution on a row that has none.
LEMMA ClaimInv ==
    ASSUME LeaseInv, NEW e \in Executions, NEW t \in Tokens, Claim(e, t, task.version)
    PROVE  LeaseInv'
<1>. DEFINE row == [Cleared(task) EXCEPT !.status = "running", !.exec = e, !.token = t,
                                         !.lease = "live"]
<1>1. task \in Row /\ ~IsActive /\ task.exec = None /\ fate[e] = "unused"
  BY DEF LeaseInv, TaskTypeOK, Claim, Free, IsActive
<1>2. /\ row \in Row /\ row.status = "running" /\ row.exec = e /\ row.token = t
      /\ row.lease = "live" /\ row.result = None /\ row.error = FALSE
  BY <1>1 DEF Row, Cleared, Status, Active
<1>3. Commit(row)
  BY DEF Claim
<1>. HIDE DEF row
<1>4. task' \in Row /\ Committed(row)
  BY ONLY <1>1, <1>2, <1>3, CommitRow
<1>5. /\ task'.status = "running" /\ task'.exec = e /\ task'.token = t
      /\ task'.lease = "live" /\ task'.result = None
  BY <1>2, <1>4 DEF Committed, Terminal
<1>6. fate' = [fate EXCEPT ![e] = "running"] /\ deviceSeen' = deviceSeen
  BY DEF Claim
<1>7. TaskTypeOK'
  BY <1>4, <1>5, <1>6, TaskAssumption DEF LeaseInv, TaskTypeOK, Active
<1>8. OneOpenExecution'
  BY <1>1, <1>5, <1>6, TaskAssumption DEF LeaseInv, TaskTypeOK, OneOpenExecution
<1>9. ResultIsCurrent'
  BY <1>5 DEF ResultIsCurrent, IsActive, Active
<1>. QED BY <1>7, <1>8, <1>9 DEF LeaseInv

-----------------------------------------------------------------------------
(* updateTask. *)

\* What updateTask writes when the row is active: the result is the present
\* run's, and a run that ends well has one.
LEMMA UpdateColumns ==
    ASSUME LeaseInv, NEW status \in Status, NEW result \in Outcome, NEW error \in Outcome,
           NEW cred, UpdateAllowed(status, task.version, result, error, cred)
    PROVE  /\ NextResult(status, result) \in Executions \cup {None, Unverified}
           /\ NextError(status, error) \in BOOLEAN
           /\ IsActive => NextResult(status, result) \in {None, task.exec}
           /\ status \in Active => IsActive
           /\ status = "draft" => ~IsActive
           /\ status = "complete" /\ IsActive => NextResult(status, result) = task.exec
           /\ status = "complete" /\ ~IsActive =>
                 /\ task.status = "complete"
                 /\ NextResult(status, result) \in {task.result, Unverified}
           /\ status = "failed" => NextResult(status, result) = None /\ NextError(status, error)
<1>1. task \in Row /\ (IsActive => task.exec \in Executions)
  BY DEF LeaseInv, TaskTypeOK, Row, IsActive
<1>2. IsActive => task.result \in {None, task.exec}
  BY DEF LeaseInv, ResultIsCurrent
<1>3. /\ task.result \in Executions \cup {None, Unverified}
      /\ task.error \in BOOLEAN /\ task.status \in Status
  BY <1>1 DEF Row
<1>4. NextError(status, error) \in BOOLEAN
  BY <1>3 DEF NextError
<1>5. NextResult(status, result) \in Executions \cup {None, Unverified}
  BY <1>1, <1>3 DEF NextResult, Author
<1>6. IsActive => NextResult(status, result) \in {None, task.exec}
  BY <1>2 DEF NextResult, Author
<1>7. MayMove(task.status, status)
  BY DEF UpdateAllowed
<1>8. status \in Active => IsActive
  BY <1>3, <1>7 DEF UpdateAllowed, Active, IsActive, MayMove, taskTransitions, Status, Terminal
<1>9. status = "complete" => NextResult(status, result) # None
  BY DEF UpdateAllowed
<1>10. status = "complete" /\ ~IsActive => task.status = "complete"
  BY <1>3, <1>7 DEF Active, IsActive, MayMove, taskTransitions, Status, Terminal
<1>11. status = "complete" /\ ~IsActive => NextResult(status, result) \in {task.result, Unverified}
  BY <1>9 DEF NextResult, Author
<1>12. status = "failed" => NextResult(status, result) = None /\ NextError(status, error)
  BY DEF NextResult, UpdateAllowed
<1>13. status = "draft" => ~IsActive
  BY <1>3, <1>7 DEF Active, IsActive, MayMove, taskTransitions, Status, Terminal
<1>. QED BY <1>4, <1>5, <1>6, <1>8, <1>9, <1>10, <1>11, <1>12, <1>13

\* An update keeps the lease with the open execution, or ends both.
LEMMA UpdateInv ==
    ASSUME LeaseInv, NEW status \in Status, NEW result \in Outcome, NEW error \in Outcome,
           NEW cred, Update(status, task.version, result, error, cred)
    PROVE  LeaseInv'
<1>. DEFINE row == [task EXCEPT !.status = status, !.result = NextResult(status, result),
                                !.error = NextError(status, error)]
            res == NextResult(status, result)
            err == NextError(status, error)
<1>0. UpdateAllowed(status, task.version, result, error, cred)
  BY DEF Update
<1>1. /\ res \in Executions \cup {None, Unverified}
      /\ err \in BOOLEAN
      /\ IsActive => res \in {None, task.exec}
      /\ status \in Active => IsActive
      /\ status = "draft" => ~IsActive
      /\ status = "complete" /\ IsActive => res = task.exec
      /\ status = "complete" /\ ~IsActive =>
            task.status = "complete" /\ res \in {task.result, Unverified}
      /\ status = "failed" => res = None /\ err
  BY <1>0, UpdateColumns
<1>2. /\ task \in Row
      /\ IF IsActive THEN task.exec \in Executions /\ task.token # None /\ task.lease # "none"
         ELSE task.exec = None /\ task.token = None /\ task.lease = "none"
  BY DEF LeaseInv, TaskTypeOK, Row, IsActive
<1>. HIDE DEF res, err
<1>3. /\ row \in Row /\ row.status = status /\ row.exec = task.exec
      /\ row.token = task.token /\ row.lease = task.lease /\ row.result = res
      /\ row.error = err
  BY <1>1, <1>2 DEF Row, res, err
<1>4. Commit(row)
  BY DEF Update
<1>. HIDE DEF row
<1>5. task' \in Row /\ Committed(row)
  BY ONLY <1>2, <1>3, <1>4, CommitRow
<1>6. /\ task'.status = status /\ task'.result = res /\ task'.error = err
      /\ task'.exec = IF status \in Terminal THEN None ELSE task.exec
      /\ task'.token = IF status \in Terminal THEN None ELSE task.token
      /\ task'.lease = IF status \in Terminal THEN "none" ELSE task.lease
  BY <1>3, <1>5 DEF Committed
<1>7. /\ fate' = IF status \in Terminal /\ IsActive THEN [fate EXCEPT ![task.exec] = status]
                 ELSE fate
      /\ deviceSeen' = deviceSeen
  BY DEF Update, EndAs
<1>8. TaskTypeOK'
  <2>1. /\ fate' \in [Executions -> {"unused", "running", "interrupted"} \cup Terminal]
        /\ deviceSeen' \in BOOLEAN
    BY <1>2, <1>7 DEF LeaseInv, TaskTypeOK
  <2>2. CASE status \in Terminal
    BY <2>1, <2>2, <1>5, <1>6 DEF TaskTypeOK, Active, Terminal
  <2>3. CASE status \notin Terminal
    <3>1. status \in Active <=> IsActive
      BY <2>3, <1>1 DEF Status
    <3>2. /\ task'.status \in Active <=> IsActive
          /\ task'.exec = task.exec /\ task'.token = task.token /\ task'.lease = task.lease
      BY <2>3, <3>1, <1>6
    <3>3. IF task'.status \in Active
          THEN task'.exec # None /\ task'.token # None /\ task'.lease # "none"
          ELSE task'.exec = None /\ task'.token = None /\ task'.lease = "none"
      BY <3>2, <1>2, TaskAssumption
    <3>. QED BY <2>1, <3>3, <1>5 DEF TaskTypeOK
  <2>. QED BY <2>2, <2>3
<1>9. OneOpenExecution'
  BY <1>2, <1>6, <1>7, TaskAssumption DEF LeaseInv, TaskTypeOK, OneOpenExecution, Terminal
<1>10. ResultIsCurrent'
  <2>1. CASE status \in Active
    BY <2>1, <1>1, <1>6 DEF ResultIsCurrent, IsActive, Active, Terminal
  <2>2. CASE status = "complete" /\ IsActive
    BY <2>2, <1>1, <1>2, <1>6, <1>7
       DEF ResultIsCurrent, IsActive, Active, Terminal, LeaseInv, TaskTypeOK
  <2>3. CASE status = "complete" /\ ~IsActive
    BY <2>3, <1>1, <1>6, <1>7 DEF LeaseInv, ResultIsCurrent, IsActive, Active, Terminal
  <2>4. CASE status \notin Active /\ status # "complete"
    BY <2>4, <1>1, <1>6 DEF ResultIsCurrent, IsActive, Active
  <2>. QED BY <2>1, <2>2, <2>3, <2>4
<1>. QED BY <1>8, <1>9, <1>10 DEF LeaseInv

-----------------------------------------------------------------------------
(* The steps that only touch the lease's expiry or the device. *)

\* Renewing and lapsing change nothing but lease_expires_at.
LEMMA LeaseAgesInv ==
    ASSUME LeaseInv, IsActive, NEW lease \in {"live", "past"},
           task' = [task EXCEPT !.lease = lease], fate' = fate, deviceSeen' \in BOOLEAN
    PROVE  LeaseInv'
<1>1. task \in Row
  BY DEF LeaseInv, TaskTypeOK
<1>2. /\ task' \in Row /\ task'.lease = lease
      /\ task'.status = task.status /\ task'.exec = task.exec /\ task'.token = task.token
      /\ task'.result = task.result /\ task'.error = task.error
  BY <1>1 DEF Row
<1>3. TaskTypeOK'
  BY <1>2 DEF LeaseInv, TaskTypeOK, IsActive
<1>4. OneOpenExecution' /\ ResultIsCurrent'
  BY <1>2 DEF LeaseInv, OneOpenExecution, ResultIsCurrent, IsActive
<1>. QED BY <1>3, <1>4 DEF LeaseInv

\* A device that comes and goes changes no row.
LEMMA DeviceInv ==
    ASSUME LeaseInv, task' = task, fate' = fate, deviceSeen' \in BOOLEAN
    PROVE  LeaseInv'
BY DEF LeaseInv, TaskTypeOK, OneOpenExecution, ResultIsCurrent, IsActive

\* A live lease is that of an active row.
LEMMA LiveIsActive == ASSUME TaskTypeOK, LeaseLive PROVE IsActive
BY DEF TaskTypeOK, LeaseLive, IsActive

\* Every transaction preserves the invariant.
LEMMA StepInv == LeaseInv /\ [TaskNext]_taskVars => LeaseInv'
<1>. SUFFICES ASSUME LeaseInv, [TaskNext]_taskVars PROVE LeaseInv'
  OBVIOUS
<1>0. deviceSeen \in BOOLEAN /\ (LeaseLive => IsActive)
  BY LiveIsActive DEF LeaseInv, TaskTypeOK
<1>1. CASE Expire
  BY <1>1, ExpireInv
<1>2. ASSUME NEW e \in Executions, NEW t \in Tokens, Claim(e, t, task.version) PROVE LeaseInv'
  BY <1>2, ClaimInv
<1>3. ASSUME NEW status \in Status, NEW result \in Outcome, NEW error \in Outcome,
             NEW cred \in Credential \cup {NoCredential},
             Update(status, task.version, result, error, cred)
      PROVE  LeaseInv'
  BY <1>3, UpdateInv
<1>4. ASSUME NEW e \in Executions, RenewTaskExecution(e) PROVE LeaseInv'
  BY <1>0, <1>4, LeaseAgesInv DEF RenewTaskExecution, Renewable
<1>5. ASSUME NEW cred \in Credential \cup {NoCredential}, Heartbeat(cred) PROVE LeaseInv'
  BY <1>0, <1>5, LeaseAgesInv, DeviceInv DEF Heartbeat, Renewable
<1>6. CASE Lapse
  BY <1>0, <1>6, LeaseAgesInv DEF Lapse
<1>7. CASE DeviceLost
  BY <1>7, DeviceInv DEF DeviceLost
<1>8. CASE UNCHANGED taskVars
  BY <1>0, <1>8, DeviceInv DEF taskVars
<1>. QED BY <1>1, <1>2, <1>3, <1>4, <1>5, <1>6, <1>7, <1>8 DEF TaskNext

\* The invariant holds in every reachable state.
THEOREM LeaseInvariant == TaskSpec => []LeaseInv
BY InitInv, StepInv, PTL DEF TaskSpec

\* A row always satisfies the CHECK constraint of cod_tasks: it has an execution,
\* a token and a lease exactly while it is active.
THEOREM TaskTypeCorrect == TaskSpec => []TaskTypeOK
<1>1. LeaseInv => TaskTypeOK
  BY DEF LeaseInv
<1>. QED BY <1>1, LeaseInvariant, PTL

\* However many clients call claimTask, updateTask and the reaper in whatever
\* order, at most one execution of a task has begun and not ended.
THEOREM OneExecution == TaskSpec => []OneOpenExecution
<1>1. LeaseInv => OneOpenExecution
  BY DEF LeaseInv
<1>. QED BY <1>1, LeaseInvariant, PTL

\* A task never shows the answer of an earlier run as that of the present one.
THEOREM CurrentResult == TaskSpec => []ResultIsCurrent
<1>1. LeaseInv => ResultIsCurrent
  BY DEF LeaseInv
<1>. QED BY <1>1, LeaseInvariant, PTL

-----------------------------------------------------------------------------
(* The refinement: each transaction is a step of SingleExecution or a      *)
(* stutter.                                                                *)

\* The invariant, in terms of what SingleExecution sees.
LEMMA FatesSeen ==
    ASSUME LeaseInv
    PROVE  /\ task.exec \in Executions \cup {None}
           /\ IsActive <=> task.exec \in Executions
           /\ \A e \in Executions :
                 Fates[e] = IF task.exec = e THEN IF LeaseLive THEN "live" ELSE "lapsed"
                            ELSE fate[e]
           /\ \A e \in Executions : task.exec # e => fate[e] \notin {"running", "live", "lapsed"}
<1>1. task \in Row /\ (IsActive <=> task.exec \in Executions)
  BY TaskAssumption DEF LeaseInv, TaskTypeOK, Row, IsActive
<1>2. \A e \in Executions : task.exec # e => fate[e] \notin {"running", "live", "lapsed"}
  BY DEF LeaseInv, TaskTypeOK, OneOpenExecution, Terminal
<1>3. \A e \in Executions :
          Fates[e] = IF task.exec = e THEN IF LeaseLive THEN "live" ELSE "lapsed" ELSE fate[e]
  BY DEF Fates
<1>. QED BY <1>1, <1>2, <1>3 DEF Row

\* The end of the open execution, however it ends.
LEMMA EndSeen ==
    ASSUME LeaseInv, IsActive, NEW verdict, task'.exec = None,
           fate' = [fate EXCEPT ![task.exec] = verdict]
    PROVE  /\ task.exec \in Executions
           /\ Fates[task.exec] = IF LeaseLive THEN "live" ELSE "lapsed"
           /\ Fates' = [Fates EXCEPT ![task.exec] = verdict]
<1>1. fate \in [Executions -> {"unused", "running", "interrupted"} \cup Terminal]
  BY DEF LeaseInv, TaskTypeOK
<1>2. task.exec \in Executions /\ Fates[task.exec] = IF LeaseLive THEN "live" ELSE "lapsed"
  BY FatesSeen
<1>3. \A e \in Executions : task'.exec # e
  BY TaskAssumption
<1>4. Fates' = [e \in Executions |-> fate'[e]]
  BY <1>3 DEF Fates
<1>5. Fates' = [Fates EXCEPT ![task.exec] = verdict]
  BY <1>1, <1>2, <1>4 DEF Fates
<1>. QED BY <1>2, <1>5

\* Nothing is seen of a step that keeps execution, history and expiry.
LEMMA NothingSeen ==
    ASSUME task'.exec = task.exec, task'.lease = task.lease, fate' = fate
    PROVE  Fates' = Fates
BY DEF Fates, LeaseLive

LEMMA ExpireSeen == ASSUME LeaseInv, Expire PROVE Promise!Next
<1>1. IsActive /\ ~LeaseLive /\ task \in Row
  BY DEF Expire, Expirable, LeaseInv, TaskTypeOK
<1>. DEFINE row == [task EXCEPT !.status = "failed", !.result = None, !.error = TRUE]
<1>2. row \in Row /\ row.status = "failed"
  BY <1>1 DEF Row, Status, Terminal
<1>3. Commit(row)
  BY DEF Expire
<1>. HIDE DEF row
<1>4. task' \in Row /\ Committed(row)
  BY ONLY <1>1, <1>2, <1>3, CommitRow
<1>5. task'.exec = None
  BY <1>2, <1>4 DEF Committed, Terminal
<1>6. fate' = [fate EXCEPT ![task.exec] = "interrupted"]
  BY <1>1 DEF Expire, EndAs
<1>7. /\ task.exec \in Executions /\ Fates[task.exec] = "lapsed"
      /\ Fates' = [Fates EXCEPT ![task.exec] = "interrupted"]
  BY <1>1, <1>5, <1>6, EndSeen
<1>. QED BY <1>7 DEF Promise!Next, Promise!Interrupt, Promise!Become

LEMMA ClaimSeen ==
    ASSUME LeaseInv, NEW e \in Executions, NEW t \in Tokens, Claim(e, t, task.version)
    PROVE  Promise!Next
<1>. DEFINE row == [Cleared(task) EXCEPT !.status = "running", !.exec = e, !.token = t,
                                         !.lease = "live"]
<1>1. task \in Row /\ ~IsActive /\ fate[e] = "unused"
  BY DEF LeaseInv, TaskTypeOK, Claim, Free
<1>2. row \in Row /\ row.status = "running" /\ row.exec = e /\ row.lease = "live"
  BY <1>1 DEF Row, Cleared, Status, Active
<1>3. Commit(row)
  BY DEF Claim
<1>. HIDE DEF row
<1>4. task' \in Row /\ Committed(row)
  BY ONLY <1>1, <1>2, <1>3, CommitRow
<1>5. task'.exec = e /\ LeaseLive'
  BY <1>2, <1>4 DEF Committed, Terminal, LeaseLive
<1>6. fate' = [fate EXCEPT ![e] = "running"]
  BY DEF Claim
<1>7. \A d \in Executions : task.exec # d
  BY <1>1, FatesSeen
<1>8. \A d \in Executions : Fates[d] = fate[d] /\ Fates[d] \notin {"live", "lapsed"}
  BY <1>7, FatesSeen
<1>9. fate \in [Executions -> {"unused", "running", "interrupted"} \cup Terminal]
  BY DEF LeaseInv, TaskTypeOK
<1>10. Fates' = [d \in Executions |-> IF d = e THEN "live" ELSE fate[d]]
  BY <1>5, <1>6, <1>9 DEF Fates
<1>11. Fates' = [Fates EXCEPT ![e] = "live"]
  BY <1>7, <1>10 DEF Fates
<1>12. Fates[e] = "unused"
  BY <1>1, <1>8
<1>. QED BY <1>8, <1>11, <1>12 DEF Promise!Next, Promise!Begin, Promise!Become

LEMMA UpdateSeen ==
    ASSUME LeaseInv, NEW status \in Status, NEW result \in Outcome, NEW error \in Outcome,
           NEW cred, Update(status, task.version, result, error, cred)
    PROVE  [Promise!Next]_Fates
<1>. DEFINE row == [task EXCEPT !.status = status, !.result = NextResult(status, result),
                                !.error = NextError(status, error)]
<1>0. UpdateAllowed(status, task.version, result, error, cred)
  BY DEF Update
<1>1. /\ task \in Row
      /\ NextResult(status, result) \in Executions \cup {None, Unverified}
      /\ NextError(status, error) \in BOOLEAN
  BY <1>0, UpdateColumns DEF LeaseInv, TaskTypeOK
<1>2. row \in Row /\ row.status = status /\ row.exec = task.exec /\ row.lease = task.lease
  BY <1>1 DEF Row
<1>3. Commit(row)
  BY DEF Update
<1>. HIDE DEF row
<1>4. task' \in Row /\ Committed(row)
  BY ONLY <1>1, <1>2, <1>3, CommitRow
<1>5. fate' = IF status \in Terminal /\ IsActive THEN [fate EXCEPT ![task.exec] = status] ELSE fate
  BY DEF Update, EndAs
<1>6. CASE status \in Terminal /\ IsActive
  <2>1. task'.exec = None
    BY <1>2, <1>4, <1>6 DEF Committed
  <2>2. /\ task.exec \in Executions
        /\ Fates[task.exec] = IF LeaseLive THEN "live" ELSE "lapsed"
        /\ Fates' = [Fates EXCEPT ![task.exec] = status]
    BY <1>5, <1>6, <2>1, EndSeen
  <2>3. CASE status = "cancelled"
    BY <2>2, <2>3 DEF Promise!Next, Promise!Cancel, Promise!Become
  <2>4. CASE status # "cancelled"
    <3>1. LeaseLive /\ status \in {"complete", "failed"}
      BY <1>0, <1>6, <2>4 DEF UpdateAllowed, Vouched, Terminal
    <3>. QED BY <2>2, <3>1 DEF Promise!Next, Promise!Finish, Promise!Become
  <2>. QED BY <2>3, <2>4
<1>7. CASE status \notin Terminal
  <2>1. task'.exec = task.exec /\ task'.lease = task.lease /\ fate' = fate
    BY <1>2, <1>4, <1>5, <1>7 DEF Committed
  <2>. QED BY <2>1, NothingSeen
<1>8. CASE status \in Terminal /\ ~IsActive
  <2>1. task'.exec = task.exec /\ task'.lease = task.lease /\ fate' = fate
    BY <1>2, <1>4, <1>5, <1>8 DEF Committed, LeaseInv, TaskTypeOK, IsActive
  <2>. QED BY <2>1, NothingSeen
<1>. QED BY <1>6, <1>7, <1>8

LEMMA LapseSeen == ASSUME LeaseInv, Lapse PROVE Promise!Next
<1>1. task \in Row /\ LeaseLive /\ IsActive
  BY LiveIsActive DEF Lapse, LeaseInv, TaskTypeOK
<1>2. task.exec \in Executions /\ Fates[task.exec] = "live"
  BY <1>1, FatesSeen
<1>3. task'.exec = task.exec /\ task'.lease = "past" /\ fate' = fate
  BY <1>1 DEF Lapse, Row
<1>4. Fates' = [Fates EXCEPT ![task.exec] = "lapsed"]
  BY <1>2, <1>3 DEF Fates, LeaseLive
<1>. QED BY <1>2, <1>4 DEF Promise!Next, Promise!Lapse, Promise!Become

\* Every transaction on a task is a step of SingleExecution or changes nothing
\* that it sees.
LEMMA StepSeen == ASSUME LeaseInv, [TaskNext]_taskVars PROVE [Promise!Next]_Fates
<1>0. task \in Row
  BY DEF LeaseInv, TaskTypeOK
<1>1. CASE Expire
  BY <1>1, ExpireSeen
<1>2. ASSUME NEW e \in Executions, NEW t \in Tokens, Claim(e, t, task.version)
      PROVE  [Promise!Next]_Fates
  BY <1>2, ClaimSeen
<1>3. ASSUME NEW status \in Status, NEW result \in Outcome, NEW error \in Outcome,
             NEW cred \in Credential \cup {NoCredential},
             Update(status, task.version, result, error, cred)
      PROVE  [Promise!Next]_Fates
  BY <1>3, UpdateSeen
<1>4. ASSUME LeaseLive, task' = [task EXCEPT !.lease = "live"], fate' = fate
      PROVE  [Promise!Next]_Fates
  <2>1. task'.exec = task.exec /\ task'.lease = task.lease
    BY <1>0, <1>4 DEF Row, LeaseLive
  <2>. QED BY <1>4, <2>1, NothingSeen
<1>5. ASSUME task' = task, fate' = fate PROVE [Promise!Next]_Fates
  BY <1>5, NothingSeen
<1>6. ASSUME NEW e \in Executions, RenewTaskExecution(e) PROVE [Promise!Next]_Fates
  BY <1>4, <1>6 DEF RenewTaskExecution, Renewable
<1>7. ASSUME NEW cred \in Credential \cup {NoCredential}, Heartbeat(cred)
      PROVE  [Promise!Next]_Fates
  BY <1>4, <1>5, <1>7 DEF Heartbeat, Renewable
<1>8. CASE Lapse
  BY <1>8, LapseSeen
<1>9. CASE DeviceLost \/ UNCHANGED taskVars
  BY <1>5, <1>9 DEF DeviceLost, taskVars
<1>. QED BY <1>1, <1>2, <1>3, <1>6, <1>7, <1>8, <1>9 DEF TaskNext

\* The transactions on a task implement SingleExecution: its executions run one at
\* a time, none ends twice, a lapsed one can neither report nor be renewed.
THEOREM TaskImplementsSingleExecution == TaskSpec => ExecutionPromise
<1>1. TaskInit => Promise!Init
  BY TaskAssumption DEF TaskInit, Promise!Init, Fates
<1>2. LeaseInv /\ [TaskNext]_taskVars => [Promise!Next]_Fates
  BY StepSeen
<1>. QED BY <1>1, <1>2, LeaseInvariant, PTL DEF TaskSpec, ExecutionPromise, Promise!Spec

-----------------------------------------------------------------------------
(* What requests, answers and clients are. *)

AnyCredential == [exec : Executions \cup {None}, token : Tokens \cup {None}]

ClaimRecord == [token : Tokens \cup {None}, version : Nat]

ViewRecord == [status : Status \cup {"none"}, version : Nat]

AnswerRecord == [ok : BOOLEAN, fatal : BOOLEAN, row : ViewRecord, cred : AnyCredential]

FlowOps == [run |-> {"claim", "complete", "fail"}, sync |-> {"list", "heartbeat"},
            cancel |-> {"cancel"}]

RequestRecord ==
    [phase : {"none", "sent", "answered"}, version : Nat, cred : AnyCredential, reaps : Nat,
     op : {"none", "claim", "complete", "fail", "list", "heartbeat", "cancel"},
     answer : AnswerRecord]

ClientRecord ==
    [lease : Credential \cup {NoCredential}, pending : ClaimRecord, seen : ViewRecord,
     run : Runs, at : ViewRecord, stopped : BOOLEAN, exec : Executions \cup {None},
     retried : BOOLEAN]

UsedRecord == [faults : Nat, cancels : Nat, tokens : SUBSET Tokens]

\* A claim carries a token, everything else a lease or nothing.
WellCredited(q) ==
    IF q.op = "claim" THEN q.cred.token \in Tokens
    ELSE q.cred \in Credential \cup {NoCredential}

\* Each flow has its requests, and a claiming run awaits a claim.
ClientsShape ==
    /\ client \in [Clients -> ClientRecord]
    /\ call \in [Clients -> [Flows -> RequestRecord]]
    /\ late \subseteq RequestRecord
    /\ origin \in [Executions -> ClaimRecord]
    /\ used \in UsedRecord
    /\ \A c \in Clients : \A f \in Flows :
          call[c][f].op \in FlowOps[f] \cup {"none"} /\ WellCredited(call[c][f])
    /\ \A q \in late : WellCredited(q)
    /\ \A c \in Clients : client[c].run = "claiming" => call[c]["run"].op = "claim"

-----------------------------------------------------------------------------
(* Who knows which claim. *)

ClaimOf(q) == [token |-> q.cred.token, version |-> q.version]

ClaimsOf(c) ==
    {client[c].pending} \cup {ClaimOf(q) : q \in {p \in {call[c]["run"]} : p.op = "claim"}}

\* Every claim that may still arrive, or has begun an execution.
Known ==
    {NoClaim} \cup (UNION {ClaimsOf(c) : c \in Clients})
    \cup {ClaimOf(q) : q \in {p \in late : p.op = "claim"}} \cup {origin[e] : e \in Executions}

\* A token was drawn once, for one version, ...
ClaimsDrawn ==
    /\ \A x, y \in Known : x.token = y.token => x = y
    /\ \A x \in Known : x.token \in used.tokens \cup {None}

TokensOf(c) == {x.token : x \in ClaimsOf(c)} \cup {client[c].lease.token}

\* ... and by one client.
TokensOwned ==
    /\ \A c, d \in Clients : \A t \in TokensOf(c) \cap TokensOf(d) : t # None => c = d
    /\ \A c \in Clients : TokensOf(c) \subseteq used.tokens \cup {None}

\* The credential of an execution is that of the claim that began it.
Genuine(cred) == cred.exec \in Executions /\ cred.token # None /\ origin[cred.exec].token = cred.token

\* The row, leases and the answers of claims hold genuine credentials; a claim
\* began an execution at a version that has passed.
OriginsOK ==
    /\ task.exec # None => Genuine(task)
    /\ \A e \in Executions :
          /\ origin[e].version < task.version
          /\ origin[e].token # None => fate[e] # "unused"
    /\ \A c \in Clients :
          /\ HasLease(c) => Genuine(client[c].lease)
          /\ LET q == call[c]["run"] IN
             q.op = "claim" /\ q.answer.ok =>
                Genuine(q.answer.cred) /\ q.answer.cred.token = q.cred.token

ClientsInv ==
    ClientsShape /\ ClaimsDrawn /\ TokensOwned /\ OriginsOK /\ ClaimBeginsOnce

-----------------------------------------------------------------------------
(* Membership in the sets above. *)

LEMMA Constants ==
    /\ None \notin Executions /\ None \notin Tokens
    /\ \A e \in Executions : NoCredential.exec # e
    /\ NoClaim \in ClaimRecord /\ NoClaim.token = None /\ NoClaim.version = 0
    /\ NoCredential \in AnyCredential /\ Credential \subseteq AnyCredential
    /\ NoCredential.token = None /\ NoCredential.exec = None
    /\ NoView \in ViewRecord
BY TaskAssumption DEF NoCredential, NoClaim, ClaimRecord, AnyCredential, Credential, NoView, ViewRecord

LEMMA ClaimsMembers ==
    \A c, x : x \in ClaimsOf(c) <=>
        \/ x = client[c].pending
        \/ call[c]["run"].op = "claim" /\ x = ClaimOf(call[c]["run"])
BY DEF ClaimsOf

LEMMA KnownMembers ==
    \A x : x \in Known <=>
        \/ x = NoClaim
        \/ \E c \in Clients : x \in ClaimsOf(c)
        \/ \E q \in late : q.op = "claim" /\ x = ClaimOf(q)
        \/ \E e \in Executions : x = origin[e]
<1>. DEFINE inClients == UNION {ClaimsOf(c) : c \in Clients}
            inLate == {ClaimOf(q) : q \in {p \in late : p.op = "claim"}}
            inOrigin == {origin[e] : e \in Executions}
<1>1. \A x : x \in inClients <=> \E c \in Clients : x \in ClaimsOf(c)
  OBVIOUS
<1>2. \A x : x \in inLate <=> \E q \in late : q.op = "claim" /\ x = ClaimOf(q)
  OBVIOUS
<1>3. \A x : x \in inOrigin <=> \E e \in Executions : x = origin[e]
  OBVIOUS
<1>4. Known = {NoClaim} \cup inClients \cup inLate \cup inOrigin
  BY DEF Known
<1>. HIDE DEF inClients, inLate, inOrigin
<1>. QED BY <1>1, <1>2, <1>3, <1>4

LEMMA TokensMembers ==
    \A c, t : t \in TokensOf(c) <=>
        t = client[c].lease.token \/ \E x \in ClaimsOf(c) : t = x.token
BY DEF TokensOf

LEMMA MembersNext ==
    /\ \A c, x : x \in ClaimsOf(c)' <=>
          \/ x = client'[c].pending
          \/ call'[c]["run"].op = "claim" /\ x = ClaimOf(call'[c]["run"])
    /\ \A x : x \in Known' <=>
          \/ x = NoClaim
          \/ \E c \in Clients : x \in ClaimsOf(c)'
          \/ \E q \in late' : q.op = "claim" /\ x = ClaimOf(q)
          \/ \E e \in Executions : x = origin'[e]
    /\ \A c, t : t \in TokensOf(c)' <=>
          t = client'[c].lease.token \/ \E x \in ClaimsOf(c)' : t = x.token
<1>1. \A c, x : x \in ClaimsOf(c)' <=>
          \/ x = client'[c].pending
          \/ call'[c]["run"].op = "claim" /\ x = ClaimOf(call'[c]["run"])
  BY DEF ClaimsOf, ClaimOf
<1>2. \A x : x \in Known' <=>
          \/ x = NoClaim
          \/ \E c \in Clients : x \in ClaimsOf(c)'
          \/ \E q \in late' : q.op = "claim" /\ x = ClaimOf(q)
          \/ \E e \in Executions : x = origin'[e]
  <2>. DEFINE inClients == UNION {ClaimsOf(c)' : c \in Clients}
              inLate == {ClaimOf(q) : q \in {p \in late' : p.op = "claim"}}
              inOrigin == {origin'[e] : e \in Executions}
  <2>1. \A x : x \in inClients <=> \E c \in Clients : x \in ClaimsOf(c)'
    OBVIOUS
  <2>2. \A x : x \in inLate <=> \E q \in late' : q.op = "claim" /\ x = ClaimOf(q)
    OBVIOUS
  <2>3. \A x : x \in inOrigin <=> \E e \in Executions : x = origin'[e]
    OBVIOUS
  <2>4. Known' = {NoClaim} \cup inClients \cup inLate \cup inOrigin
    BY DEF Known, ClaimOf
  <2>. HIDE DEF inClients, inLate, inOrigin
  <2>. QED BY <2>1, <2>2, <2>3, <2>4
<1>3. \A c, t : t \in TokensOf(c)' <=>
          t = client'[c].lease.token \/ \E x \in ClaimsOf(c)' : t = x.token
  BY DEF TokensOf
<1>. QED BY <1>1, <1>2, <1>3

-----------------------------------------------------------------------------
(* What a step may teach a client: a claim it has just drawn, and the      *)
(* credential in the answer of its claim.                                  *)

Learns(c, new) ==
    /\ \A f \in Flows :
          call'[c][f].op \in FlowOps[f] \cup {"none"} /\ WellCredited(call'[c][f])
    /\ client'[c].run = "claiming" => call'[c]["run"].op = "claim"
    /\ ClaimsOf(c)' \subseteq ClaimsOf(c) \cup {NoClaim, new}
    /\ \/ client'[c].lease \in {client[c].lease, NoCredential}
       \/ /\ call[c]["run"].op = "claim" /\ call[c]["run"].answer.ok
          /\ client'[c].lease = call[c]["run"].answer.cred
    /\ LET q == call'[c]["run"] IN
       q.op = "claim" /\ q.answer.ok => Genuine(q.answer.cred) /\ q.answer.cred.token = q.cred.token

\* What a transaction that begins no execution does to the row.
Onward ==
    /\ task'.version >= task.version
    /\ task'.exec # None => task'.exec = task.exec /\ task'.token = task.token
    /\ \A e \in Executions : fate[e] # "unused" => fate'[e] # "unused"

\* A token that was not used is in no claim that anyone knows.
LEMMA DrawnInv ==
    ASSUME ClaimsDrawn, NEW new \in ClaimRecord,
           new = NoClaim \/ new.token \in used'.tokens \ used.tokens,
           used'.tokens \subseteq Tokens, used.tokens \subseteq used'.tokens,
           Known' \subseteq Known \cup {new}
    PROVE  ClaimsDrawn'
<1>1. NoClaim \in Known
  BY KnownMembers
<1>2. new.token # None => new.token \in used'.tokens /\ new.token \notin used.tokens
  BY Constants
<1>3. new.token = None => new = NoClaim
  BY <1>1, Constants, TaskAssumption DEF ClaimsDrawn
<1>. QED BY <1>1, <1>2, <1>3 DEF ClaimsDrawn

\* A client's tokens are its own.
LEMMA OwnedInv ==
    ASSUME TokensOwned, NEW who, NEW new \in ClaimRecord,
           new = NoClaim \/ new.token \in used'.tokens \ used.tokens,
           used.tokens \subseteq used'.tokens,
           \A c \in Clients : TokensOf(c)' \subseteq
              TokensOf(c) \cup {None} \cup (IF c = who THEN {new.token} ELSE {})
    PROVE  TokensOwned'
<1>1. new.token # None => new.token \in used'.tokens /\ new.token \notin used.tokens
  BY Constants
<1>2. \A c \in Clients : TokensOf(c)' \subseteq used'.tokens \cup {None}
  BY <1>1 DEF TokensOwned
<1>3. ASSUME NEW c \in Clients, NEW d \in Clients, NEW t \in TokensOf(c)' \cap TokensOf(d)', t # None
      PROVE  c = d
  <2>1. t \in TokensOf(c) \/ (c = who /\ t = new.token)
    BY <1>3
  <2>2. t \in TokensOf(d) \/ (d = who /\ t = new.token)
    BY <1>3
  <2>3. t \in TokensOf(c) \/ t \in TokensOf(d) => t # new.token
    BY <1>1, <1>3 DEF TokensOwned
  <2>. QED BY <1>3, <2>1, <2>2, <2>3 DEF TokensOwned
<1>. QED BY <1>2, <1>3 DEF TokensOwned

\* The claim of a request is a claim.
LEMMA ClaimRecords ==
    ASSUME ClientsShape
    PROVE  /\ \A c \in Clients : ClaimsOf(c) \subseteq ClaimRecord
           /\ Known \subseteq ClaimRecord
<1>1. \A q \in RequestRecord : ClaimOf(q) \in ClaimRecord
  BY DEF RequestRecord, AnyCredential, ClaimOf, ClaimRecord
<1>2. \A c \in Clients : client[c].pending \in ClaimRecord /\ call[c]["run"] \in RequestRecord
  BY DEF ClientsShape, ClientRecord, Flows
<1>3. \A c \in Clients : ClaimsOf(c) \subseteq ClaimRecord
  BY <1>1, <1>2, ClaimsMembers
<1>4. \A q \in late : ClaimOf(q) \in ClaimRecord
  BY <1>1 DEF ClientsShape
<1>5. \A e \in Executions : origin[e] \in ClaimRecord
  BY DEF ClientsShape
<1>. QED BY <1>3, <1>4, <1>5, KnownMembers, Constants

Requested(q) == q \in late \/ \E c \in Clients : \E f \in Flows : q = call[c][f]

\* A claim that was sent is known.
LEMMA RequestedKnown ==
    ASSUME ClientsShape, NEW q, Requested(q), q.op = "claim"
    PROVE  ClaimOf(q) \in Known
<1>1. CASE q \in late
  BY <1>1, KnownMembers
<1>2. ASSUME NEW c \in Clients, NEW f \in Flows, q = call[c][f] PROVE ClaimOf(q) \in Known
  <2>1. f = "run"
    BY <1>2 DEF ClientsShape, FlowOps, Flows
  <2>. QED BY <1>2, <2>1, ClaimsMembers, KnownMembers
<1>. QED BY <1>1, <1>2 DEF Requested

\* A step that teaches the clients no more than that, and begins no execution,
\* preserves the invariant.
LEMMA LearnsInv ==
    ASSUME LeaseInv, ClientsInv, Onward, LeaseInv', origin' = origin, NEW who, NEW new \in ClaimRecord,
           new = NoClaim \/ new.token \in used'.tokens \ used.tokens,
           used' \in UsedRecord,
           used.tokens \subseteq used'.tokens,
           client' \in [Clients -> ClientRecord],
           call' \in [Clients -> [Flows -> RequestRecord]],
           \A q \in late' : Requested(q),
           \A c \in Clients : Learns(c, IF c = who THEN new ELSE NoClaim)
    PROVE  ClientsInv'
<1>0. /\ ClientsShape /\ ClaimsDrawn /\ TokensOwned /\ OriginsOK /\ ClaimBeginsOnce
      /\ task \in Row /\ task' \in Row
  BY DEF ClientsInv, LeaseInv, TaskTypeOK
<1>1. \A q \in late' : q \in RequestRecord /\ WellCredited(q)
  BY <1>0 DEF Requested, ClientsShape
<1>2. ClientsShape'
  BY <1>0, <1>1 DEF ClientsShape, Learns, WellCredited
<1>3. ClaimsDrawn'
  <2>1. \A c \in Clients : ClaimsOf(c)' \subseteq Known \cup {new}
    BY KnownMembers DEF Learns
  <2>2. \A q \in late' : q.op = "claim" => ClaimOf(q) \in Known
    BY <1>0, RequestedKnown
  <2>3. \A e \in Executions : origin'[e] \in Known
    BY KnownMembers
  <2>4. Known' \subseteq Known \cup {new}
    BY <2>1, <2>2, <2>3, MembersNext, KnownMembers
  <2>5. used'.tokens \subseteq Tokens
    BY DEF UsedRecord
  <2>. QED BY <1>0, <2>4, <2>5, DrawnInv
<1>4. TokensOwned'
  <2>1. ASSUME NEW c \in Clients
        PROVE  TokensOf(c)' \subseteq TokensOf(c) \cup {None} \cup (IF c = who THEN {new.token} ELSE {})
    <3>1. \A x \in ClaimsOf(c)' : x \in ClaimsOf(c) \/ x.token = None \/ (c = who /\ x.token = new.token)
      BY Constants DEF Learns
    <3>2. client'[c].lease.token \in TokensOf(c) \cup {None}
      <4>1. call[c]["run"].op = "claim" => call[c]["run"].cred.token \in TokensOf(c)
        <5>1. ClaimOf(call[c]["run"]).token = call[c]["run"].cred.token
          BY DEF ClaimOf
        <5>2. call[c]["run"].op = "claim" => ClaimOf(call[c]["run"]) \in ClaimsOf(c)
          BY ClaimsMembers
        <5>. QED BY <5>1, <5>2, TokensMembers
      <4>2. client[c].lease.token \in TokensOf(c)
        BY TokensMembers
      <4>. QED BY <1>0, <4>1, <4>2, Constants DEF Learns, OriginsOK
    <3>. QED BY <3>1, <3>2, MembersNext, TokensMembers
  <2>. QED BY <1>0, <2>1, OwnedInv
<1>5. OriginsOK'
  <2>1. task'.exec # None => Genuine(task)'
    BY <1>0 DEF Onward, OriginsOK, Genuine
  <2>2. \A e \in Executions : origin'[e].version < task'.version
    BY <1>0 DEF Onward, OriginsOK, Row, ClientsShape, ClaimRecord
  <2>3. \A e \in Executions : origin'[e].token # None => fate'[e] # "unused"
    BY <1>0 DEF Onward, OriginsOK
  <2>4. \A c \in Clients : HasLease(c)' => Genuine(client[c].lease)'
    BY <1>0 DEF Learns, OriginsOK, HasLease, Genuine
  <2>5. \A c \in Clients : LET q == call'[c]["run"] IN
           q.op = "claim" /\ q.answer.ok =>
              Genuine(q.answer.cred) /\ q.answer.cred.token = q.cred.token
    BY DEF Learns
  <2>. QED BY <2>1, <2>2, <2>3, <2>4, <2>5 DEF OriginsOK, Genuine
<1>6. ClaimBeginsOnce'
  BY <1>0 DEF ClaimBeginsOnce
<1>. QED BY <1>2, <1>3, <1>4, <1>5, <1>6 DEF ClientsInv

-----------------------------------------------------------------------------
(* The transactions, on the row. *)

\* Commit counts the version up.
LEMMA CommitVersion ==
    ASSUME task \in Row, NEW row \in Row, Commit(row)
    PROVE  task'.version = task.version + 1
<1>1. row \in [status : Status, version : Nat, exec : Executions \cup {None},
               token : Tokens \cup {None}, lease : {"none", "live", "past"},
               result : Executions \cup {None, Unverified}, error : BOOLEAN]
  BY DEF Row
<1>. DEFINE kept == IF row.status \in Terminal THEN WithoutLease(row) ELSE row
<1>2. "version" \in DOMAIN kept
  BY <1>1 DEF WithoutLease
<1>3. task' = [kept EXCEPT !.version = task.version + 1]
  BY DEF Commit
<1>. HIDE DEF kept
<1>. QED BY <1>2, <1>3

\* A transaction that begins no execution.
Continues ==
    \/ Expire
    \/ \E status \in Status, result \in Outcome, error \in Outcome,
          cred \in Credential \cup {NoCredential} :
          Update(status, task.version, result, error, cred)
    \/ \E e \in Executions : RenewTaskExecution(e)
    \/ \E cred \in Credential \cup {NoCredential} : Heartbeat(cred)
    \/ Lapse
    \/ DeviceLost
    \/ UNCHANGED taskVars

LEMMA EndIsUse ==
    ASSUME LeaseInv, NEW verdict, verdict # "unused", EndAs(verdict)
    PROVE  \A e \in Executions : fate[e] # "unused" => fate'[e] # "unused"
BY DEF EndAs, LeaseInv, TaskTypeOK

LEMMA ContinuesOnward ==
    ASSUME LeaseInv, Continues
    PROVE  Onward /\ [TaskNext]_taskVars /\ LeaseInv'
<1>0. [TaskNext]_taskVars
  BY DEF Continues, TaskNext
<1>1. LeaseInv'
  BY <1>0, StepInv
<1>2. task \in Row /\ task.version \in Nat
  BY DEF LeaseInv, TaskTypeOK, Row
<1>3. ASSUME fate' = fate,
             (task' = task) \/ (\E l \in {"live", "past"} : task' = [task EXCEPT !.lease = l])
      PROVE  Onward
  BY <1>2, <1>3 DEF Onward, Row
<1>4. ASSUME Expire PROVE Onward
  <2>. DEFINE row == [task EXCEPT !.status = "failed", !.result = None, !.error = TRUE]
  <2>1. row \in Row /\ row.exec = task.exec /\ row.token = task.token /\ row.status = "failed"
    BY <1>2 DEF Row, Status, Terminal
  <2>2. Commit(row)
    BY <1>4 DEF Expire
  <2>. HIDE DEF row
  <2>3. task'.version = task.version + 1 /\ Committed(row)
    BY <1>2, <2>1, <2>2, CommitVersion, CommitRow
  <2>4. \A e \in Executions : fate[e] # "unused" => fate'[e] # "unused"
    BY <1>4, EndIsUse DEF Expire
  <2>5. task'.exec = None
    BY <2>1, <2>3 DEF Committed, Terminal
  <2>. QED BY <1>2, <2>3, <2>4, <2>5 DEF Onward
<1>5. ASSUME NEW status \in Status, NEW result \in Outcome, NEW error \in Outcome,
             NEW cred \in Credential \cup {NoCredential},
             Update(status, task.version, result, error, cred)
      PROVE  Onward
  <2>. DEFINE row == [task EXCEPT !.status = status, !.result = NextResult(status, result),
                                  !.error = NextError(status, error)]
  <2>0. UpdateAllowed(status, task.version, result, error, cred)
    BY <1>5 DEF Update
  <2>1. NextResult(status, result) \in Executions \cup {None, Unverified} /\ NextError(status, error) \in BOOLEAN
    BY <2>0, UpdateColumns
  <2>2. row \in Row /\ row.exec = task.exec /\ row.token = task.token /\ row.status = status
    BY <1>2, <2>1 DEF Row
  <2>3. Commit(row)
    BY <1>5 DEF Update
  <2>. HIDE DEF row
  <2>4. task'.version = task.version + 1 /\ Committed(row)
    BY <1>2, <2>2, <2>3, CommitVersion, CommitRow
  <2>5. \A e \in Executions : fate[e] # "unused" => fate'[e] # "unused"
    BY <1>5, EndIsUse DEF Update, Terminal
  <2>. QED BY <1>2, <2>2, <2>4, <2>5 DEF Onward, Committed
<1>6. ASSUME NEW e \in Executions, RenewTaskExecution(e) PROVE Onward
  BY <1>3, <1>6 DEF RenewTaskExecution
<1>7. ASSUME NEW cred \in Credential \cup {NoCredential}, Heartbeat(cred) PROVE Onward
  BY <1>3, <1>7 DEF Heartbeat
<1>8. ASSUME Lapse PROVE Onward
  BY <1>3, <1>8 DEF Lapse
<1>9. ASSUME DeviceLost PROVE Onward
  BY <1>3, <1>9 DEF DeviceLost
<1>10. ASSUME UNCHANGED taskVars PROVE Onward
  BY <1>3, <1>10 DEF taskVars
<1>. QED BY <1>0, <1>1, <1>4, <1>5, <1>6, <1>7, <1>8, <1>9, <1>10 DEF Continues

\* A claim that the server accepts.
LEMMA ClaimBegins ==
    ASSUME LeaseInv, NEW e \in Executions, NEW t \in Tokens, NEW v, Claim(e, t, v)
    PROVE  /\ [TaskNext]_taskVars /\ LeaseInv'
           /\ v = task.version /\ task.version \in Nat /\ task'.version = task.version + 1
           /\ task'.exec = e /\ task'.token = t
           /\ fate[e] = "unused" /\ fate' = [fate EXCEPT ![e] = "running"]
<1>1. v = task.version
  BY DEF Claim, Current
<1>2. [TaskNext]_taskVars
  BY <1>1 DEF TaskNext
<1>3. LeaseInv'
  BY <1>2, StepInv
<1>. DEFINE row == [Cleared(task) EXCEPT !.status = "running", !.exec = e, !.token = t,
                                         !.lease = "live"]
<1>4. task \in Row /\ task.version \in Nat
  BY DEF LeaseInv, TaskTypeOK, Row
<1>5. row \in Row /\ row.status = "running" /\ row.exec = e /\ row.token = t
  BY <1>4 DEF Row, Cleared, Status, Active
<1>6. Commit(row) /\ fate[e] = "unused" /\ fate' = [fate EXCEPT ![e] = "running"]
  BY DEF Claim
<1>. HIDE DEF row
<1>7. task'.version = task.version + 1 /\ Committed(row)
  BY <1>4, <1>5, <1>6, CommitVersion, CommitRow
<1>. QED BY <1>1, <1>2, <1>3, <1>4, <1>5, <1>6, <1>7 DEF Committed, Terminal

-----------------------------------------------------------------------------
(* Steps of one client. *)

Learned(c, r, g, new) ==
    /\ \A f \in Flows : g[f].op \in FlowOps[f] \cup {"none"} /\ WellCredited(g[f])
    /\ r.run = "claiming" => g["run"].op = "claim"
    /\ r.pending \in ClaimsOf(c) \cup {NoClaim, new}
    /\ g["run"].op = "claim" => ClaimOf(g["run"]) \in ClaimsOf(c) \cup {NoClaim, new}
    /\ \/ r.lease \in {client[c].lease, NoCredential}
       \/ /\ call[c]["run"].op = "claim" /\ call[c]["run"].answer.ok
          /\ r.lease = call[c]["run"].answer.cred
    /\ LET q == g["run"] IN
       q.op = "claim" /\ q.answer.ok => Genuine(q.answer.cred) /\ q.answer.cred.token = q.cred.token

\* A client remembers r and awaits g afterwards.
LEMMA LocalInv ==
    ASSUME LeaseInv, ClientsInv, Continues, origin' = origin,
           NEW c \in Clients, NEW r \in ClientRecord, NEW g \in [Flows -> RequestRecord],
           client' = [client EXCEPT ![c] = r], call' = [call EXCEPT ![c] = g],
           \A q \in late' : Requested(q),
           used' \in UsedRecord, used.tokens \subseteq used'.tokens,
           NEW new \in ClaimRecord, new = NoClaim \/ new.token \in used'.tokens \ used.tokens,
           Learned(c, r, g, new)
    PROVE  [TaskNext]_taskVars /\ LeaseInv' /\ ClientsInv'
<1>1. Onward /\ [TaskNext]_taskVars /\ LeaseInv'
  BY ContinuesOnward
<1>2. /\ client \in [Clients -> ClientRecord]
      /\ call \in [Clients -> [Flows -> RequestRecord]]
      /\ ClientsShape /\ OriginsOK
  BY DEF ClientsInv, ClientsShape
<1>3. client' \in [Clients -> ClientRecord] /\ call' \in [Clients -> [Flows -> RequestRecord]]
  BY <1>2
<1>4. client'[c] = r /\ call'[c] = g
  BY <1>2
<1>5. Learns(c, new)
  <2>1. ClaimsOf(c)' \subseteq ClaimsOf(c) \cup {NoClaim, new}
    BY <1>4, MembersNext DEF Learned
  <2>. QED BY <1>4, <2>1 DEF Learned, Learns
<1>6. ASSUME NEW d \in Clients, d # c PROVE Learns(d, NoClaim)
  <2>1. client'[d] = client[d] /\ call'[d] = call[d]
    BY <1>2, <1>6
  <2>2. ClaimsOf(d)' \subseteq ClaimsOf(d)
    BY <2>1, MembersNext, ClaimsMembers
  <2>3. \A f \in Flows : call[d][f].op \in FlowOps[f] \cup {"none"} /\ WellCredited(call[d][f])
    BY <1>2 DEF ClientsShape
  <2>4. client[d].run = "claiming" => call[d]["run"].op = "claim"
    BY <1>2 DEF ClientsShape
  <2>5. LET q == call[d]["run"] IN
        q.op = "claim" /\ q.answer.ok => Genuine(q.answer.cred) /\ q.answer.cred.token = q.cred.token
    BY <1>2 DEF OriginsOK
  <2>. QED BY <2>1, <2>2, <2>3, <2>4, <2>5 DEF Learns
<1>7. \A d \in Clients : Learns(d, IF d = c THEN new ELSE NoClaim)
  BY <1>5, <1>6
<1>8. ClientsInv'
  BY <1>1, <1>3, <1>7, LearnsInv
<1>. QED BY <1>1, <1>8

\* A step of the run: it remembers r and awaits q.
LEMMA RunInv ==
    ASSUME LeaseInv, ClientsInv, Continues, origin' = origin,
           NEW c \in Clients, NEW r \in ClientRecord, NEW q \in RequestRecord,
           Remember(c, r), Send(c, "run", q),
           \A p \in late' : Requested(p),
           used' \in UsedRecord, used.tokens \subseteq used'.tokens,
           NEW new \in ClaimRecord, new = NoClaim \/ new.token \in used'.tokens \ used.tokens,
           q.op \in {"none", "claim", "complete", "fail"}, WellCredited(q),
           r.run = "claiming" => q.op = "claim",
           r.pending \in ClaimsOf(c) \cup {NoClaim, new},
           q.op = "claim" => ClaimOf(q) \in ClaimsOf(c) \cup {NoClaim, new} /\ ~q.answer.ok,
           \/ r.lease \in {client[c].lease, NoCredential}
           \/ /\ call[c]["run"].op = "claim" /\ call[c]["run"].answer.ok
              /\ r.lease = call[c]["run"].answer.cred
    PROVE  [TaskNext]_taskVars /\ LeaseInv' /\ ClientsInv'
<1>. DEFINE g == [call[c] EXCEPT !["run"] = q]
<1>1. call[c] \in [Flows -> RequestRecord] /\ call \in [Clients -> [Flows -> RequestRecord]]
  BY DEF ClientsInv, ClientsShape
<1>2. g \in [Flows -> RequestRecord] /\ g["run"] = q
  BY <1>1 DEF Flows
<1>3. call' = [call EXCEPT ![c] = g] /\ client' = [client EXCEPT ![c] = r]
  BY <1>1 DEF Send, Remember
<1>4. \A f \in Flows : g[f].op \in FlowOps[f] \cup {"none"} /\ WellCredited(g[f])
  BY <1>1 DEF ClientsInv, ClientsShape, FlowOps, Flows
<1>. HIDE DEF g
<1>5. Learned(c, r, g, new)
  BY <1>2, <1>4 DEF Learned
<1>. QED BY <1>2, <1>3, <1>5, LocalInv

\* Any other step of a client: it forgets, and awaits g, with the same run.
LEMMA OtherInv ==
    ASSUME LeaseInv, ClientsInv, Continues, origin' = origin,
           NEW c \in Clients, NEW r \in ClientRecord, NEW g \in [Flows -> RequestRecord],
           Remember(c, r), call' = [call EXCEPT ![c] = g],
           \A p \in late' : Requested(p),
           used' \in UsedRecord, used'.tokens = used.tokens,
           \A f \in Flows : g[f] = call[c][f] \/ (/\ g[f].op \in (FlowOps[f] \cup {"none"}) \ {"claim"}
                                                  /\ WellCredited(g[f])),
           r.run = "claiming" => client[c].run = "claiming" /\ g["run"] = call[c]["run"],
           r.pending \in {client[c].pending, NoClaim},
           r.lease \in {client[c].lease, NoCredential}
    PROVE  [TaskNext]_taskVars /\ LeaseInv' /\ ClientsInv'
<1>1. ClientsShape /\ OriginsOK /\ NoClaim \in ClaimRecord
  BY Constants DEF ClientsInv
<1>2. \A f \in Flows : g[f].op \in FlowOps[f] \cup {"none"} /\ WellCredited(g[f])
  BY <1>1 DEF ClientsShape
<1>3. g["run"].op = "claim" => g["run"] = call[c]["run"]
  BY DEF Flows
<1>4. client[c].pending \in ClaimsOf(c)
  BY ClaimsMembers
<1>5. call[c]["run"].op = "claim" => ClaimOf(call[c]["run"]) \in ClaimsOf(c)
  BY ClaimsMembers
<1>6. client[c].run = "claiming" => call[c]["run"].op = "claim"
  BY <1>1 DEF ClientsShape
<1>7. Learned(c, r, g, NoClaim)
  BY <1>1, <1>2, <1>3, <1>4, <1>5, <1>6 DEF Learned, OriginsOK
<1>. QED BY <1>1, <1>7, LocalInv DEF Remember

-----------------------------------------------------------------------------
(* What the actions are built from. *)

LEMMA Shapes ==
    ASSUME LeaseInv, ClientsInv, NEW c \in Clients
    PROVE  /\ client[c] \in ClientRecord /\ call[c] \in [Flows -> RequestRecord]
           /\ \A f \in Flows : call[c][f] \in RequestRecord
           /\ Remember(c, client[c]) <=> client' = client
           /\ call = [call EXCEPT ![c] = call[c]]
           /\ used \in UsedRecord /\ task \in Row
           /\ \A q \in late : Requested(q)
           /\ \A f \in Flows : Requested(call[c][f])
BY DEF ClientsInv, ClientsShape, LeaseInv, TaskTypeOK, Remember, Requested

LEMMA NoCallShape ==
    NoCall \in RequestRecord /\ NoCall.op = "none" /\ WellCredited(NoCall)
<1>1. NoAnswer \in AnswerRecord
  BY Constants DEF NoAnswer, AnswerRecord
<1>. QED BY <1>1, Constants DEF NoCall, RequestRecord, WellCredited

LEMMA RequestShape ==
    ASSUME task \in Row,
           NEW op \in {"claim", "complete", "fail", "list", "heartbeat", "cancel"},
           NEW v \in Nat, NEW cred \in AnyCredential
    PROVE  LET q == Request(op, v, cred) IN
           /\ q \in RequestRecord /\ q.op = op /\ q.version = v /\ q.cred = cred /\ ~q.answer.ok
<1>1. NoAnswer \in AnswerRecord /\ ~NoAnswer.ok
  BY Constants DEF NoAnswer, AnswerRecord
<1>2. task.version \in Nat
  BY DEF Row
<1>. QED BY <1>1, <1>2 DEF Request, RequestRecord

LEMMA SendShape ==
    ASSUME LeaseInv, ClientsInv, NEW c \in Clients, NEW f \in Flows, NEW q \in RequestRecord, Send(c, f, q)
    PROVE  /\ [call[c] EXCEPT ![f] = q] \in [Flows -> RequestRecord]
           /\ call' = [call EXCEPT ![c] = [call[c] EXCEPT ![f] = q]]
BY Shapes DEF Send

\* What becomes of a client's record keeps it a record.
LEMMA RecordShapes ==
    ASSUME NEW r \in ClientRecord
    PROVE  /\ Ended(r) \in ClientRecord /\ Ended(r).run = "idle"
           /\ Ended(r).pending = r.pending /\ Ended(r).lease = r.lease
           /\ Forgotten(r) \in ClientRecord /\ Forgotten(r).run = r.run
           /\ Forgotten(r).pending = NoClaim /\ Forgotten(r).lease = NoCredential
           /\ Stopped(r) \in ClientRecord /\ Stopped(r).run = r.run
           /\ Stopped(r).pending = r.pending /\ Stopped(r).lease = r.lease
           /\ \A row \in ViewRecord :
                 /\ Shown(r, row) \in ClientRecord /\ Shown(r, row).run = r.run
                 /\ Shown(r, row).pending = r.pending /\ Shown(r, row).lease = r.lease
<1>1. /\ Ended(r) \in ClientRecord /\ Ended(r).run = "idle"
      /\ Ended(r).pending = r.pending /\ Ended(r).lease = r.lease
  BY Constants DEF Ended, ClientRecord, Runs
<1>2. /\ Forgotten(r) \in ClientRecord /\ Forgotten(r).run = r.run
      /\ Forgotten(r).pending = NoClaim /\ Forgotten(r).lease = NoCredential
  BY Constants DEF Forgotten, ClientRecord
<1>3. /\ Stopped(r) \in ClientRecord /\ Stopped(r).run = r.run
      /\ Stopped(r).pending = r.pending /\ Stopped(r).lease = r.lease
  BY DEF Stopped, ClientRecord
<1>4. ASSUME NEW row \in ViewRecord
      PROVE  /\ Shown(r, row) \in ClientRecord /\ Shown(r, row).run = r.run
             /\ Shown(r, row).pending = r.pending /\ Shown(r, row).lease = r.lease
  BY <1>4 DEF Shown, ClientRecord
<1>. QED BY <1>1, <1>2, <1>3, <1>4

LEMMA FreshShape ==
    Fresh \in ClientRecord /\ Fresh.run = "idle" /\ Fresh.pending = NoClaim /\ Fresh.lease = NoCredential
BY Constants DEF Fresh, ClientRecord, Runs

\* Serving nobody's task row is a step of the task that changes nothing.
LEMMA QuietContinues ==
    ASSUME LeaseInv, task' = task, fate' = fate, deviceSeen' \in {TRUE, deviceSeen}
    PROVE  Continues
<1>1. deviceSeen' = deviceSeen => UNCHANGED taskVars
  BY DEF taskVars
<1>2. deviceSeen' = TRUE => Heartbeat(NoCredential)
  BY DEF Heartbeat
<1>. QED BY <1>1, <1>2 DEF Continues

-----------------------------------------------------------------------------
(* The run. *)

\* A claim that is sent is the pending one, or has just been drawn.
LEMMA SendClaimInv ==
    ASSUME LeaseInv, ClientsInv, Continues, origin' = origin, late' = late,
           NEW c \in Clients, SendClaim(c)
    PROVE  [TaskNext]_taskVars /\ LeaseInv' /\ ClientsInv'
<1>. DEFINE r == client[c]
<1>1. /\ r \in ClientRecord /\ used \in UsedRecord /\ task \in Row
      /\ \A q \in late : Requested(q)
  BY Shapes
<1>2. ASSUME NEW claim \in ClaimRecord, claim.token \in Tokens
      PROVE  LET q == Request("claim", claim.version, [exec |-> None, token |-> claim.token]) IN
             /\ q \in RequestRecord /\ q.op = "claim" /\ WellCredited(q) /\ ClaimOf(q) = claim
             /\ ~q.answer.ok
  <2>1. claim.version \in Nat /\ [exec |-> None, token |-> claim.token] \in AnyCredential
    BY <1>2 DEF ClaimRecord, AnyCredential
  <2>2. claim = [token |-> claim.token, version |-> claim.version]
    BY DEF ClaimRecord
  <2>. QED BY <1>1, <1>2, <2>1, <2>2, RequestShape DEF WellCredited, ClaimOf
<1>3. ASSUME NEW claim \in ClaimRecord
      PROVE  LET s == [r EXCEPT !.pending = claim, !.run = "claiming", !.at = r.seen] IN
             /\ s \in ClientRecord /\ s.run = "claiming" /\ s.pending = claim /\ s.lease = r.lease
  BY <1>1 DEF ClientRecord, Runs
<1>4. CASE KeepsClaim(r) /\ used' = used
      /\ Remember(c, [r EXCEPT !.pending = r.pending, !.run = "claiming", !.at = r.seen])
      /\ Send(c, "run", Request("claim", r.pending.version, [exec |-> None, token |-> r.pending.token]))
  <2>1. r.pending \in ClaimRecord /\ r.pending # NoClaim /\ r.pending \in ClaimsOf(c)
    BY <1>1, <1>4, ClaimsMembers DEF KeepsClaim, ClientRecord
  <2>2. r.pending.token \in Tokens
    <3>1. r.pending \in Known /\ NoClaim \in Known
      BY <2>1, KnownMembers
    <3>. QED BY <2>1, <3>1, Constants DEF ClientsInv, ClaimsDrawn, ClaimRecord
  <2>. DEFINE s == [r EXCEPT !.pending = r.pending, !.run = "claiming", !.at = r.seen]
              q == Request("claim", r.pending.version, [exec |-> None, token |-> r.pending.token])
  <2>3. s \in ClientRecord /\ s.run = "claiming" /\ s.pending = r.pending /\ s.lease = r.lease
    BY <1>3, <2>1
  <2>4. /\ q \in RequestRecord /\ q.op = "claim" /\ WellCredited(q) /\ ClaimOf(q) = r.pending
        /\ ~q.answer.ok
    BY <1>2, <2>1, <2>2
  <2>5. Remember(c, s) /\ Send(c, "run", q) /\ used' = used
    BY <1>4
  <2>. HIDE DEF s, q
  <2>. QED BY <1>1, <2>1, <2>3, <2>4, <2>5, RunInv, Constants
<1>5. ASSUME NEW t \in Tokens \ used.tokens, used' = [used EXCEPT !.tokens = @ \cup {t}],
             Remember(c, [r EXCEPT !.pending = [token |-> t, version |-> r.seen.version],
                                   !.run = "claiming", !.at = r.seen]),
             Send(c, "run", Request("claim", r.seen.version, [exec |-> None, token |-> t]))
      PROVE  [TaskNext]_taskVars /\ LeaseInv' /\ ClientsInv'
  <2>. DEFINE new == [token |-> t, version |-> r.seen.version]
              s == [r EXCEPT !.pending = new, !.run = "claiming", !.at = r.seen]
              q == Request("claim", new.version, [exec |-> None, token |-> new.token])
  <2>1. new \in ClaimRecord /\ new.token \in Tokens /\ new.token = t
    BY <1>1 DEF ClientRecord, ViewRecord, ClaimRecord
  <2>2. used' \in UsedRecord /\ used.tokens \subseteq used'.tokens /\ new.token \in used'.tokens \ used.tokens
    BY <1>1, <1>5, <2>1 DEF UsedRecord
  <2>3. s \in ClientRecord /\ s.run = "claiming" /\ s.pending = new /\ s.lease = r.lease
    BY <1>3, <2>1
  <2>4. /\ q \in RequestRecord /\ q.op = "claim" /\ WellCredited(q) /\ ClaimOf(q) = new
        /\ ~q.answer.ok
    BY <1>2, <2>1
  <2>5. Remember(c, s) /\ Send(c, "run", q)
    BY <1>5
  <2>. HIDE DEF s, q, new
  <2>. QED BY <1>1, <2>1, <2>2, <2>3, <2>4, <2>5, RunInv
<1>. QED BY <1>4, <1>5 DEF SendClaim

\* A report carries the lease of the run.
LEMMA SendReportInv ==
    ASSUME LeaseInv, ClientsInv, Continues, origin' = origin, NEW c \in Clients,
           \A p \in late' : Requested(p), used' \in UsedRecord, used'.tokens = used.tokens,
           NEW op \in {"complete", "fail"}, NEW run \in {"completing", "failing"},
           NEW r \in ClientRecord, SendReport(c, op, run, r),
           r.pending \in {client[c].pending, NoClaim}, r.lease \in {client[c].lease, NoCredential}
    PROVE  [TaskNext]_taskVars /\ LeaseInv' /\ ClientsInv'
<1>. DEFINE s == [r EXCEPT !.run = run]
            q == Request(op, r.at.version, r.lease)
<1>1. s \in ClientRecord /\ s.run = run /\ s.pending = r.pending /\ s.lease = r.lease
  BY DEF ClientRecord, Runs
<1>2. r.at.version \in Nat /\ r.lease \in Credential \cup {NoCredential}
  BY DEF ClientRecord, ViewRecord
<1>3. q \in RequestRecord /\ q.op = op /\ WellCredited(q)
  BY <1>2, RequestShape, Shapes, Constants DEF WellCredited
<1>4. Remember(c, s) /\ Send(c, "run", q)
  BY DEF SendReport
<1>5. client[c].pending \in ClaimsOf(c)
  BY ClaimsMembers
<1>. HIDE DEF s, q
<1>. QED BY <1>1, <1>3, <1>4, <1>5, RunInv, Constants

\* The run stops awaiting anything.
LEMMA RunRestsInv ==
    ASSUME LeaseInv, ClientsInv, Continues, origin' = origin, NEW c \in Clients,
           \A p \in late' : Requested(p), used' \in UsedRecord, used'.tokens = used.tokens,
           NEW r \in ClientRecord, Remember(c, r), Send(c, "run", NoCall), r.run # "claiming",
           r.pending \in {client[c].pending, NoClaim},
           \/ r.lease \in {client[c].lease, NoCredential}
           \/ /\ call[c]["run"].op = "claim" /\ call[c]["run"].answer.ok
              /\ r.lease = call[c]["run"].answer.cred
    PROVE  [TaskNext]_taskVars /\ LeaseInv' /\ ClientsInv'
<1>1. client[c].pending \in ClaimsOf(c)
  BY ClaimsMembers
<1>. QED BY <1>1, NoCallShape, RunInv, Constants

LEMMA RunFailedInv ==
    ASSUME LeaseInv, ClientsInv, Continues, origin' = origin, NEW c \in Clients,
           \A p \in late' : Requested(p), used' \in UsedRecord, used'.tokens = used.tokens,
           NEW r \in ClientRecord, RunFailed(c, r),
           r.pending \in {client[c].pending, NoClaim}, r.lease \in {client[c].lease, NoCredential}
    PROVE  [TaskNext]_taskVars /\ LeaseInv' /\ ClientsInv'
<1>1. CASE SendReport(c, "fail", "failing", r)
  BY <1>1, SendReportInv
<1>2. CASE Remember(c, Ended(r)) /\ Send(c, "run", NoCall)
  BY <1>2, RunRestsInv, RecordShapes
<1>. QED BY <1>1, <1>2 DEF RunFailed

\* The calls of a client that sends nothing are as they were.
LEMMA RestInv ==
    ASSUME LeaseInv, ClientsInv, Continues, origin' = origin, NEW c \in Clients,
           call' = call, late' = late, used' \in UsedRecord, used'.tokens = used.tokens,
           NEW r \in ClientRecord, Remember(c, r),
           r.run = "claiming" => client[c].run = "claiming",
           r.pending \in {client[c].pending, NoClaim}, r.lease \in {client[c].lease, NoCredential}
    PROVE  [TaskNext]_taskVars /\ LeaseInv' /\ ClientsInv'
<1>. DEFINE g == call[c]
<1>1. g \in [Flows -> RequestRecord] /\ call' = [call EXCEPT ![c] = g] /\ \A p \in late' : Requested(p)
  BY Shapes
<1>2. \A f \in Flows : g[f] = call[c][f]
  OBVIOUS
<1>3. g["run"] = call[c]["run"]
  OBVIOUS
<1>. HIDE DEF g
<1>. QED BY <1>1, <1>2, <1>3, OtherInv

\* A request or an answer of another flow.
LEMMA FlowInv ==
    ASSUME LeaseInv, ClientsInv, Continues, origin' = origin, NEW c \in Clients,
           \A p \in late' : Requested(p), used' \in UsedRecord, used'.tokens = used.tokens,
           NEW r \in ClientRecord, Remember(c, r), r.run = client[c].run,
           r.pending \in {client[c].pending, NoClaim}, r.lease \in {client[c].lease, NoCredential},
           NEW f \in {"sync", "cancel"}, NEW q \in RequestRecord, Send(c, f, q),
           q.op \in FlowOps[f] \cup {"none"}, WellCredited(q)
    PROVE  [TaskNext]_taskVars /\ LeaseInv' /\ ClientsInv'
<1>. DEFINE g == [call[c] EXCEPT ![f] = q]
<1>0. f \in Flows /\ "run" \in Flows /\ f # "run" /\ q.op # "claim"
  BY DEF Flows, FlowOps
<1>1. g \in [Flows -> RequestRecord] /\ call' = [call EXCEPT ![c] = g]
  BY <1>0, SendShape
<1>2. \A h \in Flows : g[h] = IF h = f THEN q ELSE call[c][h]
  BY Shapes
<1>3. g["run"] = call[c]["run"]
  BY <1>0, <1>2
<1>4. \A h \in Flows : g[h] = call[c][h] \/ (/\ g[h].op \in (FlowOps[h] \cup {"none"}) \ {"claim"}
                                             /\ WellCredited(g[h]))
  BY <1>0, <1>2
<1>. HIDE DEF g
<1>. QED BY <1>1, <1>3, <1>4, OtherInv

LEMMA StartRunInv ==
    ASSUME LeaseInv, ClientsInv, NEW c \in Clients, StartRun(c)
    PROVE  [TaskNext]_taskVars /\ LeaseInv' /\ ClientsInv'
<1>1. task' = task /\ fate' = fate /\ late' = late /\ origin' = origin /\ deviceSeen' = TRUE
  BY DEF StartRun
<1>2. Continues
  BY <1>1, QuietContinues
<1>3. CASE SendClaim(c)
  BY <1>1, <1>2, <1>3, SendClaimInv
<1>. DEFINE r == [client[c] EXCEPT !.run = "working", !.at = client[c].seen,
                              !.exec = IF c \in CodeClients THEN client[c].lease.exec ELSE None]
<1>4. CASE Remember(c, r) /\ call' = call /\ used' = used
  <2>1. client[c] \in ClientRecord /\ used \in UsedRecord
    BY Shapes
  <2>2. client[c].lease.exec \in Executions \cup {None}
    BY <2>1, Constants DEF ClientRecord, Credential
  <2>3. r \in ClientRecord /\ r.run = "working" /\ r.pending = client[c].pending /\ r.lease = client[c].lease
    BY <2>1, <2>2 DEF ClientRecord, Runs
  <2>. HIDE DEF r
  <2>. QED BY <1>1, <1>2, <1>4, <2>1, <2>3, RestInv
<1>. QED BY <1>3, <1>4 DEF StartRun

LEMMA WorkInv ==
    ASSUME LeaseInv, ClientsInv, NEW c \in Clients, FinishWork(c) \/ AbortWork(c)
    PROVE  [TaskNext]_taskVars /\ LeaseInv' /\ ClientsInv'
<1>1. /\ task' = task /\ fate' = fate /\ late' = late /\ origin' = origin /\ deviceSeen' = deviceSeen
      /\ used' = used
  BY DEF FinishWork, AbortWork, serverVars
<1>2. Continues
  BY <1>1, QuietContinues
<1>3. client[c] \in ClientRecord /\ used' \in UsedRecord /\ \A p \in late' : Requested(p)
  BY <1>1, Shapes
<1>4. CASE FinishWork(c)
  BY <1>1, <1>2, <1>3, <1>4, SendReportInv DEF FinishWork
<1>5. CASE AbortWork(c)
  BY <1>1, <1>2, <1>3, <1>5, RestInv, RecordShapes DEF AbortWork
<1>. QED BY <1>4, <1>5

\* The answer of a claim is a lease.
LEMMA RunAnsweredInv ==
    ASSUME LeaseInv, ClientsInv, NEW c \in Clients, RunAnswered(c)
    PROVE  [TaskNext]_taskVars /\ LeaseInv' /\ ClientsInv'
<1>. DEFINE r == client[c]
            a == call[c]["run"].answer
            known == [r EXCEPT !.pending = NoClaim, !.seen = a.row]
<1>1. /\ task' = task /\ fate' = fate /\ late' = late /\ origin' = origin /\ deviceSeen' = deviceSeen
      /\ used' = used
  BY DEF RunAnswered, serverVars
<1>2. Continues
  BY <1>1, QuietContinues
<1>3. r \in ClientRecord /\ used' \in UsedRecord /\ \A p \in late' : Requested(p)
  BY <1>1, Shapes
<1>4. call[c]["run"] \in RequestRecord /\ a \in AnswerRecord
  BY Shapes DEF Flows, RequestRecord
<1>5. known \in ClientRecord /\ known.pending = NoClaim /\ known.lease = r.lease
  BY <1>3, <1>4, Constants DEF ClientRecord, AnswerRecord
<1>6. r.run = "claiming" => call[c]["run"].op = "claim"
  BY DEF ClientsInv, ClientsShape
<1>7. CASE a.ok /\ r.run = "claiming" /\ Send(c, "run", NoCall)
           /\ Remember(c, IF r.stopped THEN Ended([known EXCEPT !.lease = a.cred])
                          ELSE [known EXCEPT !.lease = a.cred, !.run = "working", !.at = a.row,
                                  !.exec = IF c \in CodeClients THEN a.cred.exec ELSE None])
  <2>1. a.cred \in Credential
    <3>1. Genuine(a.cred)
      BY <1>6, <1>7 DEF ClientsInv, OriginsOK
    <3>2. a.cred \in AnyCredential
      BY <1>4 DEF AnswerRecord
    <3>. QED BY <3>1, <3>2 DEF Genuine, AnyCredential, Credential
  <2>. DEFINE s == [known EXCEPT !.lease = a.cred]
              t == [known EXCEPT !.lease = a.cred, !.run = "working", !.at = a.row,
                                 !.exec = IF c \in CodeClients THEN a.cred.exec ELSE None]
  <2>. HIDE DEF known
  <2>2. s \in ClientRecord /\ s.pending = NoClaim /\ s.lease = a.cred
    BY <1>5, <2>1 DEF ClientRecord
  <2>3. t \in ClientRecord /\ t.pending = NoClaim /\ t.lease = a.cred /\ t.run = "working"
    BY <1>4, <1>5, <2>1 DEF ClientRecord, Credential, AnswerRecord, Runs
  <2>4. Send(c, "run", NoCall) /\ (Remember(c, Ended(s)) \/ Remember(c, t))
    BY <1>7
  <2>5. call[c]["run"].op = "claim" /\ call[c]["run"].answer.ok
    BY <1>6, <1>7
  <2>. HIDE DEF s, t
  <2>6. CASE Remember(c, Ended(s))
    BY <1>1, <1>2, <1>3, <2>2, <2>4, <2>5, <2>6, RunRestsInv, RecordShapes
  <2>7. CASE Remember(c, t)
    BY <1>1, <1>2, <1>3, <2>3, <2>4, <2>5, <2>7, RunRestsInv
  <2>. QED BY <2>4, <2>6, <2>7
<1>8. CASE Remember(c, Ended([known EXCEPT !.lease = NoCredential])) /\ Send(c, "run", NoCall)
  <2>. DEFINE s == [known EXCEPT !.lease = NoCredential]
  <2>. HIDE DEF known
  <2>1. s \in ClientRecord /\ s.pending = NoClaim /\ s.lease = NoCredential
    BY <1>5 DEF ClientRecord
  <2>2. Remember(c, Ended(s)) /\ Send(c, "run", NoCall)
    BY <1>8
  <2>. HIDE DEF s
  <2>. QED BY <1>1, <1>2, <1>3, <2>1, <2>2, RunRestsInv, RecordShapes
<1>9. CASE RunFailed(c, IF r.run = "claiming" THEN [r EXCEPT !.pending = NoClaim]
                        ELSE IF a.fatal THEN [r EXCEPT !.lease = NoCredential] ELSE r)
  <2>1. PICK s : /\ RunFailed(c, s)
                 /\ s \in {r, [r EXCEPT !.pending = NoClaim], [r EXCEPT !.lease = NoCredential]}
    BY <1>9
  <2>2. s \in ClientRecord /\ s.pending \in {r.pending, NoClaim} /\ s.lease \in {r.lease, NoCredential}
    BY <1>3, <2>1, Constants DEF ClientRecord
  <2>. QED BY <1>1, <1>2, <1>3, <2>1, <2>2, RunFailedInv
<1>. QED BY <1>7, <1>8, <1>9 DEF RunAnswered

-----------------------------------------------------------------------------
(* The synchronization, cancelling, losing and crashing. *)

LEMMA ListShape ==
    ASSUME LeaseInv
    PROVE  LET q == Request("list", 0, NoCredential) IN
           q \in RequestRecord /\ q.op = "list" /\ WellCredited(q)
<1>1. task \in Row /\ 0 \in Nat
  BY DEF LeaseInv, TaskTypeOK
<1>. DEFINE q == Request("list", 0, NoCredential)
<1>3. q \in RequestRecord /\ q.op = "list" /\ q.cred = NoCredential
  BY <1>1, RequestShape, Constants
<1>4. WellCredited(q)
  BY <1>3 DEF WellCredited
<1>. QED BY <1>3, <1>4

\* The synchronization asks for the list and the client remembers less.
LEMMA SendListInv ==
    ASSUME LeaseInv, ClientsInv, Continues, origin' = origin, NEW c \in Clients,
           \A p \in late' : Requested(p), used' \in UsedRecord, used'.tokens = used.tokens,
           NEW r \in ClientRecord, Remember(c, r), r.run = client[c].run, SendList(c),
           r.pending \in {client[c].pending, NoClaim}, r.lease \in {client[c].lease, NoCredential}
    PROVE  [TaskNext]_taskVars /\ LeaseInv' /\ ClientsInv'
<1>. DEFINE q == Request("list", 0, NoCredential)
<1>1. q \in RequestRecord /\ q.op \in FlowOps["sync"] \cup {"none"} /\ WellCredited(q)
  BY ListShape DEF FlowOps
<1>2. Send(c, "sync", q)
  BY DEF SendList
<1>. HIDE DEF q
<1>. QED BY <1>1, <1>2, FlowInv

LEMMA BeginSyncInv ==
    ASSUME LeaseInv, ClientsInv, NEW c \in Clients, BeginSync(c)
    PROVE  [TaskNext]_taskVars /\ LeaseInv' /\ ClientsInv'
<1>1. task' = task /\ fate' = fate /\ late' = late /\ origin' = origin /\ used' = used
  BY DEF BeginSync
<1>2. deviceSeen \in BOOLEAN
  BY DEF LeaseInv, TaskTypeOK
<1>3. deviceSeen' \in {TRUE, deviceSeen}
  BY <1>2 DEF BeginSync
<1>4. Continues
  BY <1>1, <1>3, QuietContinues
<1>5. client[c] \in ClientRecord /\ used' \in UsedRecord /\ \A p \in late' : Requested(p)
  BY <1>1, Shapes
<1>6. CASE HasLease(c) /\ Send(c, "sync", Request("heartbeat", 0, client[c].lease)) /\ client' = client
  <2>. DEFINE q == Request("heartbeat", 0, client[c].lease)
  <2>1. client[c].lease \in Credential \cup {NoCredential} /\ task \in Row /\ 0 \in Nat
    BY <1>5 DEF ClientRecord, LeaseInv, TaskTypeOK
  <2>2. q \in RequestRecord /\ q.op = "heartbeat" /\ q.cred = client[c].lease
    BY <2>1, RequestShape, Constants
  <2>3. Send(c, "sync", q) /\ Remember(c, client[c])
    BY <1>6, Shapes
  <2>. HIDE DEF q
  <2>4. q.op \in FlowOps["sync"] \cup {"none"} /\ WellCredited(q)
    BY <2>1, <2>2 DEF FlowOps, WellCredited
  <2>. QED BY <1>1, <1>4, <1>5, <2>2, <2>3, <2>4, FlowInv
<1>7. CASE Remember(c, Stopped(client[c])) /\ SendList(c)
  BY <1>1, <1>4, <1>5, <1>7, SendListInv, RecordShapes
<1>8. CASE client' = client /\ SendList(c)
  BY <1>1, <1>4, <1>5, <1>8, SendListInv, Shapes
<1>. QED BY <1>6, <1>7, <1>8 DEF BeginSync

LEMMA SyncAnsweredInv ==
    ASSUME LeaseInv, ClientsInv, NEW c \in Clients, HeartbeatAnswered(c) \/ ListAnswered(c)
    PROVE  [TaskNext]_taskVars /\ LeaseInv' /\ ClientsInv'
<1>. DEFINE q == call[c]["sync"]
<1>1. /\ task' = task /\ fate' = fate /\ late' = late /\ origin' = origin /\ deviceSeen' = deviceSeen
      /\ used' = used
  BY DEF HeartbeatAnswered, ListAnswered, serverVars
<1>2. Continues
  BY <1>1, QuietContinues
<1>3. client[c] \in ClientRecord /\ used' \in UsedRecord /\ \A p \in late' : Requested(p)
  BY <1>1, Shapes
<1>4. CASE HeartbeatAnswered(c)
  <2>. DEFINE r == Forgotten(client[c])
  <2>1. /\ r \in ClientRecord /\ r.run = client[c].run /\ r.pending = NoClaim /\ r.lease = NoCredential
        /\ Stopped(r) \in ClientRecord /\ Stopped(r).run = client[c].run
        /\ Stopped(r).pending = NoClaim /\ Stopped(r).lease = NoCredential
    BY <1>3, RecordShapes
  <2>2. SendList(c) /\ (Remember(c, client[c]) \/ Remember(c, r) \/ Remember(c, Stopped(r)))
    BY <1>4, Shapes DEF HeartbeatAnswered
  <2>. HIDE DEF r
  <2>3. PICK s \in {client[c], r, Stopped(r)} : Remember(c, s)
    BY <2>2
  <2>4. /\ s \in ClientRecord /\ s.run = client[c].run
        /\ s.pending \in {client[c].pending, NoClaim} /\ s.lease \in {client[c].lease, NoCredential}
    BY <1>3, <2>1
  <2>. QED BY <1>1, <1>2, <1>3, <2>2, <2>3, <2>4, SendListInv
<1>5. CASE ListAnswered(c)
  <2>. DEFINE row == q.answer.row
              active == row.status \in Active
              lease == IF active THEN client[c].lease ELSE NoCredential
              pending == IF active \/ client[c].pending.version = row.version THEN client[c].pending
                         ELSE NoClaim
              s == [client[c] EXCEPT !.lease = lease, !.pending = pending]
  <2>1. row \in ViewRecord
    BY Shapes DEF Flows, RequestRecord, AnswerRecord
  <2>2. lease \in {client[c].lease, NoCredential} /\ pending \in {client[c].pending, NoClaim}
    OBVIOUS
  <2>3. Remember(c, Shown(s, row)) /\ Send(c, "sync", NoCall)
    BY <1>5 DEF ListAnswered
  <2>. HIDE DEF row, lease, pending
  <2>4. s \in ClientRecord /\ s.run = client[c].run /\ s.lease = lease /\ s.pending = pending
    BY <1>3, <2>2, Constants DEF ClientRecord
  <2>. HIDE DEF s
  <2>5. /\ Shown(s, row) \in ClientRecord /\ Shown(s, row).run = client[c].run
        /\ Shown(s, row).pending \in {client[c].pending, NoClaim}
        /\ Shown(s, row).lease \in {client[c].lease, NoCredential}
    BY <2>1, <2>2, <2>4, RecordShapes
  <2>. QED BY <1>1, <1>2, <1>3, <2>3, <2>5, FlowInv, NoCallShape
<1>. QED BY <1>4, <1>5

LEMMA CancelInv ==
    ASSUME LeaseInv, ClientsInv, NEW c \in Clients, CancelTask(c) \/ CancelAnswered(c)
    PROVE  [TaskNext]_taskVars /\ LeaseInv' /\ ClientsInv'
<1>1. /\ task' = task /\ fate' = fate /\ late' = late /\ origin' = origin /\ deviceSeen' = deviceSeen
  BY DEF CancelTask, CancelAnswered, serverVars
<1>2. Continues
  BY <1>1, QuietContinues
<1>3. client[c] \in ClientRecord /\ used \in UsedRecord /\ \A p \in late' : Requested(p)
  BY <1>1, Shapes
<1>4. CASE CancelTask(c)
  <2>. DEFINE s == [client[c] EXCEPT !.stopped = client[c].run # "idle"]
              q == Request("cancel", client[c].seen.version, NoCredential)
  <2>1. used' \in UsedRecord /\ used'.tokens = used.tokens
    BY <1>3, <1>4 DEF CancelTask, UsedRecord
  <2>2. s \in ClientRecord /\ s.run = client[c].run /\ s.pending = client[c].pending /\ s.lease = client[c].lease
    BY <1>3 DEF ClientRecord
  <2>3. client[c].seen.version \in Nat /\ task \in Row
    BY <1>3 DEF ClientRecord, ViewRecord, LeaseInv, TaskTypeOK
  <2>4. q \in RequestRecord /\ q.op = "cancel" /\ q.cred = NoCredential
    BY <2>3, RequestShape, Constants
  <2>5. Remember(c, s) /\ Send(c, "cancel", q)
    BY <1>4 DEF CancelTask
  <2>. HIDE DEF s, q
  <2>6. q.op \in FlowOps["cancel"] \cup {"none"} /\ WellCredited(q)
    BY <2>4 DEF FlowOps, WellCredited
  <2>. QED BY <1>1, <1>2, <1>3, <2>1, <2>2, <2>4, <2>5, <2>6, FlowInv
<1>5. CASE CancelAnswered(c)
  <2>. DEFINE a == call[c]["cancel"].answer
              r == Forgotten(client[c])
  <2>1. a.row \in ViewRecord
    BY Shapes DEF Flows, RequestRecord, AnswerRecord
  <2>0. r \in ClientRecord /\ r.run = client[c].run /\ r.pending = NoClaim /\ r.lease = NoCredential
    BY <1>3, RecordShapes
  <2>3. Send(c, "cancel", NoCall) /\ (Remember(c, client[c]) \/ Remember(c, Shown(r, a.row)))
    BY <1>5 DEF CancelAnswered
  <2>4. used' = used
    BY <1>5 DEF CancelAnswered
  <2>. HIDE DEF r, a
  <2>2. /\ Shown(r, a.row) \in ClientRecord /\ Shown(r, a.row).run = client[c].run
        /\ Shown(r, a.row).pending = NoClaim /\ Shown(r, a.row).lease = NoCredential
    BY <2>1, <2>0, RecordShapes
  <2>5. PICK s \in {client[c], Shown(r, a.row)} : Remember(c, s)
    BY <2>3
  <2>6. /\ s \in ClientRecord /\ s.run = client[c].run
        /\ s.pending \in {client[c].pending, NoClaim} /\ s.lease \in {client[c].lease, NoCredential}
    BY <1>3, <2>2
  <2>. QED BY <1>1, <1>2, <1>3, <2>3, <2>4, <2>5, <2>6, FlowInv, NoCallShape
<1>. QED BY <1>4, <1>5

\* A fault uses up one of the bounded faults and no token.
LEMMA FaultUses ==
    ASSUME used \in UsedRecord, Fault PROVE used' \in UsedRecord /\ used'.tokens = used.tokens
BY DEF Fault, UsedRecord

LEMMA LoseInv ==
    ASSUME LeaseInv, ClientsInv, NEW c \in Clients, NEW f \in Flows, Lose(c, f)
    PROVE  [TaskNext]_taskVars /\ LeaseInv' /\ ClientsInv'
<1>1. task' = task /\ fate' = fate /\ origin' = origin /\ deviceSeen' = deviceSeen
  BY DEF Lose, serverVars
<1>2. Continues
  BY <1>1, QuietContinues
<1>3. client[c] \in ClientRecord /\ used \in UsedRecord
  BY Shapes
<1>4. used' \in UsedRecord /\ used'.tokens = used.tokens
  BY <1>3, FaultUses DEF Lose
<1>5. \A p \in late' : Requested(p)
  BY Shapes DEF Lose
<1>6. CASE f = "run" /\ RunUnanswered(c)
  <2>. DEFINE r == client[c]
              q == Request("claim", call[c]["run"].version, call[c]["run"].cred)
              s == [r EXCEPT !.retried = TRUE]
  <2>0. r \in ClientRecord
    BY Shapes
  <2>1. CASE RunFailed(c, r)
    BY <1>1, <1>2, <1>4, <1>5, <2>0, <2>1, RunFailedInv
  <2>2. CASE r.run = "claiming" /\ Remember(c, s) /\ Send(c, "run", q)
    <3>1. s \in ClientRecord /\ s.run = r.run /\ s.pending = r.pending /\ s.lease = r.lease
      BY <2>0 DEF ClientRecord
    <3>2. /\ call[c]["run"].version \in Nat /\ call[c]["run"].cred \in AnyCredential
          /\ call[c]["run"].op = "claim" /\ call[c]["run"].cred.token \in Tokens
      BY <2>2, Shapes DEF Flows, RequestRecord, ClientsInv, ClientsShape, WellCredited
    <3>3. /\ q \in RequestRecord /\ q.op = "claim" /\ q.version = call[c]["run"].version
          /\ q.cred = call[c]["run"].cred /\ ~q.answer.ok
      BY <3>2, RequestShape, Shapes
    <3>4. r.pending \in ClaimsOf(c) /\ ClaimOf(call[c]["run"]) \in ClaimsOf(c)
      BY <3>2, ClaimsMembers
    <3>5. Remember(c, s) /\ Send(c, "run", q)
      BY <2>2
    <3>. HIDE DEF s, q
    <3>6. ClaimOf(q) \in ClaimsOf(c) /\ WellCredited(q)
      BY <3>2, <3>3, <3>4 DEF ClaimOf, WellCredited
    <3>. QED BY <1>1, <1>2, <1>4, <1>5, <3>1, <3>3, <3>4, <3>5, <3>6, RunInv, Constants
  <2>. QED BY <1>6, <2>1, <2>2 DEF RunUnanswered
<1>7. CASE f = "sync" /\ client' = client /\ SendList(c)
  BY <1>1, <1>2, <1>4, <1>5, <1>7, Shapes, SendListInv
<1>8. CASE f \in {"sync", "cancel"} /\ client' = client /\ Send(c, f, NoCall)
  BY <1>1, <1>2, <1>4, <1>5, <1>8, Shapes, FlowInv, NoCallShape
<1>. QED BY <1>6, <1>7, <1>8 DEF Lose

LEMMA CrashInv ==
    ASSUME LeaseInv, ClientsInv, NEW c \in Clients, Crash(c)
    PROVE  [TaskNext]_taskVars /\ LeaseInv' /\ ClientsInv'
<1>1. task' = task /\ fate' = fate /\ origin' = origin /\ deviceSeen' = deviceSeen
  BY DEF Crash, serverVars
<1>2. Continues
  BY <1>1, QuietContinues
<1>3. used' \in UsedRecord /\ used'.tokens = used.tokens
  BY Shapes, FaultUses DEF Crash
<1>4. \A p \in late' : Requested(p)
  BY Shapes DEF Crash
<1>. DEFINE g == [f \in Flows |-> NoCall]
<1>5. g \in [Flows -> RequestRecord] /\ \A f \in Flows : g[f] = NoCall
  BY NoCallShape
<1>6. Remember(c, Fresh) /\ call' = [call EXCEPT ![c] = g]
  BY DEF Crash
<1>. HIDE DEF g
<1>. QED BY <1>1, <1>2, <1>3, <1>4, <1>5, <1>6, OtherInv, NoCallShape, FreshShape

\* Steps of the task alone.
LEMMA TaskAloneInv ==
    ASSUME LeaseInv, ClientsInv, Continues, UNCHANGED <<client, call, late, origin>>,
           used' \in UsedRecord, used'.tokens = used.tokens
    PROVE  [TaskNext]_taskVars /\ LeaseInv' /\ ClientsInv'
<1>1. Onward /\ [TaskNext]_taskVars /\ LeaseInv'
  BY ContinuesOnward
<1>2. ClientsShape /\ OriginsOK /\ NoClaim \in ClaimRecord
  BY Constants DEF ClientsInv
<1>3. ASSUME NEW c \in Clients PROVE Learns(c, NoClaim)
  <2>1. ClaimsOf(c)' \subseteq ClaimsOf(c)
    BY MembersNext, ClaimsMembers
  <2>2. \A f \in Flows : call[c][f].op \in FlowOps[f] \cup {"none"} /\ WellCredited(call[c][f])
    BY <1>2 DEF ClientsShape
  <2>3. client[c].run = "claiming" => call[c]["run"].op = "claim"
    BY <1>2 DEF ClientsShape
  <2>4. LET q == call[c]["run"] IN
        q.op = "claim" /\ q.answer.ok => Genuine(q.answer.cred) /\ q.answer.cred.token = q.cred.token
    BY <1>2 DEF OriginsOK
  <2>. QED BY <2>1, <2>2, <2>3, <2>4 DEF Learns
<1>4. /\ client' \in [Clients -> ClientRecord] /\ call' \in [Clients -> [Flows -> RequestRecord]]
      /\ \A q \in late' : Requested(q)
  BY <1>2 DEF ClientsShape, Requested
<1>. QED BY <1>1, <1>2, <1>3, <1>4, LearnsInv

LEMMA KeepAliveInv ==
    ASSUME LeaseInv, ClientsInv, NEW c \in Clients, KeepAlive(c)
    PROVE  [TaskNext]_taskVars /\ LeaseInv' /\ ClientsInv'
<1>1. client[c].exec \in Executions /\ used \in UsedRecord
  BY Shapes DEF KeepAlive, ClientRecord
<1>2. Continues
  BY <1>1 DEF KeepAlive, Continues
<1>. QED BY <1>1, <1>2, TaskAloneInv DEF KeepAlive

LEMMA TimeInv ==
    ASSUME LeaseInv, ClientsInv, Time
    PROVE  [TaskNext]_taskVars /\ LeaseInv' /\ ClientsInv'
<1>1. used \in UsedRecord
  BY DEF ClientsInv, ClientsShape
<1>2. used' \in UsedRecord /\ used'.tokens = used.tokens
  BY <1>1, FaultUses DEF Time
<1>3. Continues
  BY DEF Time, Continues
<1>. QED BY <1>2, <1>3, TaskAloneInv DEF Time

-----------------------------------------------------------------------------
(* The server. *)

\* Only the answer of the request changes, or the request is no longer on its way.
Replied(q, to, a) ==
    \/ /\ to = Nobody /\ q \in late /\ late' = late \ {q} /\ call' = call
    \/ \E c \in Clients, f \in Flows :
          /\ call[c][f] = q /\ late' = late
          /\ call' = [call EXCEPT ![c] = [call[c] EXCEPT ![f] = Answered(q, a)]]

Addressed(q, to) ==
    \/ to = Nobody /\ q \in late
    \/ \E c \in Clients, f \in Flows : to = [client |-> c, flow |-> f] /\ call[c][f] = q

LEMMA ReplyReplies ==
    ASSUME LeaseInv, ClientsInv, NEW q, NEW to, Addressed(q, to), NEW a, Reply(q, to, a)
    PROVE  Replied(q, to, a)
<1>1. CASE to = Nobody
  <2>1. \A c \in Clients, f \in Flows : to # [client |-> c, flow |-> f]
    BY <1>1 DEF Nobody, Flows
  <2>. QED BY <1>1, <2>1 DEF Reply, Replied, Addressed
<1>2. ASSUME NEW c \in Clients, NEW f \in Flows, to = [client |-> c, flow |-> f], call[c][f] = q
      PROVE  Replied(q, to, a)
  <2>1. to # Nobody /\ to.client = c /\ to.flow = f
    BY <1>2 DEF Nobody, Flows
  <2>2. Send(c, f, Answered(q, a)) /\ late' = late
    BY <2>1 DEF Reply
  <2>3. call' = [call EXCEPT ![c] = [call[c] EXCEPT ![f] = Answered(q, a)]]
    BY <2>2 DEF Send, ClientsInv, ClientsShape
  <2>. QED BY <1>2, <2>2, <2>3 DEF Replied
<1>. QED BY <1>1, <1>2 DEF Addressed

LEMMA AnsweredShape ==
    ASSUME NEW q \in RequestRecord, NEW a \in AnswerRecord
    PROVE  LET p == Answered(q, a) IN
           /\ p \in RequestRecord /\ p.op = q.op /\ p.version = q.version /\ p.cred = q.cred
           /\ p.answer = a
BY DEF Answered, RequestRecord

\* An answer that shows no new execution.
LEMMA ReplyInv ==
    ASSUME LeaseInv, ClientsInv, Continues, origin' = origin, client' = client, used' = used,
           NEW q, NEW to, NEW a \in AnswerRecord, Replied(q, to, a),
           q.op = "claim" /\ a.ok => Genuine(a.cred) /\ a.cred.token = q.cred.token
    PROVE  [TaskNext]_taskVars /\ LeaseInv' /\ ClientsInv'
<1>0. used \in UsedRecord
  BY DEF ClientsInv, ClientsShape
<1>1. CASE to = Nobody /\ q \in late /\ late' = late \ {q} /\ call' = call
  <2>1. Onward /\ [TaskNext]_taskVars /\ LeaseInv'
    BY ContinuesOnward
  <2>2. \A c \in Clients : Learns(c, NoClaim)
    <3>. SUFFICES ASSUME NEW c \in Clients PROVE Learns(c, NoClaim)
      OBVIOUS
    <3>1. ClaimsOf(c)' \subseteq ClaimsOf(c)
      BY <1>1, MembersNext, ClaimsMembers
    <3>2. ClientsShape /\ OriginsOK
      BY DEF ClientsInv
    <3>3. \A f \in Flows : call'[c][f].op \in FlowOps[f] \cup {"none"} /\ WellCredited(call'[c][f])
      BY <1>1, <3>2 DEF ClientsShape
    <3>4. client'[c].run = "claiming" => call'[c]["run"].op = "claim"
      BY <1>1, <3>2 DEF ClientsShape
    <3>5. LET p == call'[c]["run"] IN
          p.op = "claim" /\ p.answer.ok => Genuine(p.answer.cred) /\ p.answer.cred.token = p.cred.token
      BY <1>1, <3>2 DEF OriginsOK
    <3>. QED BY <3>1, <3>3, <3>4, <3>5 DEF Learns
  <2>3. /\ client' \in [Clients -> ClientRecord] /\ call' \in [Clients -> [Flows -> RequestRecord]]
        /\ \A p \in late' : Requested(p)
    BY <1>1 DEF ClientsInv, ClientsShape, Requested
  <2>. QED BY <1>0, <2>1, <2>2, <2>3, LearnsInv, Constants
<1>2. ASSUME NEW c \in Clients, NEW f \in Flows, call[c][f] = q, late' = late,
             call' = [call EXCEPT ![c] = [call[c] EXCEPT ![f] = Answered(q, a)]]
      PROVE  [TaskNext]_taskVars /\ LeaseInv' /\ ClientsInv'
  <2>. DEFINE p == Answered(q, a)
              g == [call[c] EXCEPT ![f] = p]
  <2>1. q \in RequestRecord /\ client[c] \in ClientRecord /\ \A x \in late' : Requested(x)
    BY <1>2, Shapes
  <2>2. p \in RequestRecord /\ p.op = q.op /\ p.version = q.version /\ p.cred = q.cred /\ p.answer = a
    BY <2>1, AnsweredShape
  <2>. HIDE DEF p
  <2>3. g \in [Flows -> RequestRecord] /\ \A h \in Flows : g[h] = IF h = f THEN p ELSE call[c][h]
    BY <2>2, Shapes
  <2>4. client' = [client EXCEPT ![c] = client[c]] /\ call' = [call EXCEPT ![c] = g]
    BY <1>2 DEF ClientsInv, ClientsShape, p
  <2>. HIDE DEF g
  <2>5. \A h \in Flows : g[h].op = call[c][h].op /\ ClaimOf(g[h]) = ClaimOf(call[c][h])
                         /\ g[h].cred = call[c][h].cred
    BY <1>2, <2>2, <2>3 DEF ClaimOf
  <2>6. \A h \in Flows : g[h].op \in FlowOps[h] \cup {"none"} /\ WellCredited(g[h])
    BY <2>5 DEF ClientsInv, ClientsShape, WellCredited
  <2>7. "run" \in Flows
    BY DEF Flows
  <2>8. client[c].run = "claiming" => g["run"].op = "claim"
    BY <2>5, <2>7 DEF ClientsInv, ClientsShape
  <2>9. g["run"].op = "claim" => ClaimOf(g["run"]) \in ClaimsOf(c)
    BY <2>5, <2>7, ClaimsMembers
  <2>10. client[c].pending \in ClaimsOf(c)
    BY ClaimsMembers
  <2>11. g["run"].op = "claim" /\ g["run"].answer.ok =>
            Genuine(g["run"].answer.cred) /\ g["run"].answer.cred.token = g["run"].cred.token
    <3>1. CASE f = "run"
      BY <1>2, <2>2, <2>3, <2>7, <3>1
    <3>2. CASE f # "run"
      BY <2>3, <2>7, <3>2 DEF ClientsInv, OriginsOK
    <3>. QED BY <3>1, <3>2
  <2>12. Learned(c, client[c], g, NoClaim)
    BY <2>6, <2>8, <2>9, <2>10, <2>11 DEF Learned
  <2>. QED BY <1>0, <2>1, <2>3, <2>4, <2>12, LocalInv, Constants
<1>. QED BY <1>1, <1>2 DEF Replied

LEMMA AnswerShape ==
    ASSUME NEW row \in Row, row.exec = None <=> row.token = None
    PROVE  /\ Answer(row) \in AnswerRecord /\ Answer(row).ok
           /\ Answer(row).cred = [exec |-> row.exec, token |-> row.token]
           /\ View(row) \in ViewRecord
<1>1. View(row) \in ViewRecord
  BY DEF View, ViewRecord, Row
<1>2. [exec |-> row.exec, token |-> row.token] \in AnyCredential
  BY DEF AnyCredential, Row
<1>. QED BY <1>1, <1>2 DEF Answer, AnswerRecord

\* A claim that the server accepts becomes the origin of the execution.
LEMMA BeginInv ==
    ASSUME LeaseInv, ClientsInv, client' = client, used' = used,
           NEW q, NEW to, Requested(q), Addressed(q, to), q.op = "claim",
           NEW e \in Executions, Claim(e, q.cred.token, q.version), Began(e, q),
           Reply(q, to, Answer(task'))
    PROVE  [TaskNext]_taskVars /\ LeaseInv' /\ ClientsInv'
<1>. DEFINE x == ClaimOf(q)
            a == Answer(task')
<1>0. /\ ClientsShape /\ ClaimsDrawn /\ TokensOwned /\ OriginsOK /\ ClaimBeginsOnce
      /\ used \in UsedRecord /\ origin \in [Executions -> ClaimRecord]
      /\ client \in [Clients -> ClientRecord] /\ call \in [Clients -> [Flows -> RequestRecord]]
  BY DEF ClientsInv, ClientsShape
<1>1. q \in RequestRecord /\ WellCredited(q) /\ q.cred.token \in Tokens
  BY <1>0 DEF Requested, ClientsShape, WellCredited
<1>2. /\ [TaskNext]_taskVars /\ LeaseInv'
      /\ q.version = task.version /\ task.version \in Nat /\ task'.version = task.version + 1
      /\ task'.exec = e /\ task'.token = q.cred.token
      /\ fate[e] = "unused" /\ fate' = [fate EXCEPT ![e] = "running"]
  BY <1>1, ClaimBegins
<1>3. x \in ClaimRecord /\ x.token = q.cred.token /\ x.version = q.version /\ x \in Known
  BY <1>0, <1>1, RequestedKnown, ClaimRecords DEF ClaimOf
<1>4. origin' = [origin EXCEPT ![e] = x]
  BY DEF Began, ClaimOf
<1>5. origin[e].token = None
  BY <1>0, <1>2 DEF OriginsOK
<1>6. \A d \in Executions : origin[d].token # None => d # e /\ origin'[d] = origin[d]
  BY <1>0, <1>4, <1>5
<1>7. a \in AnswerRecord /\ a.ok /\ a.cred = [exec |-> e, token |-> q.cred.token]
  <2>1. task' \in Row
    BY <1>2 DEF LeaseInv, TaskTypeOK
  <2>2. e # None /\ q.cred.token # None
    BY <1>1, Constants
  <2>. QED BY <1>2, <2>1, <2>2, AnswerShape
<1>8. Replied(q, to, a)
  BY ReplyReplies
<1>. HIDE DEF a, x
<1>9. /\ call' \in [Clients -> [Flows -> RequestRecord]] /\ late' \subseteq late
      /\ \A c \in Clients : \A f \in Flows :
            /\ call'[c][f].op = call[c][f].op /\ call'[c][f].cred = call[c][f].cred
            /\ call'[c][f].version = call[c][f].version
            /\ call'[c][f].answer = call[c][f].answer \/ (call'[c][f].answer = a /\ call[c][f] = q)
  <2>1. CASE late' = late \ {q} /\ call' = call
    BY <1>0, <2>1
  <2>2. ASSUME NEW c \in Clients, NEW f \in Flows, call[c][f] = q, late' = late,
               call' = [call EXCEPT ![c] = [call[c] EXCEPT ![f] = Answered(q, a)]]
        PROVE  /\ call' \in [Clients -> [Flows -> RequestRecord]] /\ late' \subseteq late
               /\ \A d \in Clients : \A h \in Flows :
                     /\ call'[d][h].op = call[d][h].op /\ call'[d][h].cred = call[d][h].cred
                     /\ call'[d][h].version = call[d][h].version
                     /\ call'[d][h].answer = call[d][h].answer \/ (call'[d][h].answer = a /\ call[d][h] = q)
    <3>. DEFINE p == Answered(q, a)
    <3>1. p \in RequestRecord /\ p.op = q.op /\ p.version = q.version /\ p.cred = q.cred /\ p.answer = a
      BY <1>1, <1>7, AnsweredShape
    <3>2. call' = [call EXCEPT ![c] = [call[c] EXCEPT ![f] = p]]
      BY <2>2
    <3>. HIDE DEF p
    <3>3. call' \in [Clients -> [Flows -> RequestRecord]]
      BY <1>0, <3>1, <3>2
    <3>4. \A d \in Clients : \A h \in Flows :
             call'[d][h] = IF d = c /\ h = f THEN p ELSE call[d][h]
      BY <1>0, <3>2
    <3>. QED BY <2>2, <3>1, <3>3, <3>4
  <2>. QED BY <1>8, <2>1, <2>2 DEF Replied
<1>10. \A c \in Clients : ClaimsOf(c)' \subseteq ClaimsOf(c)
  <2>1. \A c \in Clients : ClaimOf(call'[c]["run"]) = ClaimOf(call[c]["run"]) /\ call'[c]["run"].op = call[c]["run"].op
    BY <1>9 DEF ClaimOf, Flows
  <2>. QED BY <2>1, MembersNext, ClaimsMembers
<1>11. ClientsShape'
  <2>1. origin' \in [Executions -> ClaimRecord]
    BY <1>0, <1>3, <1>4
  <2>2. \A c \in Clients : \A f \in Flows :
           call'[c][f].op \in FlowOps[f] \cup {"none"} /\ WellCredited(call'[c][f])
    BY <1>0, <1>9 DEF ClientsShape, WellCredited
  <2>3. \A c \in Clients : client'[c].run = "claiming" => call'[c]["run"].op = "claim"
    BY <1>0, <1>9 DEF ClientsShape, Flows
  <2>4. late' \subseteq RequestRecord /\ \A p \in late' : WellCredited(p)
    BY <1>0, <1>9 DEF ClientsShape
  <2>. QED BY <1>0, <1>9, <2>1, <2>2, <2>3, <2>4 DEF ClientsShape, WellCredited
<1>12. ClaimsDrawn'
  <2>1. \A d \in Executions : origin'[d] \in Known
    BY <1>0, <1>3, <1>4, KnownMembers
  <2>2. Known' \subseteq Known
    BY <1>9, <1>10, <2>1, MembersNext, KnownMembers
  <2>. QED BY <1>0, <2>2, DrawnInv, Constants DEF UsedRecord
<1>13. TokensOwned'
  <2>1. \A c \in Clients : TokensOf(c)' \subseteq TokensOf(c)
    BY <1>10, MembersNext, TokensMembers
  <2>. QED BY <1>0, <2>1, OwnedInv, Constants
<1>14. OriginsOK'
  <2>1. Genuine(task)'
    BY <1>0, <1>1, <1>2, <1>3, <1>4, Constants DEF Genuine
  <2>2. ASSUME NEW d \in Executions
        PROVE  origin'[d].version < task'.version /\ (origin'[d].token # None => fate'[d] # "unused")
    <3>0. fate'[d] = IF d = e THEN "running" ELSE fate[d]
      BY <1>2 DEF LeaseInv, TaskTypeOK
    <3>1. origin'[d] = IF d = e THEN x ELSE origin[d]
      BY <1>0, <1>4
    <3>2. origin[d].version < task.version /\ origin[d].version \in Nat
      BY <1>0 DEF OriginsOK, ClaimRecord
    <3>3. origin'[d].version < task'.version
      BY <1>2, <1>3, <3>1, <3>2
    <3>4. origin'[d].token # None => fate'[d] # "unused"
      BY <1>0, <3>0, <3>1 DEF OriginsOK
    <3>. QED BY <3>3, <3>4
  <2>3. \A cred : Genuine(cred) => (cred.exec \in Executions /\ cred.token # None /\ origin'[cred.exec].token = cred.token)
    BY <1>6 DEF Genuine
  <2>4. \A c \in Clients : HasLease(c)' => Genuine(client[c].lease)'
    BY <1>0, <2>3 DEF OriginsOK, HasLease, Genuine
  <2>5. ASSUME NEW c \in Clients, call'[c]["run"].op = "claim", call'[c]["run"].answer.ok
        PROVE  LET p == call'[c]["run"] IN
               /\ p.answer.cred.exec \in Executions /\ p.answer.cred.token # None
               /\ origin'[p.answer.cred.exec].token = p.answer.cred.token
               /\ p.answer.cred.token = p.cred.token
    <3>0. "run" \in Flows
      BY DEF Flows
    <3>1. CASE call'[c]["run"].answer = call[c]["run"].answer
      <4>1. call[c]["run"].op = "claim" /\ call[c]["run"].answer.ok /\ call'[c]["run"].cred = call[c]["run"].cred
        BY <1>9, <2>5, <3>0, <3>1
      <4>2. Genuine(call[c]["run"].answer.cred) /\ call[c]["run"].answer.cred.token = call[c]["run"].cred.token
        BY <1>0, <4>1 DEF OriginsOK
      <4>. QED BY <2>3, <3>1, <4>1, <4>2
    <3>2. CASE call'[c]["run"].answer = a /\ call[c]["run"] = q
      BY <1>0, <1>1, <1>3, <1>4, <1>7, <1>9, <3>0, <3>2, Constants
    <3>. QED BY <1>9, <3>0, <3>1, <3>2
  <2>. QED BY <2>1, <2>2, <2>4, <2>5 DEF OriginsOK, Genuine
<1>15. ClaimBeginsOnce'
  <2>1. \A d \in Executions : d # e => origin[d].token # x.token
    <3>. SUFFICES ASSUME NEW d \in Executions, d # e, origin[d].token = x.token PROVE FALSE
      OBVIOUS
    <3>1. origin[d] \in Known
      BY KnownMembers
    <3>2. origin[d] = x
      BY <1>0, <1>3, <3>1 DEF ClaimsDrawn
    <3>. QED BY <1>0, <1>2, <1>3, <3>2 DEF OriginsOK
  <2>2. \A d \in Executions : origin'[d] = IF d = e THEN x ELSE origin[d]
    BY <1>0, <1>4
  <2>. QED BY <1>0, <2>1, <2>2 DEF ClaimBeginsOnce
<1>. QED BY <1>2, <1>11, <1>12, <1>13, <1>14, <1>15 DEF ClientsInv

\* The reports of a client are outcomes of the task.
LEMMA ReportShape ==
    ASSUME NEW op \in {"complete", "fail", "cancel"}
    PROVE  LET r == Report(op) IN
           /\ r.status \in Status /\ r.result \in Outcome /\ r.error \in Outcome
           /\ r.status = "cancelled" <=> op = "cancel"
           /\ r.status = "complete" <=> op = "complete"
           /\ r.status = "failed" <=> op = "fail"
<1>1. CASE op = "complete"
  BY <1>1 DEF Report, Status, Terminal, Outcome
<1>2. CASE op = "fail"
  BY <1>2 DEF Report, Status, Terminal, Outcome
<1>3. CASE op = "cancel"
  BY <1>3 DEF Report, Status, Terminal, Outcome
<1>. QED BY <1>1, <1>2, <1>3

LEMMA RefusalShape ==
    ASSUME NEW fatal \in BOOLEAN PROVE Refusal(fatal) \in AnswerRecord /\ ~Refusal(fatal).ok
BY Constants DEF Refusal, NoAnswer, AnswerRecord

\* A claim that is repeated gets the credential of the execution it began.
LEMMA SameClaimGenuine ==
    ASSUME LeaseInv, ClientsInv, NEW t \in Tokens, SameClaim(t)
    PROVE  LET a == [Answer(task) EXCEPT !.cred.token = t] IN
           a \in AnswerRecord /\ Genuine(a.cred) /\ a.cred.token = t
<1>1. task \in Row /\ task.exec \in Executions /\ task.token = t
  BY DEF LeaseInv, TaskTypeOK, SameClaim, IsActive, Row
<1>. DEFINE b == Answer(task)
            a == [b EXCEPT !.cred.token = t]
<1>2. b \in AnswerRecord /\ b.cred = [exec |-> task.exec, token |-> task.token]
  BY <1>1, AnswerShape, Constants
<1>. HIDE DEF b
<1>3. a \in AnswerRecord /\ a.cred = [exec |-> task.exec, token |-> t]
  BY <1>1, <1>2 DEF AnswerRecord, AnyCredential
<1>4. Genuine(task)
  BY <1>1, Constants DEF ClientsInv, OriginsOK
<1>. HIDE DEF a
<1>5. Genuine(a.cred) /\ a.cred.token = t
  BY <1>1, <1>3, <1>4 DEF Genuine
<1>. QED BY <1>3, <1>5 DEF b, a

\* The row as a list or a report shows it.
LEMMA RowShown ==
    ASSUME LeaseInv PROVE Answer(task) \in AnswerRecord
<1>1. task \in Row /\ (task.exec = None <=> task.token = None)
  BY DEF LeaseInv, TaskTypeOK
<1>. QED BY <1>1, AnswerShape

\* What a handler does to a request preserves the invariant.
LEMMA HandleInv ==
    ASSUME LeaseInv, ClientsInv, client' = client, used' = used,
           NEW q, NEW to, Requested(q), Addressed(q, to), Handle(q, to)
    PROVE  [TaskNext]_taskVars /\ LeaseInv' /\ ClientsInv'
<1>0. q \in RequestRecord /\ WellCredited(q) /\ used \in UsedRecord
  BY DEF ClientsInv, ClientsShape, Requested
<1>1. CASE Reaping(q) /\ call' = call /\ late' = late
  <2>1. Continues
    BY <1>1 DEF Reaping, Continues
  <2>. QED BY <1>0, <1>1, <2>1, TaskAloneInv DEF Reaping
<1>2. CASE q.op = "claim" /\ HandleClaim(q, to)
  <2>0. q.cred.token \in Tokens
    BY <1>0, <1>2 DEF WellCredited
  <2>1. ASSUME NEW e \in Executions, Claim(e, q.cred.token, q.version), Began(e, q),
               Reply(q, to, Answer(task'))
        PROVE  [TaskNext]_taskVars /\ LeaseInv' /\ ClientsInv'
    BY <1>2, <2>1, BeginInv
  <2>2. ASSUME SameClaim(q.cred.token), UNCHANGED serverVars,
               Reply(q, to, [Answer(task) EXCEPT !.cred.token = q.cred.token])
        PROVE  [TaskNext]_taskVars /\ LeaseInv' /\ ClientsInv'
    <3>. DEFINE a == [Answer(task) EXCEPT !.cred.token = q.cred.token]
    <3>1. a \in AnswerRecord /\ Genuine(a.cred) /\ a.cred.token = q.cred.token
      BY <2>0, <2>2, SameClaimGenuine
    <3>2. Reply(q, to, a)
      BY <2>2
    <3>. HIDE DEF a
    <3>3. Continues /\ origin' = origin
      BY <2>2, QuietContinues DEF serverVars
    <3>4. Replied(q, to, a)
      BY <3>2, ReplyReplies
    <3>. QED BY <3>1, <3>3, <3>4, ReplyInv
  <2>3. ASSUME UNCHANGED serverVars, Reply(q, to, Refusal(FALSE))
        PROVE  [TaskNext]_taskVars /\ LeaseInv' /\ ClientsInv'
    <3>1. Continues /\ origin' = origin
      BY <2>3, QuietContinues DEF serverVars
    <3>2. Replied(q, to, Refusal(FALSE)) /\ Refusal(FALSE) \in AnswerRecord /\ ~Refusal(FALSE).ok
      BY <2>3, ReplyReplies, RefusalShape
    <3>. QED BY <3>1, <3>2, ReplyInv
  <2>. QED BY <1>2, <2>1, <2>2, <2>3 DEF HandleClaim
<1>3. ASSUME q.op # "claim", Continues, origin' = origin, NEW a \in AnswerRecord, Reply(q, to, a)
      PROVE  [TaskNext]_taskVars /\ LeaseInv' /\ ClientsInv'
  BY <1>3, ReplyReplies, ReplyInv
<1>4. CASE q.op \in {"complete", "fail", "cancel"} /\ HandleReport(q, to)
  <2>. DEFINE r == Report(q.op)
  <2>0. /\ r.status \in Status /\ r.result \in Outcome /\ r.error \in Outcome
        /\ q.cred \in Credential \cup {NoCredential}
    BY <1>0, <1>4, ReportShape DEF WellCredited
  <2>1. ASSUME Update(r.status, q.version, r.result, r.error, q.cred), origin' = origin,
               Reply(q, to, Answer(task'))
        PROVE  [TaskNext]_taskVars /\ LeaseInv' /\ ClientsInv'
    <3>1. q.version = task.version
      BY <2>1 DEF Update, UpdateAllowed, Current
    <3>2. Continues
      BY <2>0, <2>1, <3>1 DEF Continues
    <3>3. LeaseInv'
      BY <3>2, ContinuesOnward
    <3>4. Answer(task') \in AnswerRecord
      <4>1. task' \in Row /\ (task'.exec = None <=> task'.token = None)
        BY <3>3 DEF LeaseInv, TaskTypeOK
      <4>. QED BY <4>1, AnswerShape
    <3>. QED BY <1>3, <1>4, <2>1, <3>2, <3>4
  <2>2. ASSUME UNCHANGED serverVars, Reply(q, to, Refusal(Current(q.version) /\ IsActive))
        PROVE  [TaskNext]_taskVars /\ LeaseInv' /\ ClientsInv'
    <3>1. Continues /\ origin' = origin
      BY <2>2, QuietContinues DEF serverVars
    <3>2. (Current(q.version) /\ IsActive) \in BOOLEAN
      OBVIOUS
    <3>3. Refusal(Current(q.version) /\ IsActive) \in AnswerRecord
      BY <3>2, RefusalShape
    <3>. QED BY <1>3, <1>4, <2>2, <3>1, <3>3
  <2>. QED BY <1>4, <2>1, <2>2 DEF HandleReport
<1>5. CASE q.op = "list" /\ Reply(q, to, Answer(task)) /\ UNCHANGED serverVars
  <2>1. Continues /\ origin' = origin
    BY <1>5, QuietContinues DEF serverVars
  <2>. QED BY <1>3, <1>5, <2>1, RowShown
<1>6. CASE q.op = "heartbeat" /\ HandleHeartbeat(q, to)
  <2>0. q.cred \in Credential \cup {NoCredential}
    BY <1>0, <1>6 DEF WellCredited
  <2>1. CASE Heartbeat(q.cred) /\ Reply(q, to, Answer(task)) /\ origin' = origin
    <3>1. Continues
      BY <2>0, <2>1 DEF Continues
    <3>. QED BY <1>3, <1>6, <2>1, <3>1, RowShown
  <2>2. CASE Reply(q, to, Refusal(TRUE)) /\ UNCHANGED serverVars
    <3>1. Continues /\ origin' = origin
      BY <2>2, QuietContinues DEF serverVars
    <3>. QED BY <1>3, <1>6, <2>2, <3>1, RefusalShape
  <2>. QED BY <1>6, <2>1, <2>2 DEF HandleHeartbeat
<1>. QED BY <1>1, <1>2, <1>4, <1>5, <1>6 DEF Handle

LEMMA ServeInv ==
    ASSUME LeaseInv, ClientsInv,
           ServeLate \/ \E c \in Clients : \E f \in Flows : Serve(c, f)
    PROVE  [TaskNext]_taskVars /\ LeaseInv' /\ ClientsInv'
<1>1. ASSUME NEW q \in late, Handle(q, Nobody), UNCHANGED <<client, used>>
      PROVE  [TaskNext]_taskVars /\ LeaseInv' /\ ClientsInv'
  BY <1>1, HandleInv DEF Requested, Addressed
<1>2. ASSUME NEW c \in Clients, NEW f \in Flows, Serve(c, f)
      PROVE  [TaskNext]_taskVars /\ LeaseInv' /\ ClientsInv'
  <2>1. Requested(call[c][f]) /\ Addressed(call[c][f], [client |-> c, flow |-> f])
    BY DEF Requested, Addressed
  <2>. QED BY <1>2, <2>1, HandleInv DEF Serve
<1>. QED BY <1>1, <1>2 DEF ServeLate

-----------------------------------------------------------------------------
(* The theorems. *)

LEMMA ClientsInitInv == ClientsInit => LeaseInv /\ ClientsInv /\ TaskInit
<1>. SUFFICES ASSUME ClientsInit PROVE LeaseInv /\ ClientsInv /\ TaskInit
  OBVIOUS
<1>1. TaskInit /\ LeaseInv
  BY InitInv DEF ClientsInit
<1>2. /\ \A c \in Clients : client[c] = Fresh /\ \A f \in Flows : call[c][f] = NoCall
      /\ late = {} /\ \A e \in Executions : origin[e] = NoClaim
      /\ used = [faults |-> 0, cancels |-> 0, tokens |-> {}]
      /\ task.exec = None /\ task.version = 1
  BY DEF ClientsInit, TaskInit
<1>3. ClientsShape
  <2>1. client \in [Clients -> ClientRecord] /\ call \in [Clients -> [Flows -> RequestRecord]]
        /\ origin \in [Executions -> ClaimRecord] /\ used \in UsedRecord
    BY FreshShape, NoCallShape, Constants DEF ClientsInit, UsedRecord
  <2>. QED BY <1>2, <2>1, FreshShape, NoCallShape DEF ClientsShape
<1>4. \A c \in Clients : ClaimsOf(c) = {NoClaim}
  BY <1>2, ClaimsMembers, FreshShape, NoCallShape DEF Flows
<1>5. Known = {NoClaim}
  BY <1>2, <1>4, KnownMembers
<1>6. ClaimsDrawn
  BY <1>5, Constants DEF ClaimsDrawn
<1>7. TokensOwned
  <2>1. \A c \in Clients : \A t \in TokensOf(c) : t = None
    BY <1>2, <1>4, TokensMembers, FreshShape, Constants
  <2>. QED BY <2>1 DEF TokensOwned
<1>8. OriginsOK
  BY <1>2, NoCallShape, FreshShape, Constants DEF OriginsOK, HasLease, Flows
<1>9. ClaimBeginsOnce
  BY <1>2 DEF ClaimBeginsOnce
<1>. QED BY <1>1, <1>3, <1>6, <1>7, <1>8, <1>9 DEF ClientsInv

LEMMA ClientsStepInv ==
    LeaseInv /\ ClientsInv /\ [ClientsNext]_clientVars => [TaskNext]_taskVars /\ LeaseInv' /\ ClientsInv'
<1>. SUFFICES ASSUME LeaseInv, ClientsInv, [ClientsNext]_clientVars
              PROVE  [TaskNext]_taskVars /\ LeaseInv' /\ ClientsInv'
  OBVIOUS
<1>1. CASE ServeLate \/ \E c \in Clients : \E f \in Flows : Serve(c, f)
  BY <1>1, ServeInv
<1>2. ASSUME NEW c \in Clients,
             RunAnswered(c) \/ StartRun(c) \/ FinishWork(c) \/ AbortWork(c) \/ KeepAlive(c)
      PROVE  [TaskNext]_taskVars /\ LeaseInv' /\ ClientsInv'
  BY <1>2, RunAnsweredInv, StartRunInv, WorkInv, KeepAliveInv
<1>3. ASSUME NEW c \in Clients,
             HeartbeatAnswered(c) \/ ListAnswered(c) \/ CancelAnswered(c) \/ BeginSync(c) \/ CancelTask(c)
      PROVE  [TaskNext]_taskVars /\ LeaseInv' /\ ClientsInv'
  BY <1>3, SyncAnsweredInv, CancelInv, BeginSyncInv
<1>4. ASSUME NEW c \in Clients, Crash(c) \/ \E f \in Flows : Lose(c, f)
      PROVE  [TaskNext]_taskVars /\ LeaseInv' /\ ClientsInv'
  BY <1>4, CrashInv, LoseInv
<1>5. CASE Time
  BY <1>5, TimeInv
<1>6. CASE UNCHANGED clientVars
  <2>1. Continues /\ UNCHANGED <<client, call, late, origin, used>>
    BY <1>6, QuietContinues DEF clientVars
  <2>2. used' \in UsedRecord /\ used'.tokens = used.tokens
    BY <2>1 DEF ClientsInv, ClientsShape
  <2>. QED BY <2>1, <2>2, TaskAloneInv
<1>. QED BY <1>1, <1>2, <1>3, <1>4, <1>5, <1>6 DEF ClientsNext, ClientNext, ClientStep

LEMMA ClientsInvariant == ClientsSpec => [](LeaseInv /\ ClientsInv)
<1>1. ClientsInit => LeaseInv /\ ClientsInv
  BY ClientsInitInv
<1>2. LeaseInv /\ ClientsInv /\ [ClientsNext]_clientVars => (LeaseInv /\ ClientsInv)'
  BY ClientsStepInv
<1>. QED BY <1>1, <1>2, PTL DEF ClientsSpec

\* The routes, called by these clients over a network that loses, repeats and
\* delays, perform only the transactions of TaskLease on the row.
THEOREM ClientsImplementTaskLease == ClientsSpec => TaskSpec
<1>1. ClientsInit => TaskInit
  BY ClientsInitInv
<1>2. LeaseInv /\ ClientsInv /\ [ClientsNext]_clientVars => [TaskNext]_taskVars
  BY ClientsStepInv
<1>. QED BY <1>1, <1>2, ClientsInvariant, PTL DEF ClientsSpec, TaskSpec

\* So, for these clients, the executions of a task run one at a time, and a
\* lapsed one can neither report nor come back to life.
THEOREM ClientsKeepThePromise == ClientsSpec => ExecutionPromise
BY ClientsImplementTaskLease, TaskImplementsSingleExecution, PTL

\* ... and what a task shows is never the answer of an earlier run.
THEOREM ClientsSeeCurrentResults == ClientsSpec => []ResultIsCurrent
BY ClientsImplementTaskLease, CurrentResult, PTL

\* However often a claim is sent, and however late it arrives, it begins at most
\* one execution.
THEOREM ClaimsBeginOnce == ClientsSpec => []ClaimBeginsOnce
<1>1. ClientsInv => ClaimBeginsOnce
  BY DEF ClientsInv
<1>. QED BY <1>1, ClientsInvariant, PTL

\* However claims are repeated, lost or answered late, two clients never hold
\* the same execution.
THEOREM HoldersAreDistinct == ClientsSpec => []DistinctHolders
<1>1. ClientsInv => DistinctHolders
  <2>. SUFFICES ASSUME ClientsInv, NEW c \in Clients, NEW d \in Clients, c # d, HasLease(c),
                       client[c].lease.exec = client[d].lease.exec
                PROVE  FALSE
    BY DEF DistinctHolders
  <2>1. Genuine(client[c].lease)
    BY DEF ClientsInv, OriginsOK
  <2>2. HasLease(d)
    BY <2>1, Constants DEF Genuine, HasLease
  <2>3. Genuine(client[d].lease)
    BY <2>2 DEF ClientsInv, OriginsOK
  <2>4. client[c].lease.token = client[d].lease.token /\ client[c].lease.token # None
    BY <2>1, <2>3 DEF Genuine
  <2>5. client[c].lease.token \in TokensOf(c) \cap TokensOf(d)
    BY <2>4, TokensMembers
  <2>. QED BY <2>4, <2>5 DEF ClientsInv, TokensOwned
<1>. QED BY <1>1, ClientsInvariant, PTL

-----------------------------------------------------------------------------
(* Who ends an execution. *)

Ends(q, e, verdict) ==
    /\ q.op \in {"complete", "fail", "cancel"}
    /\ LET r == Report(q.op) IN
       /\ verdict = r.status
       /\ UpdateAllowed(r.status, q.version, r.result, r.error, q.cred)
    /\ IsActive /\ task.exec = e

\* A handler that ends an execution serves a report of it.
LEMMA HandleEnds ==
    ASSUME LeaseInv, NEW q, NEW to, Handle(q, to), NEW e \in Executions,
           fate[e] = "running", fate'[e] \in Terminal
    PROVE  Ends(q, e, fate'[e])
<1>0. /\ fate \in [Executions -> {"unused", "running", "interrupted"} \cup Terminal]
      /\ fate'[e] # fate[e] /\ fate'[e] # "interrupted" /\ fate'[e] # "running"
  BY DEF LeaseInv, TaskTypeOK, Terminal
<1>1. ~Reaping(q)
  BY <1>0 DEF Reaping, Expire, EndAs
<1>2. ~HandleClaim(q, to)
  <2>1. \A d \in Executions : ~Claim(d, q.cred.token, q.version)
    BY <1>0 DEF Claim
  <2>. QED BY <1>0, <2>1 DEF HandleClaim, serverVars
<1>3. ~HandleHeartbeat(q, to)
  BY <1>0 DEF HandleHeartbeat, Heartbeat, serverVars
<1>4. ~UNCHANGED serverVars
  BY <1>0 DEF serverVars
<1>5. q.op \in {"complete", "fail", "cancel"} /\ HandleReport(q, to)
  BY <1>1, <1>2, <1>3, <1>4 DEF Handle
<1>. DEFINE r == Report(q.op)
<1>6. Update(r.status, q.version, r.result, r.error, q.cred)
  BY <1>4, <1>5 DEF HandleReport
<1>7. UpdateAllowed(r.status, q.version, r.result, r.error, q.cred)
  BY <1>6 DEF Update
<1>8. fate' = [fate EXCEPT ![task.exec] = r.status] /\ IsActive
  BY <1>0, <1>6 DEF Update, EndAs
<1>9. task.exec = e /\ fate'[e] = r.status
  BY <1>0, <1>8
<1>. QED BY <1>5, <1>7, <1>8, <1>9 DEF Ends

\* Whatever ends an execution of a client well or badly is a report that is
\* awaited, or was given up, by a client.
LEMMA StepEnds ==
    ASSUME LeaseInv, ClientsInv, [ClientsNext]_clientVars, NEW e \in Executions,
           fate[e] = "running", fate'[e] \in Terminal
    PROVE  \E q : Requested(q) /\ Ends(q, e, fate'[e])
<1>0. fate' # fate
  BY DEF Terminal
<1>1. CASE ServeLate
  <2>1. PICK q \in late : Handle(q, Nobody)
    BY <1>1 DEF ServeLate
  <2>. QED BY <2>1, HandleEnds DEF Requested
<1>2. ASSUME NEW c \in Clients, NEW f \in Flows, Serve(c, f)
      PROVE  \E q : Requested(q) /\ Ends(q, e, fate'[e])
  <2>1. Handle(call[c][f], [client |-> c, flow |-> f])
    BY <1>2 DEF Serve
  <2>2. Ends(call[c][f], e, fate'[e]) /\ Requested(call[c][f])
    BY <2>1, HandleEnds DEF Requested
  <2>. QED BY <2>2
<1>3. \A c \in Clients :
         ~RunAnswered(c) /\ ~StartRun(c) /\ ~FinishWork(c) /\ ~AbortWork(c) /\ ~KeepAlive(c)
  BY <1>0 DEF RunAnswered, StartRun, FinishWork, AbortWork, KeepAlive, RenewTaskExecution, serverVars
<1>4. \A c \in Clients :
         /\ ~HeartbeatAnswered(c) /\ ~ListAnswered(c) /\ ~CancelAnswered(c)
         /\ ~BeginSync(c) /\ ~CancelTask(c)
  BY <1>0 DEF HeartbeatAnswered, ListAnswered, CancelAnswered, BeginSync, CancelTask, serverVars
<1>5. \A c \in Clients : ~Crash(c) /\ \A f \in Flows : ~Lose(c, f)
  BY <1>0 DEF Crash, Lose, serverVars
<1>6. ~Time
  BY <1>0 DEF Time, Lapse, DeviceLost
<1>7. ~UNCHANGED clientVars
  BY <1>0 DEF clientVars
<1>8. ServeLate \/ \E c \in Clients : \E f \in Flows : Serve(c, f)
  BY <1>3, <1>4, <1>5, <1>6, <1>7 DEF ClientsNext, ClientNext, ClientStep
<1>. QED BY <1>1, <1>2, <1>8

\* A request of a run, or one of a cancellation, was sent by that flow.
LEMMA RequestedBy ==
    ASSUME ClientsInv, NEW q, Requested(q)
    PROVE  /\ q \in RequestRecord
           /\ q.op \in {"complete", "fail"} => q \in late \cup {call[c]["run"] : c \in Clients}
           /\ q.op = "cancel" => q \in late \cup {call[c]["cancel"] : c \in Clients}
<1>1. CASE q \in late
  BY <1>1 DEF ClientsInv, ClientsShape
<1>2. ASSUME NEW c \in Clients, NEW f \in Flows, q = call[c][f]
      PROVE  /\ q \in RequestRecord
             /\ q.op \in {"complete", "fail"} => f = "run"
             /\ q.op = "cancel" => f = "cancel"
  <2>1. q.op \in FlowOps[f] \cup {"none"} /\ q \in RequestRecord
    BY <1>2 DEF ClientsInv, ClientsShape
  <2>. QED BY <2>1 DEF FlowOps, Flows
<1>. QED BY <1>1, <1>2 DEF Requested

\* A result or failure that the server accepts comes from the claim that began
\* the execution, however late it arrives.
THEOREM ResultsAreOwn == ClientsSpec => ResultIsOwn
<1>1. LeaseInv /\ ClientsInv /\ [ClientsNext]_clientVars =>
      [\A e \in Executions :
          (fate[e] = "running" /\ fate'[e] \in {"complete", "failed"}) =>
             \E q \in late \cup {call[c]["run"] : c \in Clients} :
                 q.cred = [exec |-> e, token |-> origin[e].token]]_clientVars
  <2>. SUFFICES ASSUME LeaseInv, ClientsInv, [ClientsNext]_clientVars, NEW e \in Executions,
                       fate[e] = "running", fate'[e] \in {"complete", "failed"}
                PROVE  \E q \in late \cup {call[c]["run"] : c \in Clients} :
                          q.cred = [exec |-> e, token |-> origin[e].token]
    OBVIOUS
  <2>1. PICK q : Requested(q) /\ Ends(q, e, fate'[e])
    BY StepEnds DEF Terminal
  <2>2. q.op \in {"complete", "fail"}
    BY <2>1, ReportShape DEF Ends
  <2>3. q \in RequestRecord /\ q \in late \cup {call[c]["run"] : c \in Clients}
    BY <2>1, <2>2, RequestedBy
  <2>4. Report(q.op).status # "cancelled"
    BY <2>2, ReportShape
  <2>5. Vouched(q.cred) /\ task.exec = e
    BY <2>1, <2>4 DEF Ends, UpdateAllowed
  <2>6. Genuine(task)
    BY <2>5, Constants DEF ClientsInv, OriginsOK
  <2>7. q.cred.exec = e /\ q.cred.token = origin[e].token
    BY <2>5, <2>6 DEF Vouched, Genuine
  <2>8. q.cred = [exec |-> e, token |-> origin[e].token]
    BY <2>3, <2>7 DEF RequestRecord, AnyCredential
  <2>. QED BY <2>3, <2>8
<1>. QED BY <1>1, ClientsInvariant, PTL DEF ClientsSpec, ResultIsOwn

\* A cancellation that arrives late ends no execution that began after it was sent.
THEOREM CancellationsHitWhatWasSeen == ClientsSpec => CancelHitsWhatWasSeen
<1>1. LeaseInv /\ ClientsInv /\ [ClientsNext]_clientVars =>
      [\A e \in Executions :
          (fate[e] = "running" /\ fate'[e] = "cancelled") =>
             \E q \in late \cup {call[c]["cancel"] : c \in Clients} :
                 q.op = "cancel" /\ q.version > origin[e].version]_clientVars
  <2>. SUFFICES ASSUME LeaseInv, ClientsInv, [ClientsNext]_clientVars, NEW e \in Executions,
                       fate[e] = "running", fate'[e] = "cancelled"
                PROVE  \E q \in late \cup {call[c]["cancel"] : c \in Clients} :
                          q.op = "cancel" /\ q.version > origin[e].version
    OBVIOUS
  <2>1. PICK q : Requested(q) /\ Ends(q, e, fate'[e])
    BY StepEnds DEF Terminal
  <2>2. q.op = "cancel" /\ q.version = task.version
    BY <2>1, ReportShape DEF Ends, UpdateAllowed, Current
  <2>3. q \in late \cup {call[c]["cancel"] : c \in Clients}
    BY <2>1, <2>2, RequestedBy
  <2>4. origin[e].version < task.version /\ origin[e].version \in Nat /\ task.version \in Nat
    BY DEF ClientsInv, OriginsOK, ClientsShape, ClaimRecord, LeaseInv, TaskTypeOK, Row
  <2>. QED BY <2>2, <2>3, <2>4
<1>. QED BY <1>1, ClientsInvariant, PTL DEF ClientsSpec, CancelHitsWhatWasSeen

=============================================================================
