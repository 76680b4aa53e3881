-------------------------- MODULE ChatGatewayProofs --------------------------
(***************************************************************************)
(* The chat handler, the cancel route, crashes and lost replies only ever  *)
(* perform the transactions of Billing: ChatGateway implements it.  So     *)
(* what is proved of Billing under every sequence of transactions holds of *)
(* the running gateway.  What handlers and the cancel route know of each   *)
(* other gives the rest: one handler works on a request at a time, answers *)
(* are billed, held funds have an owner, and a cancellation reaches every  *)
(* request of its task.                                                    *)
(***************************************************************************)
EXTENDS ChatGateway, BillingMoneyProofs

\* What a handler knows at each of its steps.
GoodJob(j) ==
    /\ j \in Job
    /\ j.pc # "idle" => j.user \in Users /\ j.key \in RequestKeys /\ j.fp \in Fingerprints
    /\ j.pc \notin {"idle", "claiming", "answered"} => j.res \in ReservationIds
    /\ j.pc = "settling" => j.cost \in Costs

\* The inductive invariant: the transactions of a handler and of the cancel
\* route are about users, requests and reservations there are.
JobsOK ==
    /\ job \in [Handlers -> Job]
    /\ \A h \in Handlers : GoodJob(job[h])
    /\ cancels \in [Executions -> Cancel]

\* The steps that change nothing but one handler.
JobStep(h, j) ==
    /\ job' = [job EXCEPT ![h] = j]
    /\ cancels' = cancels

\* A handler that moves to a good state leaves the others as they are.
LEMMA JobStepGood ==
    ASSUME NEW h \in Handlers, NEW j, JobsOK, JobStep(h, j), GoodJob(j)
    PROVE  JobsOK'
<1>1. j \in Job  BY DEF GoodJob
<1>2. job' \in [Handlers -> Job]  BY <1>1 DEF JobStep, JobsOK
<1>3. ASSUME NEW g \in Handlers PROVE GoodJob(job'[g])
  <2>1. job'[g] = IF g = h THEN j ELSE job[g]  BY DEF JobStep, JobsOK
  <2>. QED  BY <2>1 DEF JobsOK
<1>. QED  BY <1>2, <1>3 DEF JobsOK, JobStep, GoodJob

\* Moving on to a step that needs nothing the handler does not have yet.
LEMMA GotoGood ==
    ASSUME NEW h \in Handlers, NEW step \in Steps, JobsOK,
           job[h].pc # "idle", step # "settling", step # "claiming",
           step \in {"idle", "answered"} \/ job[h].res \in ReservationIds,
           Goto(h, step), cancels' = cancels
    PROVE  JobsOK'
<1>. DEFINE j == IF step = "idle" THEN NoJob ELSE [job[h] EXCEPT !.pc = step]
<1>1. JobStep(h, j)  BY DEF JobStep, Goto
<1>2. GoodJob(job[h])  BY DEF JobsOK
<1>3. GoodJob(NoJob)  BY DEF GoodJob, NoJob, Job, Steps
<1>4. CASE step # "idle"
  <2>1. j = [job[h] EXCEPT !.pc = step]  BY <1>4
  <2>. QED  BY <2>1, <1>1, <1>2, <1>4, JobStepGood DEF GoodJob, Job
<1>. QED  BY <1>1, <1>3, <1>4, JobStepGood

\* The request of a working handler is one that Billing knows.
LEMMA RequestKnown ==
    ASSUME NEW h \in Handlers, JobsOK, job[h].pc # "idle"
    PROVE  /\ job[h].user \in Users /\ job[h].key \in RequestKeys
           /\ job[h].fp \in Fingerprints /\ Task(h) \in Tasks
           /\ job[h].pc \notin {"claiming", "answered"} => job[h].res \in ReservationIds
           /\ job[h].pc = "settling" => job[h].cost \in Costs
BY GatewayAssumption DEF JobsOK, GoodJob, Task, Tasks

\* Each step of a handler keeps the invariant.
LEMMA HandlerKeepsJobs ==
    ASSUME NEW h \in Handlers, JobsOK, HandlerStep(h)
    PROVE  JobsOK'
<1>0. job \in [Handlers -> Job] /\ GoodJob(job[h])  BY DEF JobsOK
<1>1. CASE Claim(h)
  <2>1. CASE \E r \in Fresh : job' = [job EXCEPT ![h].pc = "reserving", ![h].res = r]
    <3>1. PICK r \in Fresh : job' = [job EXCEPT ![h].pc = "reserving", ![h].res = r]
          BY <2>1
    <3>. DEFINE j == [[job[h] EXCEPT !.pc = "reserving"] EXCEPT !.res = r]
    <3>2. r \in ReservationIds  BY DEF Fresh
    <3>3. job[h].pc = "claiming"  BY <1>1 DEF Claim, At
    <3>4. GoodJob(j)  BY <1>0, <3>2, <3>3 DEF GoodJob, Job, Steps
    <3>5. JobStep(h, j)  BY <1>0, <1>1, <3>1 DEF JobStep, Claim, Job
    <3>. QED  BY <3>4, <3>5, JobStepGood
  <2>2. CASE Goto(h, "idle") \/ Goto(h, "answered")
    BY <2>2, <1>1, GotoGood DEF Claim, At, Steps
  <2>. QED  BY <1>1, <2>1, <2>2 DEF Claim
<1>2. CASE Reserve(h)
  BY <1>2, <1>0, GotoGood DEF Reserve, At, Steps, GoodJob
<1>3. CASE Provider(h)
  <2>1. CASE \E c \in Costs :
               job' = [job EXCEPT ![h].pc = "settling", ![h].cost = c, ![h].settling = TRUE]
    <3>1. PICK c \in Costs :
            job' = [job EXCEPT ![h].pc = "settling", ![h].cost = c, ![h].settling = TRUE]
          BY <2>1
    <3>. DEFINE j == [[[job[h] EXCEPT !.pc = "settling"] EXCEPT !.cost = c]
                        EXCEPT !.settling = TRUE]
    <3>2. job[h].pc = "calling"  BY <1>3 DEF Provider, At
    <3>3. GoodJob(j)  BY <1>0, <3>2 DEF GoodJob, Job, Steps
    <3>4. JobStep(h, j)  BY <1>0, <1>3, <3>1 DEF JobStep, Provider, Job
    <3>. QED  BY <3>3, <3>4, JobStepGood
  <2>2. CASE Goto(h, "rejected") \/ Goto(h, "failing")
    BY <2>2, <1>3, <1>0, GotoGood DEF Provider, At, Steps, GoodJob
  <2>. QED  BY <1>3, <2>1, <2>2 DEF Provider
<1>4. CASE Settle(h)
  BY <1>4, <1>0, GotoGood DEF Settle, At, Steps, GoodJob
<1>5. CASE FailClaim(h)
  BY <1>5, <1>0, GotoGood DEF FailClaim, At, Steps, GoodJob
<1>6. CASE Refund(h)
  BY <1>6, <1>0, GotoGood DEF Refund, At, Steps, GoodJob
<1>7. CASE Leave(h)
  BY <1>7, <1>0, GotoGood DEF Leave, At, Steps, GoodJob
<1>. QED  BY <1>1, <1>2, <1>3, <1>4, <1>5, <1>6, <1>7 DEF HandlerStep

\* Each step of a handler is a transaction of Billing or none.
LEMMA HandlerIsBilling ==
    ASSUME NEW h \in Handlers, JobsOK, HandlerStep(h)
    PROVE  Next \/ UNCHANGED vars
<1>0. job[h].pc # "idle"
  BY DEF HandlerStep, Claim, Reserve, Provider, Settle, FailClaim, Refund, Leave, At
<1>. DEFINE u == job[h].user
            k == job[h].key
            f == job[h].fp
            r == job[h].res
            e == Task(h)
<1>a. u \in Users /\ k \in RequestKeys /\ f \in Fingerprints /\ e \in Tasks
  BY <1>0, RequestKnown
<1>b. job[h].pc \notin {"claiming", "answered"} => r \in ReservationIds
  BY <1>0, RequestKnown
<1>1. CASE Claim(h)
  <2>1. ClaimChatRequest(u, k, f, e) \/ ClaimRefused(u, k, f, e) \/ UNCHANGED vars
        BY <1>1 DEF Claim
  <2>. QED  BY <2>1, <1>a DEF Next
<1>2. CASE Reserve(h)
  <2>1. (\E a \in ReserveAmounts : ReserveUsage(u, r, a, e)) \/ UNCHANGED vars
        BY <1>2 DEF Reserve
  <2>2. r \in ReservationIds  BY <1>2, <1>b DEF Reserve, At
  <2>. QED  BY <2>1, <2>2, <1>a DEF Next
<1>3. CASE Provider(h)
  BY <1>3 DEF Provider
<1>4. CASE Settle(h)
  <2>1. SettleUsage(u, r, k, f, e, job[h].cost) \/ UNCHANGED vars
        BY <1>4 DEF Settle
  <2>2. r \in ReservationIds /\ job[h].cost \in Costs
        BY <1>4, <1>0, RequestKnown DEF Settle, At
  <2>. QED  BY <2>1, <2>2, <1>a DEF Next, SettleUsage
<1>5. CASE FailClaim(h)
  <2>1. FailChatRequest(u, k, f, e) \/ UNCHANGED vars
        BY <1>5 DEF FailClaim
  <2>. QED  BY <2>1, <1>a DEF Next
<1>6. CASE Refund(h)
  <2>1. ReleaseUsage(u, r) \/ UNCHANGED vars
        BY <1>6 DEF Refund
  <2>2. r \in ReservationIds  BY <1>6, <1>b DEF Refund, At
  <2>. QED  BY <2>1, <2>2, <1>a DEF Next
<1>7. CASE Leave(h)
  BY <1>7 DEF Leave
<1>. QED  BY <1>1, <1>2, <1>3, <1>4, <1>5, <1>6, <1>7 DEF HandlerStep

\* The steps of the clients, the cancel route, the process and the clock keep
\* the invariant, too.
LEMMA GatewayKeepsJobs ==
    ASSUME JobsOK, [GatewayNext]_gatewayVars
    PROVE  JobsOK'
<1>0. job \in [Handlers -> Job] /\ cancels \in [Executions -> Cancel]  BY DEF JobsOK
<1>1. ASSUME NEW h \in Handlers, NEW u \in Users, NEW k \in RequestKeys,
             NEW f \in Fingerprints, Arrive(h, u, k, f)
      PROVE  JobsOK'
  <2>. DEFINE j == [NoJob EXCEPT !.pc = "claiming", !.user = u, !.key = k, !.fp = f]
  <2>1. GoodJob(j)  BY DEF GoodJob, NoJob, Job, Steps
  <2>2. JobStep(h, j)  BY <1>1 DEF Arrive, JobStep
  <2>. QED  BY <2>1, <2>2, JobStepGood
<1>2. ASSUME NEW h \in Handlers, HandlerStep(h) PROVE JobsOK'
  BY <1>2, HandlerKeepsJobs
<1>3. ASSUME NEW h \in Handlers, Disconnect(h) \/ RenewalFails(h) PROVE JobsOK'
  <2>. DEFINE j == [job[h] EXCEPT !.aborted = TRUE]
  <2>1. GoodJob(j)  BY DEF JobsOK, GoodJob, Job
  <2>2. JobStep(h, j)  BY <1>0, <1>3 DEF Disconnect, RenewalFails, JobStep
  <2>. QED  BY <2>1, <2>2, JobStepGood
<1>4. ASSUME NEW e \in Executions, CancelTask(e) PROVE JobsOK'
  <2>1. cancels' \in [Executions -> Cancel]  BY <1>0, <1>4 DEF CancelTask, Cancel
  <2>. QED  BY <1>4, <2>1 DEF CancelTask, JobsOK
<1>5. ASSUME NEW e \in Executions, StopChats(e) PROVE JobsOK'
  <2>. DEFINE hs == {h \in Handlers : Active(h) /\ Task(h) = e}
  <2>1. {job[h].res : h \in hs} \subseteq ReservationIds
    BY RequestKnown DEF Active
  <2>2. cancels' \in [Executions -> Cancel]  BY <1>0, <1>5, <2>1 DEF StopChats, Cancel
  <2>3. \A h \in Handlers : GoodJob(job'[h])
    <3>. SUFFICES ASSUME NEW h \in Handlers PROVE GoodJob(job'[h])
      OBVIOUS
    <3>1. job'[h] = job[h] \/ job'[h] = [job[h] EXCEPT !.aborted = TRUE]
      BY <1>5 DEF StopChats
    <3>. QED  BY <3>1 DEF JobsOK, GoodJob, Job
  <2>4. job' \in [Handlers -> Job]
    <3>1. \A h \in Handlers : job'[h] \in Job  BY <2>3 DEF GoodJob
    <3>. QED  BY <1>5, <3>1 DEF StopChats
  <2>. QED  BY <2>2, <2>3, <2>4 DEF JobsOK
<1>6. ASSUME NEW e \in Executions, ReleaseStopped(e) PROVE JobsOK'
  <2>1. cancels' \in [Executions -> Cancel]
    <3>1. PICK r \in cancels[e].targets :
             \/ cancels' = [cancels EXCEPT ![e].targets = @ \ {r}]
             \/ cancels' = [cancels EXCEPT ![e] =
                              [stage |-> "failed", targets |-> @.targets \ {r}]]
      BY <1>6 DEF ReleaseStopped
    <3>. QED  BY <1>0, <3>1 DEF Cancel
  <2>. QED  BY <1>6, <2>1 DEF ReleaseStopped, JobsOK
<1>7. ASSUME Crash PROVE JobsOK'
  BY <1>7 DEF Crash, JobsOK, GoodJob, NoJob, NoCancel, Job, Steps, Cancel
<1>8. ASSUME Background PROVE JobsOK'
  BY <1>8 DEF Background, JobsOK
<1>9. ASSUME UNCHANGED gatewayVars PROVE JobsOK'
  BY <1>9 DEF gatewayVars, JobsOK
<1>. QED
  BY <1>1, <1>2, <1>3, <1>4, <1>5, <1>6, <1>7, <1>8, <1>9 DEF GatewayNext, CancelStep

\* Every step of the gateway is a transaction of Billing or none.
LEMMA GatewayIsBilling ==
    ASSUME JobsOK, [GatewayNext]_gatewayVars
    PROVE  [Next]_vars
<1>1. ASSUME NEW h \in Handlers, NEW u \in Users, NEW k \in RequestKeys,
             NEW f \in Fingerprints, Arrive(h, u, k, f)
      PROVE  UNCHANGED vars
  BY <1>1 DEF Arrive
<1>2. ASSUME NEW h \in Handlers, HandlerStep(h) PROVE [Next]_vars
  BY <1>2, HandlerIsBilling
<1>3. ASSUME NEW h \in Handlers, Disconnect(h) \/ RenewalFails(h) PROVE UNCHANGED vars
  BY <1>3 DEF Disconnect, RenewalFails
<1>4. ASSUME NEW e \in Executions, CancelTask(e) PROVE Next
  BY <1>4 DEF CancelTask, Next
<1>5. ASSUME NEW e \in Executions, StopChats(e) PROVE UNCHANGED vars
  BY <1>5 DEF StopChats
<1>6. ASSUME NEW e \in Executions, ReleaseStopped(e) PROVE [Next]_vars
  <2>1. PICK r \in cancels[e].targets : (\E u \in Users : ReleaseUsage(u, r)) \/ UNCHANGED vars
    BY <1>6 DEF ReleaseStopped
  <2>2. r \in ReservationIds  BY DEF JobsOK, Cancel
  <2>. QED  BY <2>1, <2>2 DEF Next
<1>7. ASSUME Crash PROVE UNCHANGED vars
  BY <1>7 DEF Crash
<1>8. ASSUME Background PROVE Next
  BY <1>8 DEF Background, Next
<1>9. ASSUME UNCHANGED gatewayVars PROVE UNCHANGED vars
  BY <1>9 DEF gatewayVars, vars
<1>. QED
  BY <1>1, <1>2, <1>3, <1>4, <1>5, <1>6, <1>7, <1>8, <1>9 DEF GatewayNext, CancelStep

\* The running gateway implements Billing: claims, settlements, refunds,
\* cancellations, crashes and lost replies are sequences of its transactions.
THEOREM GatewayImplementsBilling == GatewaySpec => Spec
<1>1. GatewayInit => Init /\ JobsOK
  BY DEF GatewayInit, JobsOK, GoodJob, NoJob, NoCancel, Job, Steps, Cancel
<1>2. JobsOK /\ [GatewayNext]_gatewayVars => JobsOK'
  BY GatewayKeepsJobs
<1>3. JobsOK /\ [GatewayNext]_gatewayVars => [Next]_vars
  BY GatewayIsBilling
<1>. QED  BY <1>1, <1>2, <1>3, PTL DEF GatewaySpec, Spec

\* Money and card hours are conserved while handlers, cancellations, crashes
\* and lost replies interleave in any way.
THEOREM GatewayConservesMoney == GatewaySpec => [](WalletConserved /\ CreditConserved)
BY GatewayImplementsBilling, WalletConservation, CreditConservation, PTL

(***************************************************************************)
(* Claims.                                                                 *)
(***************************************************************************)

ClaimedSteps == {"reserving", "calling", "settling", "rejected", "unclaiming", "failing"}

\* The row of a claimed request: it is there, it has not lapsed, and it is that of the
\* handler's body and execution.
Kept(row, j) ==
    /\ row.status \in {"pending", "complete"} /\ ~row.stale
    /\ row.fp = j.fp /\ row.exec = ExecutionOf[j.fp]

\* The inductive invariant: one handler has the claim of a request, and its row.
ClaimsOK ==
    /\ \A g, h \in Handlers :
          /\ job[g].pc \in ClaimedSteps /\ job[h].pc \in ClaimedSteps
          /\ job[g].user = job[h].user /\ job[g].key = job[h].key
          => g = h
    /\ \A h \in Handlers :
          job[h].pc \in ClaimedSteps => Kept(chat[job[h].user][job[h].key], job[h])

\* What the transactions on the chat rows do to them.
LEMMA ClaimRows ==
    ASSUME TypeOK, NEW u \in Users, NEW k \in RequestKeys, NEW f \in Fingerprints,
           NEW e \in Tasks, ClaimChatRequest(u, k, f, e)
    PROVE  /\ chat'[u][k] = [status |-> "pending", fp |-> f, exec |-> e, stale |-> FALSE]
           /\ chat[u][k].stale \/ chat[u][k].status \notin {"pending", "complete"}
           /\ \A v \in Users, l \in RequestKeys :
                 (v # u \/ l # k) /\ ~chat[v][l].stale => chat'[v][l] = chat[v][l]
<1>1. SweepStale \in [Users -> [RequestKeys -> ChatRow]]  BY SweepType
<1>2. \A v \in Users, l \in RequestKeys : ~chat[v][l].stale => SweepStale[v][l] = chat[v][l]
  BY DEF SweepStale
<1>3. chat[u][k].stale \/ chat[u][k].status \notin {"pending", "complete"}
  BY <1>2 DEF ClaimChatRequest
<1>. QED  BY <1>1, <1>2, <1>3 DEF ClaimChatRequest

LEMMA RefusedRows ==
    ASSUME TypeOK, NEW u \in Users, NEW k \in RequestKeys, NEW f \in Fingerprints,
           NEW e \in Tasks, ClaimRefused(u, k, f, e)
    PROVE  /\ chat'[u][k].status = "complete" => chat'[u][k].fp = f
           /\ \A v \in Users, l \in RequestKeys :
                 ~chat[v][l].stale => chat'[v][l] = chat[v][l]
BY DEF ClaimRefused, SweepStale

LEMMA SettledRows ==
    ASSUME TypeOK, NEW u \in Users, NEW r \in ReservationIds, NEW k \in RequestKeys,
           NEW f \in Fingerprints, NEW e \in Tasks, NEW cost \in Costs,
           SettleUsage(u, r, k, f, e, cost)
    PROVE  /\ chat'[u][k].status = "complete"
           /\ chat'[u][k].fp = f /\ chat'[u][k].exec = e
           /\ ~chat[u][k].stale => ~chat'[u][k].stale
           /\ \A v \in Users, l \in RequestKeys :
                 v # u \/ l # k => chat'[v][l] = chat[v][l]
<1>. DEFINE row == Marked(chat[u][k], "complete")
<1>1. chat[u][k] \in ChatRow /\ chat[u][k].fp = f /\ chat[u][k].exec = e
  BY DEF SettleUsage, SettleAgain, SettleFirst, SettleableChat, TypeOK
<1>2. row.status = "complete" /\ row.fp = f /\ row.exec = e /\ ~row.stale
  BY <1>1 DEF Marked, ChatRow
<1>. HIDE DEF row
<1>3. CASE chat' = [chat EXCEPT ![u][k] = row]
  BY <1>2, <1>3 DEF TypeOK
<1>4. CASE chat[u][k].status = "complete" /\ chat' = chat
  BY <1>1, <1>4
<1>5. chat' = [chat EXCEPT ![u][k] = row] \/ (chat[u][k].status = "complete" /\ chat' = chat)
  <2>1. CASE SettleFirst(u, r, k, f, e, cost)
    BY <2>1 DEF SettleFirst, row, TypeOK
  <2>2. CASE SettleAgain(u, r, k, f, e, cost) /\ chat[u][k].status = "pending"
    BY <2>2 DEF SettleAgain, row, TypeOK
  <2>3. CASE SettleAgain(u, r, k, f, e, cost) /\ chat[u][k].status # "pending"
    BY <2>3 DEF SettleAgain, SettleableChat
  <2>. QED  BY <2>1, <2>2, <2>3 DEF SettleUsage
<1>. QED  BY <1>3, <1>4, <1>5

LEMMA FailedRows ==
    ASSUME TypeOK, NEW u \in Users, NEW k \in RequestKeys, NEW f \in Fingerprints,
           NEW e \in Tasks, FailChatRequest(u, k, f, e)
    PROVE  /\ chat'[u][k].status = "failed"
           /\ \A v \in Users, l \in RequestKeys :
                 v # u \/ l # k => chat'[v][l] = chat[v][l]
<1>. DEFINE row == Marked(chat[u][k], "failed")
<1>1. row.status = "failed"  BY DEF Marked, TypeOK, ChatRow
<1>2. chat' = [chat EXCEPT ![u][k] = row]  BY DEF FailChatRequest, TypeOK
<1>. HIDE DEF row
<1>. QED  BY <1>1, <1>2 DEF TypeOK

\* A handler that moves to a step keeps its request, unless it becomes idle.
LEMMA GotoFacts ==
    ASSUME JobsOK, NEW h \in Handlers, NEW step \in Steps, Goto(h, step)
    PROVE  /\ \A g \in Handlers \ {h} : job'[g] = job[g]
           /\ job'[h].pc = step
           /\ step # "idle" => /\ job'[h].user = job[h].user /\ job'[h].key = job[h].key
                               /\ job'[h].fp = job[h].fp /\ job'[h].res = job[h].res
                               /\ job'[h].aborted = job[h].aborted
                               /\ job'[h].settling = job[h].settling
<1>1. job \in [Handlers -> Job] /\ job[h] \in Job  BY DEF JobsOK
<1>2. CASE step = "idle"
  BY <1>1, <1>2 DEF Goto, NoJob
<1>3. CASE step # "idle"
  <2>1. job' = [job EXCEPT ![h] = [job[h] EXCEPT !.pc = step]]  BY <1>1, <1>3 DEF Goto
  <2>. QED  BY <1>1, <2>1 DEF Job
<1>. QED  BY <1>2, <1>3

\* What a step of a handler does to its request.
LEMMA HandlerMoves ==
    ASSUME JobsOK, NEW h \in Handlers, HandlerStep(h)
    PROVE  /\ \A g \in Handlers \ {h} : job'[g] = job[g]
           /\ cancels' = cancels
           /\ job'[h].pc # "idle" =>
                 /\ job'[h].user = job[h].user /\ job'[h].key = job[h].key
                 /\ job'[h].fp = job[h].fp /\ job'[h].aborted = job[h].aborted
                 /\ job[h].pc # "claiming" => job'[h].res = job[h].res
                 /\ job'[h].pc # "settling" => job'[h].settling = job[h].settling
<1>0. job \in [Handlers -> Job] /\ job[h] \in Job  BY DEF JobsOK
<1>1. CASE \E step \in Steps : Goto(h, step)
  BY <1>1, GotoFacts DEF HandlerStep, Claim, Reserve, Provider, Settle, FailClaim, Refund, Leave
<1>2. CASE Claim(h) /\ \E r \in Fresh : job' = [job EXCEPT ![h].pc = "reserving", ![h].res = r]
  <2>1. PICK r \in Fresh : job' = [job EXCEPT ![h].pc = "reserving", ![h].res = r]
    BY <1>2
  <2>. DEFINE j == [[job[h] EXCEPT !.pc = "reserving"] EXCEPT !.res = r]
  <2>2. /\ j.pc = "reserving" /\ j.user = job[h].user /\ j.key = job[h].key
        /\ j.fp = job[h].fp /\ j.aborted = job[h].aborted /\ j.settling = job[h].settling
    BY <1>0 DEF Job
  <2>3. job' = [job EXCEPT ![h] = j]  BY <1>0, <2>1 DEF Job
  <2>4. job[h].pc = "claiming" /\ cancels' = cancels  BY <1>2 DEF Claim, At
  <2>. HIDE DEF j
  <2>. QED  BY <1>0, <2>2, <2>3, <2>4
<1>3. CASE Provider(h) /\ \E c \in Costs :
             job' = [job EXCEPT ![h].pc = "settling", ![h].cost = c, ![h].settling = TRUE]
  <2>1. PICK c \in Costs :
           job' = [job EXCEPT ![h].pc = "settling", ![h].cost = c, ![h].settling = TRUE]
    BY <1>3
  <2>. DEFINE j == [[[job[h] EXCEPT !.pc = "settling"] EXCEPT !.cost = c]
                      EXCEPT !.settling = TRUE]
  <2>2. /\ j.pc = "settling" /\ j.user = job[h].user /\ j.key = job[h].key
        /\ j.fp = job[h].fp /\ j.aborted = job[h].aborted /\ j.res = job[h].res
    BY <1>0 DEF Job
  <2>3. job' = [job EXCEPT ![h] = j]  BY <1>0, <2>1 DEF Job
  <2>4. cancels' = cancels  BY <1>3 DEF Provider
  <2>. HIDE DEF j
  <2>. QED  BY <1>0, <2>2, <2>3, <2>4
<1>. QED
  BY <1>1, <1>2, <1>3
     DEF HandlerStep, Claim, Reserve, Provider, Settle, FailClaim, Refund, Leave, Steps

\* One handler moves; the rows that the others have claimed stay.
LEMMA ClaimsStep ==
    ASSUME ClaimsOK, NEW h \in Handlers,
           \A g \in Handlers \ {h} : job'[g] = job[g],
           \A g \in Handlers \ {h} :
              job[g].pc \in ClaimedSteps =>
                 chat'[job[g].user][job[g].key] = chat[job[g].user][job[g].key],
           job'[h].pc \in ClaimedSteps =>
              /\ Kept(chat'[job'[h].user][job'[h].key], job'[h])
              /\ \A g \in Handlers \ {h} :
                    ~(/\ job[g].pc \in ClaimedSteps
                      /\ job[g].user = job'[h].user /\ job[g].key = job'[h].key)
    PROVE  ClaimsOK'
<1>1. ASSUME NEW g \in Handlers, job'[g].pc \in ClaimedSteps
      PROVE  Kept(chat'[job'[g].user][job'[g].key], job'[g])
  BY <1>1 DEF ClaimsOK
<1>2. ASSUME NEW f \in Handlers, NEW g \in Handlers,
             job'[f].pc \in ClaimedSteps, job'[g].pc \in ClaimedSteps,
             job'[f].user = job'[g].user, job'[f].key = job'[g].key
      PROVE  f = g
  BY <1>2 DEF ClaimsOK
<1>. QED  BY <1>1, <1>2 DEF ClaimsOK, ClaimedSteps, Kept

\* No handler moves, and the rows that they have claimed stay.
LEMMA ClaimsFrame ==
    ASSUME ClaimsOK,
           \A g \in Handlers :
              /\ job'[g].pc = job[g].pc /\ job'[g].user = job[g].user
              /\ job'[g].key = job[g].key /\ job'[g].fp = job[g].fp
              /\ job[g].pc \in ClaimedSteps =>
                    chat'[job[g].user][job[g].key] = chat[job[g].user][job[g].key]
    PROVE  ClaimsOK'
<1>1. ASSUME NEW h \in Handlers, job'[h].pc \in ClaimedSteps
      PROVE  Kept(chat'[job'[h].user][job'[h].key], job'[h])
  <2>1. Kept(chat[job[h].user][job[h].key], job[h])
    BY <1>1 DEF ClaimsOK
  <2>2. chat'[job'[h].user][job'[h].key] = chat[job[h].user][job[h].key]
    BY <1>1
  <2>. QED BY <2>1, <2>2 DEF Kept
<1>2. ASSUME NEW f \in Handlers, NEW g \in Handlers,
             job'[f].pc \in ClaimedSteps, job'[g].pc \in ClaimedSteps,
             job'[f].user = job'[g].user, job'[f].key = job'[g].key
      PROVE  f = g
  BY <1>2 DEF ClaimsOK
<1>. QED  BY <1>1, <1>2 DEF ClaimsOK, ClaimedSteps, Kept

\* A handler that has the claim moves; only its own row changes.
LEMMA ClaimGoesOn ==
    ASSUME JobsOK, ClaimsOK, NEW h \in Handlers, job[h].pc \in ClaimedSteps,
           \A g \in Handlers \ {h} : job'[g] = job[g],
           \A v \in Users, l \in RequestKeys :
              v # job[h].user \/ l # job[h].key => chat'[v][l] = chat[v][l],
           job'[h].pc \in ClaimedSteps =>
              /\ job'[h].user = job[h].user /\ job'[h].key = job[h].key
              /\ job'[h].fp = job[h].fp
              /\ Kept(chat'[job[h].user][job[h].key], job[h])
    PROVE  ClaimsOK'
<1>1. ASSUME NEW g \in Handlers \ {h}, job[g].pc \in ClaimedSteps
      PROVE  /\ job[g].user # job[h].user \/ job[g].key # job[h].key
             /\ job[g].user \in Users /\ job[g].key \in RequestKeys
  BY <1>1, RequestKnown DEF ClaimsOK, ClaimedSteps
<1>. QED  BY <1>1, ClaimsStep DEF Kept

LEMMA HandlerClaims ==
    ASSUME TypeOK, JobsOK, ClaimsOK, NEW h \in Handlers, HandlerStep(h)
    PROVE  ClaimsOK'
<1>. DEFINE u == job[h].user
            k == job[h].key
            f == job[h].fp
            e == Task(h)
<1>0. job[h].pc # "idle"
  BY DEF HandlerStep, Claim, Reserve, Provider, Settle, FailClaim, Refund, Leave, At
<1>a. /\ u \in Users /\ k \in RequestKeys /\ f \in Fingerprints /\ e \in Tasks
      /\ e = ExecutionOf[f]
  BY <1>0, RequestKnown DEF Task
<1>b. /\ \A g \in Handlers \ {h} : job'[g] = job[g]
      /\ job'[h].pc # "idle" => /\ job'[h].user = u /\ job'[h].key = k /\ job'[h].fp = f
  BY HandlerMoves
<1>c. \A g \in Handlers : job[g].pc \in ClaimedSteps =>
         /\ job[g].user \in Users /\ job[g].key \in RequestKeys
         /\ ~chat[job[g].user][job[g].key].stale
         /\ chat[job[g].user][job[g].key].status \in {"pending", "complete"}
  BY RequestKnown DEF ClaimsOK, Kept, ClaimedSteps
<1>1. CASE Claim(h)
  <2>1. CASE ClaimChatRequest(u, k, f, e)
    <3>. HIDE DEF u, k, f, e
    <3>1. /\ chat'[u][k] = [status |-> "pending", fp |-> f, exec |-> e, stale |-> FALSE]
          /\ chat[u][k].stale \/ chat[u][k].status \notin {"pending", "complete"}
          /\ \A v \in Users, l \in RequestKeys :
                (v # u \/ l # k) /\ ~chat[v][l].stale => chat'[v][l] = chat[v][l]
      BY <2>1, <1>a, ClaimRows
    <3>2. \A g \in Handlers : job[g].pc \in ClaimedSteps => job[g].user # u \/ job[g].key # k
      BY <1>c, <3>1
    <3>3. \A g \in Handlers \ {h} : job[g].pc \in ClaimedSteps =>
             chat'[job[g].user][job[g].key] = chat[job[g].user][job[g].key]
      BY <1>c, <3>1, <3>2
    <3>4. job'[h].pc \in ClaimedSteps => Kept(chat'[job'[h].user][job'[h].key], job'[h])
      BY <1>a, <1>b, <3>1 DEF Kept, ClaimedSteps
    <3>5. job'[h].pc \in ClaimedSteps => job'[h].user = u /\ job'[h].key = k
      BY <1>b DEF ClaimedSteps
    <3>. QED  BY <1>b, <3>2, <3>3, <3>4, <3>5, ClaimsStep
  <2>2. CASE ClaimRefused(u, k, f, e) \/ UNCHANGED vars
    <3>1. ~ClaimChatRequest(u, k, f, e) => job'[h].pc \in {"idle", "answered"}
      BY <1>1, GotoFacts DEF Claim, Steps
    <3>2. CASE ClaimChatRequest(u, k, f, e)  BY <2>1, <3>2
    <3>3. CASE ~ClaimChatRequest(u, k, f, e)
      <4>1. \A v \in Users, l \in RequestKeys :
               ~chat[v][l].stale => chat'[v][l] = chat[v][l]
        BY <2>2, <1>a, RefusedRows DEF vars
      <4>2. job'[h].pc \notin ClaimedSteps  BY <3>1, <3>3 DEF ClaimedSteps
      <4>. QED  BY <1>b, <1>c, <4>1, <4>2, ClaimsStep
    <3>. QED  BY <3>2, <3>3
  <2>. QED  BY <1>1, <2>1, <2>2 DEF Claim
<1>2. CASE Settle(h)
  <2>0. job[h].pc = "settling"  BY <1>2 DEF Settle, At
  <2>1. CASE SettleUsage(u, job[h].res, k, f, e, job[h].cost)
    <3>1. job[h].res \in ReservationIds /\ job[h].cost \in Costs
      BY <1>0, <2>0, RequestKnown
    <3>. HIDE DEF u, k, f, e
    <3>2. /\ chat'[u][k].status = "complete" /\ chat'[u][k].fp = f /\ chat'[u][k].exec = e
          /\ ~chat[u][k].stale => ~chat'[u][k].stale
          /\ \A v \in Users, l \in RequestKeys : v # u \/ l # k => chat'[v][l] = chat[v][l]
      BY <2>1, <3>1, <1>a, SettledRows
    <3>3. ~chat[u][k].stale  BY <1>c, <2>0 DEF u, k, ClaimedSteps
    <3>4. Kept(chat'[u][k], job[h])  BY <3>2, <3>3, <1>a DEF Kept, f
    <3>. QED
      BY <1>b, <2>0, <3>2, <3>4, ClaimGoesOn DEF u, k, f, ClaimedSteps
  <2>2. CASE UNCHANGED vars
    BY <2>0, <2>2, <1>b, ClaimGoesOn DEF vars, ClaimedSteps, ClaimsOK
  <2>. QED  BY <1>2, <2>1, <2>2 DEF Settle
<1>3. CASE FailClaim(h)
  <2>0. job[h].pc \in {"failing", "unclaiming"}  BY <1>3 DEF FailClaim
  <2>1. job'[h].pc \notin ClaimedSteps
    BY <1>3, GotoFacts DEF FailClaim, At, Steps, ClaimedSteps
  <2>2. CASE FailChatRequest(u, k, f, e)
    BY <1>a, <1>b, <2>0, <2>1, <2>2, FailedRows, ClaimGoesOn DEF ClaimedSteps
  <2>3. CASE UNCHANGED vars
    BY <1>b, <2>0, <2>1, <2>3, ClaimGoesOn DEF vars, ClaimedSteps
  <2>. QED  BY <1>3, <2>2, <2>3 DEF FailClaim
<1>4. CASE /\ chat' = chat
           /\ job'[h].pc \in ClaimedSteps => job[h].pc \in ClaimedSteps
  <2>1. job'[h].pc \in ClaimedSteps =>
           /\ job'[h].user = u /\ job'[h].key = k /\ job'[h].fp = f
    BY <1>b DEF ClaimedSteps
  <2>. QED  BY <1>b, <1>4, <2>1, ClaimsStep DEF ClaimsOK, Kept
<1>5. CASE Reserve(h)
  BY <1>5, <1>4 DEF Reserve, At, ClaimedSteps, ReserveUsage, vars
<1>6. CASE Provider(h)
  BY <1>6, <1>4 DEF Provider, At, ClaimedSteps, vars
<1>7. CASE Refund(h)
  <2>1. job[h].pc = "releasing" => job'[h].pc = "idle"
    BY <1>7, GotoFacts DEF Refund, At, Steps
  <2>. QED  BY <1>7, <1>4, <2>1 DEF Refund, ClaimedSteps, ReleaseUsage, vars
<1>8. CASE Leave(h)
  BY <1>8, <1>4, GotoFacts DEF Leave, Steps, ClaimedSteps, vars
<1>. QED  BY <1>1, <1>2, <1>3, <1>5, <1>6, <1>7, <1>8 DEF HandlerStep

LEMMA ClaimsNext ==
    ASSUME TypeOK, JobsOK, ClaimsOK, [GatewayNext]_gatewayVars
    PROVE  ClaimsOK'
<1>0. job \in [Handlers -> Job]  BY DEF JobsOK
<1>1. ASSUME NEW h \in Handlers, NEW u \in Users, NEW k \in RequestKeys,
             NEW f \in Fingerprints, Arrive(h, u, k, f)
      PROVE  ClaimsOK'
  <2>1. job'[h].pc = "claiming" /\ \A g \in Handlers \ {h} : job'[g] = job[g]
    BY <1>0, <1>1 DEF Arrive, NoJob
  <2>2. chat' = chat  BY <1>1 DEF Arrive, vars
  <2>. QED  BY <2>1, <2>2, ClaimsStep DEF ClaimedSteps
<1>2. ASSUME NEW h \in Handlers, HandlerStep(h) PROVE ClaimsOK'
  BY <1>2, HandlerClaims
<1>3. ASSUME NEW h \in Handlers, Disconnect(h) \/ RenewalFails(h) PROVE ClaimsOK'
  <2>1. chat' = chat /\ job' = [job EXCEPT ![h].aborted = TRUE]
    BY <1>3 DEF Disconnect, RenewalFails, vars
  <2>. QED  BY <1>0, <2>1, ClaimsFrame DEF Job
<1>4. ASSUME NEW e \in Executions, CancelTask(e) PROVE ClaimsOK'
  BY <1>4, ClaimsFrame DEF CancelTask, EndExecution
<1>5. ASSUME NEW e \in Executions, StopChats(e) PROVE ClaimsOK'
  <2>1. chat' = chat  BY <1>5 DEF StopChats, vars
  <2>2. \A g \in Handlers :
           job'[g] = job[g] \/ job'[g] = [job[g] EXCEPT !.aborted = TRUE]
    BY <1>5 DEF StopChats
  <2>. QED  BY <1>0, <2>1, <2>2, ClaimsFrame DEF Job
<1>6. ASSUME NEW e \in Executions, ReleaseStopped(e) PROVE ClaimsOK'
  BY <1>6, ClaimsFrame DEF ReleaseStopped, ReleaseUsage, vars
<1>7. ASSUME Crash PROVE ClaimsOK'
  BY <1>7 DEF Crash, ClaimsOK, NoJob, ClaimedSteps
<1>8. ASSUME Background PROVE ClaimsOK'
  <2>1. CASE \E u \in Users, k \in RequestKeys :
                /\ \A h \in Handlers : job[h].user # u \/ job[h].key # k
                /\ LapseChat(u, k)
    <3>1. PICK u \in Users, k \in RequestKeys :
             /\ \A h \in Handlers : job[h].user # u \/ job[h].key # k
             /\ LapseChat(u, k)
      BY <2>1
    <3>2. \A v \in Users, l \in RequestKeys : v # u \/ l # k => chat'[v][l] = chat[v][l]
      BY <3>1 DEF LapseChat, TypeOK
    <3>3. \A g \in Handlers : job[g].pc \in ClaimedSteps =>
             job[g].user \in Users /\ job[g].key \in RequestKeys
      BY RequestKnown DEF ClaimedSteps
    <3>. QED  BY <1>8, <3>1, <3>2, <3>3, ClaimsFrame DEF Background
  <2>2. CASE chat' = chat
    BY <1>8, <2>2, ClaimsFrame DEF Background
  <2>. QED
    BY <1>8, <2>1, <2>2
       DEF Background, ReapExpired, LapseReservation, LapseGrant, MarkExpired, EndExecution
<1>9. ASSUME UNCHANGED gatewayVars PROVE ClaimsOK'
  BY <1>9, ClaimsFrame DEF gatewayVars
<1>. QED
  BY <1>1, <1>2, <1>3, <1>4, <1>5, <1>6, <1>7, <1>8, <1>9 DEF GatewayNext, CancelStep

\* What holds of the tables holds while the gateway runs.
LEMMA GatewayTables ==
    GatewaySpec => [](JobsOK /\ TypeOK /\ ChatBillingConsistent /\ OneChatEntry)
<1>1. GatewayInit => JobsOK
  BY DEF GatewayInit, JobsOK, GoodJob, NoJob, NoCancel, Job, Steps, Cancel
<1>2. JobsOK /\ [GatewayNext]_gatewayVars => JobsOK'
  BY GatewayKeepsJobs
<1>. QED  BY <1>1, <1>2, GatewayImplementsBilling, ChargesAlways, PTL DEF GatewaySpec

LEMMA ClaimsAlways == GatewaySpec => []ClaimsOK
<1>1. GatewayInit => ClaimsOK
  BY DEF GatewayInit, ClaimsOK, NoJob, ClaimedSteps
<1>2. TypeOK /\ JobsOK /\ ClaimsOK /\ [GatewayNext]_gatewayVars => ClaimsOK'
  BY ClaimsNext
<1>. QED  BY <1>1, <1>2, GatewayTables, PTL DEF GatewaySpec

\* At no time do two handlers work on one request: a duplicate that arrives while the
\* first is at work is refused at its claim, and the sweep of lapsed rows, a crash or a
\* lost reply never hands a claim out twice.
THEOREM OneHandlerPerRequest == GatewaySpec => []SingleFlight
<1>1. ClaimsOK => SingleFlight
  BY DEF ClaimsOK, SingleFlight, Working, ClaimedSteps
<1>. QED  BY <1>1, ClaimsAlways, PTL

(***************************************************************************)
(* Answers and their bills.                                                *)
(***************************************************************************)

\* The request of an answer has been charged.
AnswersOK ==
    \A h \in Handlers :
        job[h].pc = "answered" => Posted(job[h].user, ChatId(job[h].key, job[h].fp)) # {}

\* A charge is never taken back.
LEMMA PostedStays ==
    ASSUME TypeOK, JobsOK, [GatewayNext]_gatewayVars, NEW u, NEW id, Posted(u, id) # {}
    PROVE  {e \in ledger' : e.user = u /\ e.id = id} # {}
<1>1. ledger \subseteq ledger'  BY GatewayIsBilling, LedgerGrows
<1>. QED  BY <1>1 DEF Posted

\* A handler that begins to answer has a completed row or has settled.
LEMMA AnswerFromHandler ==
    ASSUME TypeOK, JobsOK, ChatBillingConsistent', NEW h \in Handlers, HandlerStep(h),
           job'[h].pc = "answered"
    PROVE  {e \in ledger' : /\ e.user = job[h].user
                            /\ e.id = ChatId(job[h].key, job[h].fp)} # {}
<1>. DEFINE u == job[h].user
            k == job[h].key
            f == job[h].fp
            e == Task(h)
<1>0. job[h].pc # "idle"
  BY DEF HandlerStep, Claim, Reserve, Provider, Settle, FailClaim, Refund, Leave, At
<1>a. u \in Users /\ k \in RequestKeys /\ f \in Fingerprints /\ e \in Tasks
  BY <1>0, RequestKnown
<1>1. CASE Claim(h)
  <2>1. job'[h].pc = "answered" => ~\E r \in Fresh :
           job' = [job EXCEPT ![h].pc = "reserving", ![h].res = r]
    BY DEF JobsOK, Job
  <2>2. ~Goto(h, "idle")  BY GotoFacts DEF Steps
  <2>3. ClaimRefused(u, k, f, e) /\ chat'[u][k].status = "complete"
    BY <1>1, <2>1, <2>2 DEF Claim
  <2>. HIDE DEF u, k, f, e
  <2>4. chat'[u][k].fp = f  BY <1>a, <2>3, RefusedRows
  <2>5. {x \in ledger' : x.user = u /\ x.id = ChatId(k, f)} # {}
    BY <1>a, <2>3, <2>4 DEF ChatBillingConsistent, Posted, ChatId
  <2>. QED  BY <2>5 DEF u, k, f
<1>2. CASE Settle(h)
  <2>1. ~Goto(h, "failing")  BY GotoFacts DEF Steps
  <2>2. SettleUsage(u, job[h].res, k, f, e, job[h].cost)  BY <1>2, <2>1 DEF Settle
  <2>3. job[h].res \in ReservationIds /\ job[h].cost \in Costs
    BY <1>0, <1>2, RequestKnown DEF Settle, At
  <2>. HIDE DEF u, k, f, e
  <2>4. chat'[u][k].status = "complete" /\ chat'[u][k].fp = f
    BY <1>a, <2>2, <2>3, SettledRows
  <2>5. {x \in ledger' : x.user = u /\ x.id = ChatId(k, f)} # {}
    BY <1>a, <2>4 DEF ChatBillingConsistent, Posted, ChatId
  <2>. QED  BY <2>5 DEF u, k, f
<1>3. CASE Reserve(h)  BY <1>3, GotoFacts DEF Reserve, Steps
<1>4. CASE Provider(h)
  <2>1. \A c \in Costs :
           job' # [job EXCEPT ![h].pc = "settling", ![h].cost = c, ![h].settling = TRUE]
    BY DEF JobsOK, Job
  <2>. QED  BY <1>4, <2>1, GotoFacts DEF Provider, Steps
<1>5. CASE FailClaim(h)  BY <1>5, GotoFacts DEF FailClaim, Steps
<1>6. CASE Refund(h)  BY <1>6, GotoFacts DEF Refund, Steps
<1>7. CASE Leave(h)  BY <1>7, GotoFacts DEF Leave, Steps
<1>. QED  BY <1>1, <1>2, <1>3, <1>4, <1>5, <1>6, <1>7 DEF HandlerStep

\* In every other step no handler begins to answer.
LEMMA AnswersNext ==
    ASSUME TypeOK, JobsOK, ChatBillingConsistent', AnswersOK, [GatewayNext]_gatewayVars
    PROVE  AnswersOK'
<1>0. job \in [Handlers -> Job]  BY DEF JobsOK
<1>. SUFFICES ASSUME NEW g \in Handlers, job'[g].pc = "answered"
              PROVE  {x \in ledger' : /\ x.user = job'[g].user
                                      /\ x.id = ChatId(job'[g].key, job'[g].fp)} # {}
  BY DEF AnswersOK, Posted, ChatId
<1>s. CASE /\ job[g].pc = "answered" /\ job'[g].user = job[g].user
           /\ job'[g].key = job[g].key /\ job'[g].fp = job[g].fp
  <2>1. Posted(job[g].user, ChatId(job[g].key, job[g].fp)) # {}  BY <1>s DEF AnswersOK
  <2>. QED  BY <1>s, <2>1, PostedStays
<1>1. ASSUME NEW h \in Handlers, NEW u \in Users, NEW k \in RequestKeys,
             NEW f \in Fingerprints, Arrive(h, u, k, f)
      PROVE  job'[g] = job[g]
  BY <1>0, <1>1 DEF Arrive, NoJob
<1>2. ASSUME NEW h \in Handlers, HandlerStep(h)
      PROVE  \/ job'[g] = job[g]
             \/ {x \in ledger' : /\ x.user = job'[g].user
                                 /\ x.id = ChatId(job'[g].key, job'[g].fp)} # {}
  <2>1. CASE g = h
    <3>1. {x \in ledger' : /\ x.user = job[g].user
                           /\ x.id = ChatId(job[g].key, job[g].fp)} # {}
      BY <1>2, <2>1, AnswerFromHandler
    <3>2. /\ job'[g].user = job[g].user /\ job'[g].key = job[g].key
          /\ job'[g].fp = job[g].fp
      BY <1>2, <2>1, HandlerMoves
    <3>. QED  BY <3>1, <3>2
  <2>2. CASE g # h  BY <1>2, <2>2, HandlerMoves
  <2>. QED  BY <2>1, <2>2
<1>3. ASSUME NEW h \in Handlers, Disconnect(h) \/ RenewalFails(h)
      PROVE  job'[g].pc = job[g].pc /\ job'[g].user = job[g].user
             /\ job'[g].key = job[g].key /\ job'[g].fp = job[g].fp
  BY <1>0, <1>3 DEF Disconnect, RenewalFails, Job
<1>4. ASSUME NEW e \in Executions, CancelTask(e) PROVE job'[g] = job[g]
  BY <1>4 DEF CancelTask
<1>5. ASSUME NEW e \in Executions, StopChats(e)
      PROVE  job'[g].pc = job[g].pc /\ job'[g].user = job[g].user
             /\ job'[g].key = job[g].key /\ job'[g].fp = job[g].fp
  <2>1. job'[g] = job[g] \/ job'[g] = [job[g] EXCEPT !.aborted = TRUE]
    BY <1>5 DEF StopChats
  <2>. QED  BY <1>0, <2>1 DEF Job
<1>6. ASSUME NEW e \in Executions, ReleaseStopped(e) PROVE job'[g] = job[g]
  BY <1>6 DEF ReleaseStopped
<1>7. ASSUME Crash PROVE FALSE
  BY <1>7 DEF Crash, NoJob
<1>8. ASSUME Background \/ UNCHANGED gatewayVars PROVE job'[g] = job[g]
  BY <1>8 DEF Background, gatewayVars
<1>. QED
  BY <1>s, <1>1, <1>2, <1>3, <1>4, <1>5, <1>6, <1>7, <1>8 DEF GatewayNext, CancelStep

\* No answer leaves the server unbilled or billed twice: fresh answers are settled
\* first, cached ones come from a row that was completed with its charge.
THEOREM AnswersAreBilledOnce == GatewaySpec => []AnsweredIsBilled
<1>1. GatewayInit => AnswersOK  BY DEF GatewayInit, AnswersOK, NoJob
<1>2. JobsOK /\ TypeOK /\ ChatBillingConsistent' /\ AnswersOK /\ [GatewayNext]_gatewayVars
        => AnswersOK'
  BY AnswersNext
<1>3. JobsOK /\ OneChatEntry /\ AnswersOK => AnsweredIsBilled
  <2>. SUFFICES ASSUME JobsOK, OneChatEntry, AnswersOK, NEW h \in Handlers, At(h, "answered")
                PROVE  \E e \in ledger : Posted(job[h].user, ChatId(job[h].key, job[h].fp)) = {e}
    BY DEF AnsweredIsBilled
  <2>1. job[h].user \in Users  BY RequestKnown DEF At
  <2>2. Posted(job[h].user, ChatId(job[h].key, job[h].fp)) # {}  BY DEF At, AnswersOK
  <2>. QED  BY <2>1, <2>2, PostedChat
<1>. QED  BY <1>1, <1>2, <1>3, GatewayTables, PTL DEF GatewaySpec

\* An answer that was paid for stays available until its row lapses: no error path,
\* cancellation, duplicate or sweep touches the row.
THEOREM PaidAnswersStay == GatewaySpec => PaidAnswerKept
<1>1. TypeOK /\ JobsOK /\ [GatewayNext]_gatewayVars =>
        [\A u \in Users, k \in RequestKeys :
            chat[u][k].status = "complete" /\ ~chat[u][k].stale =>
                chat'[u][k].status = "complete" /\ chat'[u][k].fp = chat[u][k].fp]_gatewayVars
  BY GatewayIsBilling, CompletedStays
<1>. QED  BY <1>1, GatewayTables, PTL DEF GatewaySpec, PaidAnswerKept

\* The charge and the completion of a request are one transaction in every behaviour,
\* so a reply that is lost after it costs nothing when the request is repeated.
THEOREM ChargesComplete == GatewaySpec => ChargeCompletes
<1>1. TypeOK /\ JobsOK /\ [GatewayNext]_gatewayVars =>
        [\A u \in Users, k \in RequestKeys, f \in Fingerprints :
            Posted(u, ChatId(k, f)) = {} /\ Posted(u, ChatId(k, f))' # {} =>
                chat'[u][k].status = "complete" /\ chat'[u][k].fp = f]_gatewayVars
  BY GatewayIsBilling, ChargedIsCompleted
<1>. QED  BY <1>1, GatewayTables, PTL DEF GatewaySpec, ChargeCompletes

(***************************************************************************)
(* Failures.  What holds as long as the process runs and its error paths   *)
(* work: replies may be lost, nothing else goes wrong.                     *)
(***************************************************************************)

\* A handler that gives its claim up leaves no pending row.
LEMMA ClaimGivenUp ==
    ASSUME Faults \subseteq {"lost"}, TypeOK, JobsOK, ClaimsOK, NEW h \in Handlers,
           HandlerStep(h), job[h].pc \in ClaimedSteps, job'[h].pc \notin ClaimedSteps
    PROVE  \/ chat'[job[h].user][job[h].key].status # "pending"
           \/ Posted(job[h].user, ChatId(job[h].key, job[h].fp)) # {}
<1>. DEFINE u == job[h].user
            k == job[h].key
            f == job[h].fp
            e == Task(h)
<1>a. u \in Users /\ k \in RequestKeys /\ f \in Fingerprints /\ e \in Tasks
  BY RequestKnown DEF ClaimedSteps
<1>1. CASE Settle(h)
  <2>1. ~Goto(h, "failing")  BY GotoFacts DEF Steps, ClaimedSteps
  <2>2. SettleUsage(u, job[h].res, k, f, e, job[h].cost)  BY <1>1, <2>1 DEF Settle
  <2>3. job[h].res \in ReservationIds /\ job[h].cost \in Costs
    BY <1>1, RequestKnown DEF Settle, At
  <2>. QED  BY <1>a, <2>2, <2>3, SettledRows
<1>2. CASE FailClaim(h)
  <2>1. CASE FailChatRequest(u, k, f, e)
    BY <1>a, <2>1, FailedRows
  <2>2. CASE ~Failable(job[h], e) /\ UNCHANGED vars
    <3>1. chat[u][k].fp = f /\ chat[u][k].exec = e  BY DEF ClaimsOK, Kept, Task
    <3>. QED  BY <2>2, <3>1 DEF Failable, vars
  <2>. QED  BY <1>2, <2>1, <2>2 DEF FailClaim
<1>3. CASE Claim(h)  BY <1>3 DEF Claim, At, ClaimedSteps
<1>4. CASE Reserve(h)  BY <1>4, GotoFacts DEF Reserve, Steps, ClaimedSteps
<1>5. CASE Provider(h)
  <2>1. ~Goto(h, "rejected") /\ ~Goto(h, "failing")  BY GotoFacts DEF Steps, ClaimedSteps
  <2>2. \A c \in Costs :
           job' # [job EXCEPT ![h].pc = "settling", ![h].cost = c, ![h].settling = TRUE]
    BY DEF JobsOK, Job, ClaimedSteps
  <2>. QED  BY <1>5, <2>1, <2>2 DEF Provider
<1>6. CASE Refund(h)
  <2>1. job[h].pc = "rejected"  BY <1>6 DEF Refund, ClaimedSteps
  <2>. QED  BY <1>6, <2>1, GotoFacts DEF Refund, At, Steps, ClaimedSteps
<1>7. CASE Leave(h)  BY <1>7 DEF Leave, At, ClaimedSteps
<1>. QED  BY <1>1, <1>2, <1>3, <1>4, <1>5, <1>6, <1>7 DEF HandlerStep

LEMMA FailureFrees ==
    ASSUME Faults \subseteq {"lost"}, TypeOK, JobsOK, ClaimsOK, [GatewayNext]_gatewayVars,
           NEW g \in Handlers, job[g].pc \in ClaimedSteps, job'[g].pc \notin ClaimedSteps
    PROVE  \/ chat'[job[g].user][job[g].key].status # "pending"
           \/ Posted(job[g].user, ChatId(job[g].key, job[g].fp)) # {}
<1>0. job \in [Handlers -> Job]  BY DEF JobsOK
<1>1. ASSUME NEW h \in Handlers, NEW u \in Users, NEW k \in RequestKeys,
             NEW f \in Fingerprints, Arrive(h, u, k, f)
      PROVE  FALSE
  BY <1>0, <1>1 DEF Arrive, At, NoJob, ClaimedSteps
<1>2. ASSUME NEW h \in Handlers, HandlerStep(h) PROVE g = h
  BY <1>2, HandlerMoves
<1>3. ASSUME NEW h \in Handlers, Disconnect(h) \/ RenewalFails(h) PROVE FALSE
  BY <1>0, <1>3 DEF Disconnect, RenewalFails, Job
<1>4. ASSUME NEW e \in Executions, CancelTask(e) PROVE FALSE
  BY <1>4 DEF CancelTask
<1>5. ASSUME NEW e \in Executions, StopChats(e) PROVE FALSE
  <2>1. job'[g] = job[g] \/ job'[g] = [job[g] EXCEPT !.aborted = TRUE]
    BY <1>5 DEF StopChats
  <2>. QED  BY <1>0, <2>1 DEF Job
<1>6. ASSUME NEW e \in Executions, ReleaseStopped(e) PROVE FALSE
  BY <1>6 DEF ReleaseStopped
<1>7. ASSUME Crash PROVE FALSE
  BY <1>7 DEF Crash
<1>8. ASSUME Background \/ UNCHANGED gatewayVars PROVE FALSE
  BY <1>8 DEF Background, gatewayVars
<1>. QED
  BY <1>1, <1>2, <1>3, <1>4, <1>5, <1>6, <1>7, <1>8, ClaimGivenUp DEF GatewayNext, CancelStep

\* Whichever way a handler leaves its claim, the request can be sent again, unless it
\* was paid before: as long as the error paths work, also when replies are lost.
THEOREM FailuresFreeTheirClaims ==
    ASSUME Faults \subseteq {"lost"}
    PROVE  GatewaySpec => FailureFreesRetry
<1>1. TypeOK /\ JobsOK /\ ClaimsOK /\ [GatewayNext]_gatewayVars =>
        [\A h \in Handlers :
            Claimed(h) /\ ~Claimed(h)' =>
                \/ chat'[job[h].user][job[h].key].status # "pending"
                \/ Posted(job[h].user, ChatId(job[h].key, job[h].fp)) # {}]_gatewayVars
  BY FailureFrees DEF Claimed, ClaimedSteps
<1>. QED  BY <1>1, GatewayTables, ClaimsAlways, PTL DEF GatewaySpec, FailureFreesRetry

\* A handler that will settle or release what its reservation holds.
Owning == {"calling", "settling", "rejected", "failing", "releasing"}

\* The inductive invariant: what is held is held for the account of such a handler.
FundsOwned ==
    \A r \in ReservationIds :
        reservations[r].status = "reserved" =>
            \E h \in Handlers :
                /\ job[h].pc \in Owning
                /\ job[h].res = r /\ job[h].user = reservations[r].user

\* Steps that reserve nothing, and in which the owners keep what stays reserved.
LEMMA OwnersStay ==
    ASSUME FundsOwned,
           \A r \in ReservationIds :
              reservations'[r].status = "reserved" =>
                 /\ reservations[r].status = "reserved"
                 /\ reservations'[r].user = reservations[r].user
                 /\ \A h \in Handlers :
                       /\ job[h].pc \in Owning /\ job[h].res = r
                       /\ job[h].user = reservations[r].user
                       => /\ job'[h].pc \in Owning /\ job'[h].res = r
                          /\ job'[h].user = job[h].user
    PROVE  FundsOwned'
<1>. SUFFICES ASSUME NEW r \in ReservationIds, reservations'[r].status = "reserved"
              PROVE  \E h \in Handlers : /\ job'[h].pc \in Owning
                                         /\ job'[h].res = r
                                         /\ job'[h].user = reservations'[r].user
  BY DEF FundsOwned, Owning
<1>1. PICK h \in Handlers : /\ job[h].pc \in Owning
                            /\ job[h].res = r /\ job[h].user = reservations[r].user
  BY DEF FundsOwned
<1>. QED  BY <1>1

\* What a settlement and a refund leave of reservations.
LEMMA SettledReservation ==
    ASSUME TypeOK, NEW u \in Users, NEW r \in ReservationIds, NEW k \in RequestKeys,
           NEW f \in Fingerprints, NEW e \in Tasks, NEW cost \in Costs,
           SettleUsage(u, r, k, f, e, cost)
    PROVE  /\ \A q \in ReservationIds \ {r} : reservations'[q] = reservations[q]
           /\ reservations'[r].user = reservations[r].user
           /\ reservations'[r].status = "reserved" =>
                 reservations[r].status = "reserved" /\ ~Holding(r, u)
<1>0. reservations[r] \in Reservation /\ reservations \in [ReservationIds -> Reservation]
  BY DEF TypeOK
<1>1. CASE SettleFirst(u, r, k, f, e, cost)
  BY <1>0, <1>1 DEF SettleFirst, Reservation
<1>2. CASE SettleAgain(u, r, k, f, e, cost) /\ Holding(r, u)
  <2>1. reservations' = [reservations EXCEPT ![r].status = "released"]
    BY <1>2 DEF SettleAgain
  <2>. QED  BY <1>0, <2>1 DEF Reservation
<1>3. CASE SettleAgain(u, r, k, f, e, cost) /\ ~Holding(r, u)
  <2>1. reservations' = reservations  BY <1>3 DEF SettleAgain
  <2>. QED  BY <1>3, <2>1
<1>. QED  BY <1>1, <1>2, <1>3 DEF SettleUsage

LEMMA ReleasedReservation ==
    ASSUME TypeOK, NEW u \in Users, NEW r \in ReservationIds, ReleaseUsage(u, r)
    PROVE  /\ \A q \in ReservationIds \ {r} : reservations'[q] = reservations[q]
           /\ reservations'[r].user = reservations[r].user
           /\ reservations'[r].status = "released"
BY DEF ReleaseUsage, TypeOK, Reservation

LEMMA HandlerFunds ==
    ASSUME Faults \subseteq {"lost"}, TypeOK, JobsOK, FundsOwned,
           NEW h \in Handlers, HandlerStep(h)
    PROVE  FundsOwned'
<1>. DEFINE u == job[h].user
            k == job[h].key
            f == job[h].fp
            r == job[h].res
            e == Task(h)
<1>0. job[h].pc # "idle"
  BY DEF HandlerStep, Claim, Reserve, Provider, Settle, FailClaim, Refund, Leave, At
<1>a. u \in Users /\ k \in RequestKeys /\ f \in Fingerprints /\ e \in Tasks
  BY <1>0, RequestKnown
<1>b. \A g \in Handlers \ {h} : job'[g] = job[g]  BY HandlerMoves
<1>c. job'[h].pc # "idle" /\ job[h].pc # "claiming" => job'[h].user = u /\ job'[h].res = r
  BY HandlerMoves
<1>d. job[h].pc \notin {"idle", "claiming", "answered"} => r \in ReservationIds
  BY <1>0, RequestKnown
<1>1. CASE /\ reservations' = reservations
           /\ job[h].pc \in Owning => job'[h].pc \in Owning
  <2>1. job[h].pc \in Owning => job'[h].user = u /\ job'[h].res = r
    BY <1>1, <1>c DEF Owning
  <2>. QED  BY <1>1, <1>b, <2>1, OwnersStay
<1>2. CASE Claim(h)
  BY <1>2, <1>1 DEF Claim, At, Owning, ClaimChatRequest, ClaimRefused, vars
<1>3. CASE Reserve(h)
  <2>1. CASE UNCHANGED vars
    BY <1>3, <2>1, <1>1 DEF Reserve, At, Owning, vars
  <2>2. ASSUME NEW a \in ReserveAmounts, ReserveUsage(u, r, a, e) PROVE FundsOwned'
    <3>1. job[h].pc = "reserving" /\ job'[h].pc \in {"calling", "failing"}
      BY <1>3, GotoFacts DEF Reserve, At, Steps
    <3>2. r \in ReservationIds  BY <1>d, <3>1
    <3>3. /\ \A q \in ReservationIds \ {r} : reservations'[q] = reservations[q]
          /\ reservations'[r].user = u
      BY <2>2, <3>2 DEF ReserveUsage, TypeOK
    <3>4. job'[h].pc \in Owning /\ job'[h].res = r /\ job'[h].user = u
      BY <1>c, <3>1 DEF Owning
    <3>5. ASSUME NEW q \in ReservationIds, reservations'[q].status = "reserved"
          PROVE  \E g \in Handlers : /\ job'[g].pc \in Owning
                                     /\ job'[g].res = q
                                     /\ job'[g].user = reservations'[q].user
      <4>1. CASE q = r  BY <4>1, <3>3, <3>4
      <4>2. CASE q # r
        <5>1. PICK g \in Handlers : /\ job[g].pc \in Owning
                                    /\ job[g].res = q /\ job[g].user = reservations[q].user
          BY <3>3, <3>5, <4>2 DEF FundsOwned
        <5>2. g # h  BY <3>1, <5>1 DEF Owning
        <5>. QED  BY <1>b, <3>3, <4>2, <5>1, <5>2
      <4>. QED  BY <4>1, <4>2
    <3>. QED  BY <3>5 DEF FundsOwned, Owning
  <2>. QED  BY <1>3, <2>1, <2>2 DEF Reserve
<1>4. CASE Provider(h)
  <2>1. job'[h].pc \in Owning
    <3>1. CASE \E step \in {"rejected", "failing"} : Goto(h, step)
      BY <3>1, GotoFacts DEF Steps, Owning
    <3>2. CASE \E c \in Costs :
                 job' = [job EXCEPT ![h].pc = "settling", ![h].cost = c, ![h].settling = TRUE]
      BY <3>2 DEF JobsOK, Job, Owning
    <3>. QED  BY <1>4, <3>1, <3>2 DEF Provider
  <2>. QED  BY <1>4, <1>1, <2>1 DEF Provider, vars
<1>5. CASE Settle(h)
  <2>0. job[h].pc = "settling"  BY <1>5 DEF Settle, At
  <2>1. CASE UNCHANGED vars /\ Goto(h, "failing")
    BY <2>1, <1>1, GotoFacts DEF Steps, Owning, vars
  <2>2. CASE SettleUsage(u, r, k, f, e, job[h].cost)
    <3>1. r \in ReservationIds /\ job[h].cost \in Costs
      BY <1>0, <2>0, RequestKnown
    <3>. HIDE DEF u, k, f, e, r
    <3>2. /\ \A q \in ReservationIds \ {r} : reservations'[q] = reservations[q]
          /\ reservations'[r].user = reservations[r].user
          /\ reservations'[r].status = "reserved" =>
                reservations[r].status = "reserved" /\ ~Holding(r, u)
      BY <1>a, <2>2, <3>1, SettledReservation
    <3>3. ASSUME NEW q \in ReservationIds, reservations'[q].status = "reserved"
          PROVE  /\ reservations[q].status = "reserved"
                 /\ reservations'[q].user = reservations[q].user
                 /\ ~(job[h].res = q /\ job[h].user = reservations[q].user)
      BY <3>1, <3>2, <3>3 DEF Holding, u, r
    <3>. QED  BY <1>b, <3>3, OwnersStay
  <2>. QED  BY <1>5, <2>1, <2>2 DEF Settle
<1>6. CASE FailClaim(h)
  <2>1. job[h].pc = "failing" => job'[h].pc = "releasing"
    BY <1>6, GotoFacts DEF FailClaim, At, Steps
  <2>2. reservations' = reservations
    BY <1>6 DEF FailClaim, FailChatRequest, vars
  <2>. QED  BY <1>6, <1>1, <2>1, <2>2 DEF FailClaim, Owning
<1>7. CASE Refund(h)
  <2>0. job[h].pc \in {"releasing", "rejected"}  BY <1>7 DEF Refund
  <2>1. r \in ReservationIds  BY <1>d, <2>0
  <2>2. ReleaseUsage(u, r) \/ (~Holding(r, u) /\ UNCHANGED vars)  BY <1>7 DEF Refund
  <2>. HIDE DEF u, k, f, e, r
  <2>3. ASSUME NEW q \in ReservationIds, reservations'[q].status = "reserved"
        PROVE  /\ reservations[q].status = "reserved"
               /\ reservations'[q].user = reservations[q].user
               /\ ~(r = q /\ u = reservations[q].user)
    <3>1. CASE ReleaseUsage(u, r)
      BY <1>a, <2>1, <2>3, <3>1, ReleasedReservation
    <3>2. CASE ~Holding(r, u) /\ UNCHANGED vars
      BY <2>3, <3>2 DEF Holding, vars
    <3>. QED  BY <2>2, <3>1, <3>2
  <2>. QED  BY <1>b, <2>3, OwnersStay DEF u, r
<1>8. CASE Leave(h)
  BY <1>8, <1>1 DEF Leave, At, Owning, vars
<1>. QED  BY <1>2, <1>3, <1>4, <1>5, <1>6, <1>7, <1>8 DEF HandlerStep

LEMMA FundsNext ==
    ASSUME Faults \subseteq {"lost"}, TypeOK, JobsOK, FundsOwned, [GatewayNext]_gatewayVars
    PROVE  FundsOwned'
<1>0. job \in [Handlers -> Job]  BY DEF JobsOK
<1>a. reservations \in [ReservationIds -> Reservation]  BY DEF TypeOK
<1>1. ASSUME NEW h \in Handlers, NEW u \in Users, NEW k \in RequestKeys,
             NEW f \in Fingerprints, Arrive(h, u, k, f)
      PROVE  FundsOwned'
  <2>1. \A g \in Handlers : job[g].pc \in Owning => job'[g] = job[g]
    BY <1>0, <1>1 DEF Arrive, At, Owning
  <2>2. reservations' = reservations  BY <1>1 DEF Arrive, vars
  <2>. QED  BY <2>1, <2>2, OwnersStay
<1>2. ASSUME NEW h \in Handlers, HandlerStep(h) PROVE FundsOwned'
  BY <1>2, HandlerFunds
<1>3. ASSUME NEW h \in Handlers, Disconnect(h) \/ RenewalFails(h) PROVE FundsOwned'
  <2>1. \A g \in Handlers : /\ job'[g].pc = job[g].pc /\ job'[g].res = job[g].res
                            /\ job'[g].user = job[g].user
    BY <1>0, <1>3 DEF Disconnect, RenewalFails, Job
  <2>2. reservations' = reservations  BY <1>3 DEF Disconnect, RenewalFails, vars
  <2>. QED  BY <2>1, <2>2, OwnersStay
<1>4. ASSUME NEW e \in Executions, CancelTask(e) PROVE FundsOwned'
  BY <1>4, OwnersStay DEF CancelTask, EndExecution
<1>5. ASSUME NEW e \in Executions, StopChats(e) PROVE FundsOwned'
  <2>1. \A g \in Handlers : /\ job'[g].pc = job[g].pc /\ job'[g].res = job[g].res
                            /\ job'[g].user = job[g].user
    <3>1. \A g \in Handlers :
             job'[g] = job[g] \/ job'[g] = [job[g] EXCEPT !.aborted = TRUE]
      BY <1>5 DEF StopChats
    <3>. QED  BY <1>0, <3>1 DEF Job
  <2>2. reservations' = reservations  BY <1>5 DEF StopChats, vars
  <2>. QED  BY <2>1, <2>2, OwnersStay
<1>6. ASSUME NEW e \in Executions, ReleaseStopped(e) PROVE FundsOwned'
  <2>1. PICK r \in cancels[e].targets : (\E u \in Users : ReleaseUsage(u, r)) \/ UNCHANGED vars
    BY <1>6 DEF ReleaseStopped
  <2>2. r \in ReservationIds  BY DEF JobsOK, Cancel
  <2>3. \A q \in ReservationIds : reservations'[q].status = "reserved" =>
           /\ reservations[q].status = "reserved"
           /\ reservations'[q].user = reservations[q].user
    BY <2>1, <2>2, ReleasedReservation DEF vars
  <2>4. job' = job  BY <1>6 DEF ReleaseStopped
  <2>. QED  BY <2>3, <2>4, OwnersStay
<1>7. ASSUME Crash PROVE FALSE
  BY <1>7 DEF Crash
<1>8. ASSUME Background PROVE FundsOwned'
  <2>1. \A q \in ReservationIds : reservations'[q].status = "reserved" =>
           /\ reservations[q].status = "reserved"
           /\ reservations'[q].user = reservations[q].user
    <3>1. CASE ReapExpired
      <4>1. PICK rs : reservations' = [r \in ReservationIds |->
                        IF r \in rs THEN [reservations[r] EXCEPT !.status = "released"]
                        ELSE reservations[r]]
        BY <3>1 DEF ReapExpired
      <4>. QED  BY <1>a, <4>1 DEF Reservation
    <3>2. CASE \E r \in ReservationIds : LapseReservation(r)
      BY <1>a, <3>2 DEF LapseReservation, Reservation
    <3>3. CASE reservations' = reservations  BY <3>3
    <3>. QED
      BY <1>8, <3>1, <3>2, <3>3
         DEF Background, LapseGrant, MarkExpired, EndExecution, LapseChat
  <2>2. job' = job  BY <1>8 DEF Background
  <2>. QED  BY <2>1, <2>2, OwnersStay
<1>9. ASSUME UNCHANGED gatewayVars PROVE FundsOwned'
  BY <1>9, OwnersStay DEF gatewayVars
<1>. QED
  BY <1>1, <1>2, <1>3, <1>4, <1>5, <1>6, <1>7, <1>8, <1>9 DEF GatewayNext, CancelStep

\* As long as the process runs and its error paths work, no failure of a request
\* leaves its funds to the reaper: whatever is held, a handler will settle or release,
\* also when the replies of its transactions were lost.
THEOREM HeldFundsHaveOwner ==
    ASSUME Faults \subseteq {"lost"}
    PROVE  GatewaySpec => []HeldHasOwner
<1>1. GatewayInit => FundsOwned
  BY DEF GatewayInit, Init, FundsOwned, NoReservation
<1>2. TypeOK /\ JobsOK /\ FundsOwned /\ [GatewayNext]_gatewayVars => FundsOwned'
  BY FundsNext
<1>3. FundsOwned => HeldHasOwner
  BY DEF FundsOwned, HeldHasOwner, Owning
<1>. QED  BY <1>1, <1>2, <1>3, GatewayTables, PTL DEF GatewaySpec

(***************************************************************************)
(* Cancellation.                                                           *)
(***************************************************************************)

\* The inductive invariant: what was cancelled has no lease any more, so nothing more
\* is reserved for it; what had reserved before was there when the route looked, and is
\* aborted, and its funds are released or still to be.
CancelledOK(e) ==
    /\ cancels[e].stage # "no" => e \notin live
    /\ cancels[e].stage = "no" => cancels[e].targets = {}

WorkOK(h) ==
    /\ job[h].pc \in {"claiming", "reserving", "calling"} => ~job[h].settling
    /\ job[h].pc = "calling" => reservations[job[h].res].status # "none"

StoppedOK(e, h) ==
    cancels[e].stage = "waiting" /\ job[h].pc = "calling" /\ Task(h) = e =>
        /\ job[h].aborted
        /\ job[h].res \in cancels[e].targets \/ ~Holding(job[h].res, job[h].user)

CancelsOK ==
    /\ \A e \in Executions : CancelledOK(e)
    /\ \A h \in Handlers : WorkOK(h)
    /\ \A e \in Executions, h \in Handlers : StoppedOK(e, h)

\* A reservation is made once, and held again by nobody once it was given back.
LEMMA ReservationSteps ==
    ASSUME TypeOK, [Next]_vars, NEW r \in ReservationIds, reservations[r].status # "none"
    PROVE  /\ reservations'[r].status # "none"
           /\ reservations'[r].user = reservations[r].user
           /\ reservations'[r].status = "reserved" => reservations[r].status = "reserved"
<1>a. reservations \in [ReservationIds -> Reservation]  BY DEF TypeOK
<1>1. ASSUME NEW u \in Users, NEW q \in ReservationIds, NEW a \in ReserveAmounts,
             NEW e \in Tasks, ReserveUsage(u, q, a, e)
      PROVE  reservations'[r] = reservations[r]
  <2>1. q # r  BY <1>1 DEF ReserveUsage
  <2>. QED  BY <1>a, <1>1, <2>1 DEF ReserveUsage
<1>2. ASSUME NEW u \in Users, NEW q \in ReservationIds, ReleaseUsage(u, q)
      PROVE  \/ reservations'[r] = reservations[r]
             \/ reservations'[r] = [reservations[r] EXCEPT !.status = "released"]
  BY <1>a, <1>2 DEF ReleaseUsage
<1>3. ASSUME ReapExpired
      PROVE  \/ reservations'[r] = reservations[r]
             \/ reservations'[r] = [reservations[r] EXCEPT !.status = "released"]
  BY <1>a, <1>3 DEF ReapExpired
<1>4. ASSUME NEW u \in Users, NEW q \in ReservationIds, NEW k \in RequestKeys,
             NEW f \in Fingerprints, NEW e \in Tasks, NEW cost \in Costs,
             SettleAgain(u, q, k, f, e, cost) \/ SettleFirst(u, q, k, f, e, cost)
      PROVE  /\ reservations'[r].status # "none"
             /\ reservations'[r].user = reservations[r].user
             /\ reservations'[r].status = "reserved" => reservations[r].status = "reserved"
  <2>1. CASE SettleFirst(u, q, k, f, e, cost)
    <3>1. reservations' = [reservations EXCEPT ![q].status = "settled"]
      BY <2>1 DEF SettleFirst
    <3>. QED  BY <1>a, <3>1 DEF Reservation
  <2>2. CASE SettleAgain(u, q, k, f, e, cost)
    <3>1. \/ reservations' = [reservations EXCEPT ![q].status = "released"]
          \/ reservations' = reservations
      BY <2>2 DEF SettleAgain
    <3>. QED  BY <1>a, <3>1 DEF Reservation
  <2>. QED  BY <1>4, <2>1, <2>2
<1>5. ASSUME NEW q \in ReservationIds, LapseReservation(q)
      PROVE  \/ reservations'[r] = reservations[r]
             \/ reservations'[r] = [reservations[r] EXCEPT !.leased = FALSE]
  BY <1>a, <1>5 DEF LapseReservation
<1>6. CASE reservations'[r] = [reservations[r] EXCEPT !.status = "released"]
  BY <1>a, <1>6 DEF Reservation
<1>7. CASE reservations'[r] = [reservations[r] EXCEPT !.leased = FALSE]
  BY <1>a, <1>7 DEF Reservation
<1>8. CASE reservations'[r] = reservations[r]  BY <1>8
<1>. QED
  BY <1>1, <1>2, <1>3, <1>4, <1>5, <1>6, <1>7, <1>8
     DEF Next, vars, Topup, PurchaseCreditPack, RecordUsage, ClaimChatRequest, ClaimRefused,
         FailChatRequest, LapseGrant, MarkExpired, LapseChat, EndExecution

\* An execution never gets its lease back.
LEMMA LiveShrinks ==
    ASSUME [Next]_vars
    PROVE  live' \subseteq live
<1>1. CASE live' = live  BY <1>1
<1>2. CASE \E e \in Executions : EndExecution(e)  BY <1>2 DEF EndExecution
<1>. QED
  BY <1>1, <1>2
     DEF Next, vars, Topup, PurchaseCreditPack, RecordUsage, ReserveUsage, ReleaseUsage,
         ReapExpired, ClaimChatRequest, ClaimRefused, FailChatRequest, SettleAgain,
         SettleFirst, LapseReservation, LapseGrant, MarkExpired, LapseChat

\* A handler whose step, request and reservation stay, as do the cancellations.
LEMMA WorkStays ==
    ASSUME TypeOK, JobsOK, CancelsOK, [GatewayNext]_gatewayVars, NEW h \in Handlers,
           /\ job'[h].pc = job[h].pc /\ job'[h].user = job[h].user
           /\ job'[h].fp = job[h].fp /\ job'[h].res = job[h].res
           /\ job'[h].settling = job[h].settling
           /\ job[h].aborted => job'[h].aborted
    PROVE  /\ WorkOK(h)'
           /\ \A e \in Executions : cancels'[e] = cancels[e] => StoppedOK(e, h)'
<1>1. [Next]_vars  BY GatewayIsBilling
<1>2. job[h].pc = "calling" =>
         /\ job[h].res \in ReservationIds
         /\ reservations[job[h].res].status # "none"
         /\ reservations'[job[h].res].status # "none"
         /\ ~Holding(job[h].res, job[h].user) =>
               ~(/\ reservations'[job[h].res].status = "reserved"
                 /\ reservations'[job[h].res].user = job[h].user)
  BY <1>1, RequestKnown, ReservationSteps DEF CancelsOK, WorkOK, Holding
<1>3. WorkOK(h)'  BY <1>2 DEF CancelsOK, WorkOK
<1>4. ASSUME NEW e \in Executions, cancels'[e] = cancels[e] PROVE StoppedOK(e, h)'
  BY <1>2, <1>4 DEF CancelsOK, StoppedOK, Task, Holding
<1>. QED  BY <1>3, <1>4

\* The step of a handler: it reserves nothing for what was cancelled.
LEMMA HandlerCancels ==
    ASSUME TypeOK, JobsOK, CancelsOK, NEW h \in Handlers, HandlerStep(h)
    PROVE  WorkOK(h)' /\ \A e \in Executions : StoppedOK(e, h)'
<1>0. job \in [Handlers -> Job] /\ job[h].pc # "idle"
  BY DEF JobsOK, HandlerStep, Claim, Reserve, Provider, Settle, FailClaim, Refund, Leave, At
<1>a. /\ cancels' = cancels
      /\ job'[h].pc # "idle" =>
            /\ job'[h].user = job[h].user /\ job'[h].fp = job[h].fp
            /\ job[h].pc # "claiming" => job'[h].res = job[h].res
            /\ job'[h].pc # "settling" => job'[h].settling = job[h].settling
  BY HandlerMoves
<1>1. CASE job'[h].pc \notin {"claiming", "reserving", "calling"}
  BY <1>1 DEF WorkOK, StoppedOK
<1>2. CASE Reserve(h) /\ job'[h].pc = "calling"
  <2>1. job[h].pc = "reserving" /\ ~job[h].settling
    BY <1>2 DEF Reserve, At, CancelsOK, WorkOK
  <2>2. PICK a \in ReserveAmounts : ReserveUsage(job[h].user, job[h].res, a, Task(h))
    <3>1. ~Goto(h, "failing")  BY <1>2, GotoFacts DEF Steps
    <3>. QED  BY <1>2, <3>1 DEF Reserve
  <2>3. job[h].res \in ReservationIds  BY <2>1, RequestKnown
  <2>4. reservations'[job[h].res].status = "reserved"
    BY <2>2, <2>3 DEF ReserveUsage, TypeOK
  <2>5. WorkOK(h)'  BY <1>2, <1>a, <2>1, <2>4 DEF WorkOK
  <2>6. ASSUME NEW e \in Executions, cancels'[e].stage = "waiting", ExecutionOf[job'[h].fp] = e
        PROVE  FALSE
    <3>1. e \notin live  BY <1>a, <2>6 DEF CancelsOK, CancelledOK
    <3>2. Task(h) = e  BY <1>2, <1>a, <2>6 DEF Task
    <3>. QED  BY <2>2, <3>1, <3>2, IdentityAssumption DEF ReserveUsage
  <2>. QED  BY <2>5, <2>6 DEF StoppedOK, Task
<1>3. CASE Claim(h) /\ job'[h].pc = "reserving"
  BY <1>3, <1>a DEF Claim, At, CancelsOK, WorkOK, StoppedOK
<1>4. CASE Claim(h) /\ job'[h].pc # "reserving"
  <2>1. ~\E r \in Fresh : job' = [job EXCEPT ![h].pc = "reserving", ![h].res = r]
    BY <1>0, <1>4 DEF Job
  <2>. QED  BY <1>1, <1>4, <2>1, GotoFacts DEF Claim, Steps
<1>5. CASE Provider(h)
  <2>1. CASE \E step \in {"rejected", "failing"} : Goto(h, step)
    BY <1>1, <2>1, GotoFacts DEF Steps
  <2>2. CASE \E c \in Costs :
               job' = [job EXCEPT ![h].pc = "settling", ![h].cost = c, ![h].settling = TRUE]
    BY <1>0, <1>1, <2>2 DEF Job
  <2>. QED  BY <1>5, <2>1, <2>2 DEF Provider
<1>6. CASE Reserve(h) /\ job'[h].pc # "calling"
  BY <1>1, <1>6, GotoFacts DEF Reserve, Steps
<1>7. CASE Settle(h) \/ FailClaim(h) \/ Refund(h) \/ Leave(h)
  BY <1>1, <1>7, GotoFacts DEF Settle, FailClaim, Refund, Leave, Steps
<1>. QED  BY <1>2, <1>3, <1>4, <1>5, <1>6, <1>7 DEF HandlerStep

LEMMA CancelsNext ==
    ASSUME TypeOK, JobsOK, CancelsOK, [GatewayNext]_gatewayVars
    PROVE  CancelsOK'
<1>0. job \in [Handlers -> Job] /\ cancels \in [Executions -> Cancel]  BY DEF JobsOK
<1>l. live' \subseteq live  BY GatewayIsBilling, LiveShrinks
<1>w. CASE /\ cancels' = cancels
           /\ \A g \in Handlers : WorkOK(g)' /\ \A e \in Executions : StoppedOK(e, g)'
  BY <1>l, <1>w DEF CancelsOK, CancelledOK
<1>j. CASE /\ cancels' = cancels
           /\ \A g \in Handlers :
                 /\ job'[g].pc = job[g].pc /\ job'[g].user = job[g].user
                 /\ job'[g].fp = job[g].fp /\ job'[g].res = job[g].res
                 /\ job'[g].settling = job[g].settling
                 /\ job[g].aborted => job'[g].aborted
  BY <1>j, <1>w, WorkStays
<1>1. ASSUME NEW h \in Handlers, NEW u \in Users, NEW k \in RequestKeys,
             NEW f \in Fingerprints, Arrive(h, u, k, f)
      PROVE  CancelsOK'
  <2>1. job'[h].pc = "claiming" /\ ~job'[h].settling
        /\ \A g \in Handlers \ {h} : job'[g] = job[g]
    BY <1>0, <1>1 DEF Arrive, NoJob
  <2>2. WorkOK(h)' /\ \A e \in Executions : StoppedOK(e, h)'
    BY <2>1 DEF WorkOK, StoppedOK
  <2>3. cancels' = cancels  BY <1>1 DEF Arrive
  <2>4. \A g \in Handlers \ {h} : WorkOK(g)' /\ \A e \in Executions : StoppedOK(e, g)'
    BY <2>1, <2>3, WorkStays
  <2>. QED  BY <1>w, <2>2, <2>3, <2>4
<1>2. ASSUME NEW h \in Handlers, HandlerStep(h) PROVE CancelsOK'
  <2>1. cancels' = cancels /\ \A g \in Handlers \ {h} : job'[g] = job[g]
    BY <1>2, HandlerMoves
  <2>2. WorkOK(h)' /\ \A e \in Executions : StoppedOK(e, h)'  BY <1>2, HandlerCancels
  <2>3. \A g \in Handlers \ {h} : WorkOK(g)' /\ \A e \in Executions : StoppedOK(e, g)'
    BY <2>1, WorkStays
  <2>. QED  BY <1>w, <2>1, <2>2, <2>3
<1>3. ASSUME NEW h \in Handlers, Disconnect(h) \/ RenewalFails(h) PROVE CancelsOK'
  BY <1>0, <1>3, <1>j DEF Disconnect, RenewalFails, Job
<1>4. ASSUME NEW e \in Executions, CancelTask(e) PROVE CancelsOK'
  <2>1. job' = job /\ e \notin live'  BY <1>4 DEF CancelTask, EndExecution
  <2>2. /\ cancels'[e].stage = "stopping"
        /\ \A d \in Executions \ {e} : cancels'[d] = cancels[d]
    BY <1>0, <1>4 DEF CancelTask, Cancel
  <2>3. \A g \in Handlers : WorkOK(g)' /\ \A d \in Executions \ {e} : StoppedOK(d, g)'
    BY <2>1, <2>2, WorkStays
  <2>4. \A g \in Handlers : StoppedOK(e, g)'  BY <2>2 DEF StoppedOK
  <2>5. \A d \in Executions : CancelledOK(d)'
    BY <1>l, <2>1, <2>2 DEF CancelsOK, CancelledOK
  <2>. QED  BY <2>3, <2>4, <2>5 DEF CancelsOK
<1>5. ASSUME NEW e \in Executions, StopChats(e) PROVE CancelsOK'
  <2>. DEFINE hs == {h \in Handlers : Active(h) /\ Task(h) = e}
  <2>1. \A g \in Handlers :
           job'[g] = IF g \in hs THEN [job[g] EXCEPT !.aborted = TRUE] ELSE job[g]
    BY <1>5 DEF StopChats
  <2>2. /\ cancels'[e] = [stage |-> "waiting", targets |-> {job[h].res : h \in hs}]
        /\ \A d \in Executions \ {e} : cancels'[d] = cancels[d]
        /\ cancels[e].stage = "stopping"
    BY <1>0, <1>5 DEF StopChats
  <2>3. \A g \in Handlers :
           /\ job'[g].pc = job[g].pc /\ job'[g].user = job[g].user
           /\ job'[g].fp = job[g].fp /\ job'[g].res = job[g].res
           /\ job'[g].settling = job[g].settling
           /\ job[g].aborted => job'[g].aborted
           /\ g \in hs => job'[g].aborted
    BY <1>0, <2>1 DEF Job
  <2>4. \A g \in Handlers : WorkOK(g)' /\ \A d \in Executions \ {e} : StoppedOK(d, g)'
    BY <2>2, <2>3, WorkStays
  <2>5. ASSUME NEW g \in Handlers, job'[g].pc = "calling", ExecutionOf[job'[g].fp] = e
        PROVE  job'[g].aborted /\ job'[g].res \in cancels'[e].targets
    <3>1. g \in hs  BY <2>3, <2>5 DEF CancelsOK, WorkOK, Active, Task
    <3>. QED  BY <2>2, <2>3, <3>1
  <2>6. \A g \in Handlers : StoppedOK(e, g)'  BY <2>5 DEF StoppedOK, Task
  <2>7. \A d \in Executions : CancelledOK(d)'
    BY <1>l, <2>2 DEF CancelsOK, CancelledOK
  <2>. QED  BY <2>4, <2>6, <2>7 DEF CancelsOK
<1>6. ASSUME NEW e \in Executions, ReleaseStopped(e) PROVE CancelsOK'
  <2>1. PICK r \in cancels[e].targets :
           \/ /\ \/ \E u \in Users : ReleaseUsage(u, r)
                 \/ (\A u \in Users : ~Holding(r, u)) /\ UNCHANGED vars
              /\ cancels' = [cancels EXCEPT ![e].targets = @ \ {r}]
           \/ /\ UNCHANGED vars
              /\ cancels' = [cancels EXCEPT ![e] =
                    [stage |-> "failed", targets |-> @.targets \ {r}]]
    BY <1>6 DEF ReleaseStopped
  <2>2. job' = job  BY <1>6 DEF ReleaseStopped
  <2>3. r \in ReservationIds  BY <1>0 DEF Cancel
  <2>4. /\ \A d \in Executions \ {e} : cancels'[d] = cancels[d]
        /\ cancels'[e].targets = cancels[e].targets \ {r}
        /\ cancels'[e].stage \in {cancels[e].stage, "failed"}
    BY <1>0, <2>1 DEF Cancel
  <2>5. cancels[e].stage # "no" \/ cancels'[e].stage = "no"
        \/ cancels'[e].stage = "failed"
    BY <2>4
  <2>6. \A g \in Handlers : WorkOK(g)' /\ \A d \in Executions \ {e} : StoppedOK(d, g)'
    BY <2>2, <2>4, WorkStays
  <2>7. ASSUME NEW g \in Handlers, cancels'[e].stage = "waiting",
               job'[g].pc = "calling", ExecutionOf[job'[g].fp] = e
        PROVE  /\ job'[g].aborted
               /\ \/ job'[g].res \in cancels'[e].targets
                  \/ ~(/\ reservations'[job'[g].res].status = "reserved"
                       /\ reservations'[job'[g].res].user = job'[g].user)
    <3>1. /\ cancels[e].stage = "waiting"
          /\ cancels' = [cancels EXCEPT ![e].targets = @ \ {r}]
      BY <1>0, <2>1, <2>4, <2>7 DEF Cancel
    <3>2. /\ job[g].aborted
          /\ job[g].res \in cancels[e].targets \/ ~Holding(job[g].res, job[g].user)
      BY <2>2, <2>7, <3>1 DEF CancelsOK, StoppedOK, Task
    <3>3. job[g].res \in ReservationIds /\ job[g].user \in Users
      BY <2>2, <2>7, RequestKnown
    <3>4. CASE job[g].res = r
      <4>1. ~(/\ reservations'[r].status = "reserved"
              /\ reservations'[r].user = job[g].user)
        <5>1. CASE \E u \in Users : ReleaseUsage(u, r)
          BY <2>3, <5>1, ReleasedReservation
        <5>2. CASE (\A u \in Users : ~Holding(r, u)) /\ UNCHANGED vars
          BY <3>3, <5>2 DEF Holding, vars
        <5>3. cancels[e].stage # "failed"  BY <3>1
        <5>4. cancels' # [cancels EXCEPT ![e] =
                             [stage |-> "failed", targets |-> @.targets \ {r}]]
          BY <1>0, <2>7
        <5>. QED  BY <2>1, <5>1, <5>2, <5>4
      <4>. QED  BY <2>2, <3>2, <3>4, <4>1
    <3>5. CASE job[g].res # r
      <4>1. ~Holding(job[g].res, job[g].user) =>
               ~(/\ reservations'[job[g].res].status = "reserved"
                 /\ reservations'[job[g].res].user = job[g].user)
        <5>1. reservations[job[g].res].status # "none"
          BY <2>2, <2>7 DEF CancelsOK, WorkOK
        <5>. QED  BY <3>3, <5>1, GatewayIsBilling, ReservationSteps DEF Holding
      <4>. QED  BY <2>2, <2>4, <3>2, <3>5, <4>1
    <3>. QED  BY <3>4, <3>5
  <2>8. \A g \in Handlers : StoppedOK(e, g)'  BY <2>7 DEF StoppedOK, Task, Holding
  <2>9. cancels[e].stage # "no"
    BY <2>1 DEF CancelsOK, CancelledOK
  <2>10. \A d \in Executions : CancelledOK(d)'
    BY <1>l, <2>4, <2>9 DEF CancelsOK, CancelledOK
  <2>. QED  BY <2>6, <2>8, <2>10 DEF CancelsOK
<1>7. ASSUME Crash PROVE CancelsOK'
  BY <1>7 DEF Crash, CancelsOK, CancelledOK, WorkOK, StoppedOK, NoJob, NoCancel
<1>8. ASSUME Background PROVE CancelsOK'
  BY <1>8, <1>j DEF Background
<1>9. ASSUME UNCHANGED gatewayVars PROVE CancelsOK'
  BY <1>9, <1>j DEF gatewayVars
<1>. QED
  BY <1>1, <1>2, <1>3, <1>4, <1>5, <1>6, <1>7, <1>8, <1>9 DEF GatewayNext, CancelStep

\* Once the cancel route has answered, every request of the task that waits for the
\* provider is aborted and holds nothing any more: also one that was between its claim
\* and its reservation, or had just reserved, when the route looked.
THEOREM CancellationReachesAll == GatewaySpec => []CancelStopsTask
<1>1. GatewayInit => CancelsOK
  BY DEF GatewayInit, CancelsOK, CancelledOK, WorkOK, StoppedOK, NoJob, NoCancel
<1>2. TypeOK /\ JobsOK /\ CancelsOK /\ [GatewayNext]_gatewayVars => CancelsOK'
  BY CancelsNext
<1>3. CancelsOK => CancelStopsTask
  BY DEF CancelsOK, StoppedOK, CancelStopsTask, Cancelled, At
<1>. QED  BY <1>1, <1>2, <1>3, GatewayTables, PTL DEF GatewaySpec

=============================================================================
