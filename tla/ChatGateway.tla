----------------------------- MODULE ChatGateway -----------------------------
(***************************************************************************)
(* The chat completion handler and the task cancel route of the control    *)
(* plane, running against the money tables of Billing.  Source:            *)
(* services/control-plane/src/server.ts.                                   *)
(*                                                                         *)
(* A handler is one HTTP request in flight.  It claims the request,        *)
(* reserves funds, calls the model provider, and settles; every failure    *)
(* gives the claim and the reservation back.  Between two of its awaits    *)
(* anything may happen: another handler, a cancellation, a disconnect, the *)
(* reaper, a lapsed lease, the end of the process.                         *)
(***************************************************************************)
EXTENDS Billing

CONSTANTS
    Handlers,       \* requests that may be in flight at the same time
    ExecutionOf,    \* body fingerprint -> its task execution, or NoTask
    Faults          \* what may go wrong outside the program

ASSUME GatewayAssumption ==
    /\ ExecutionOf \in [Fingerprints -> Executions \cup {NoTask}]
    \* "lost": a transaction commits and its reply is lost; "throw": a call of
    \* an error path fails; "crash": the process ends and is started again.
    /\ Faults \subseteq {"lost", "throw", "crash"}

VARIABLES
    job,            \* handler -> the request it is working on
    cancels         \* execution -> the cancel route's progress

gatewayVars == <<balance, grants, reservations, chat, ledger, live, job, cancels>>

Steps == {"idle", "claiming", "reserving", "calling", "settling", "answered",
          "rejected", "unclaiming", "failing", "releasing"}

\* aborted: controller.signal.aborted; settling: activeChat.state is no longer
\* 'active'.
Job == [pc : Steps, user : Users \cup {None}, key : RequestKeys \cup {None},
        fp : Fingerprints \cup {None}, res : ReservationIds \cup {None}, cost : Costs \cup {0},
        aborted : BOOLEAN, settling : BOOLEAN]

NoJob == [pc |-> "idle", user |-> None, key |-> None, fp |-> None, res |-> None, cost |-> 0,
          aborted |-> FALSE, settling |-> FALSE]

Cancel == [stage : {"no", "stopping", "waiting", "failed"}, targets : SUBSET ReservationIds]

NoCancel == [stage |-> "no", targets |-> {}]

GatewayTypeOK ==
    /\ TypeOK
    /\ job \in [Handlers -> Job]
    /\ cancels \in [Executions -> Cancel]

GatewayInit ==
    /\ Init
    /\ job = [h \in Handlers |-> NoJob]
    /\ cancels = [e \in Executions |-> NoCancel]

-----------------------------------------------------------------------------
(* The handler. *)

Task(h) == ExecutionOf[job[h].fp]

At(h, step) == job[h].pc = step

Goto(h, step) ==
    job' = [job EXCEPT ![h] = IF step = "idle" THEN NoJob ELSE [@ EXCEPT !.pc = step]]

\* A request arrives; assertTaskLease or assertTaskExecution has seen a live
\* lease of the task it belongs to.
Arrive(h, u, k, f) ==
    /\ At(h, "idle")
    /\ ExecutionOf[f] # NoTask => ExecutionOf[f] \in live
    /\ job' = [job EXCEPT ![h] =
          [NoJob EXCEPT !.pc = "claiming", !.user = u, !.key = k, !.fp = f]]
    /\ UNCHANGED <<vars, cancels>>

\* cancelOnDisconnect: the client goes away.
Disconnect(h) ==
    /\ job[h].pc \in {"claiming", "reserving", "calling"}
    /\ ~job[h].aborted
    /\ job' = [job EXCEPT ![h].aborted = TRUE]
    /\ UNCHANGED <<vars, cancels>>

\* Reservation ids that no handler has drawn: randomUUID.
Fresh ==
    {r \in ReservationIds : reservations[r].status = "none" /\ \A h \in Handlers : job[h].res # r}

\* Mutation of Claim: a request that is still pending is worked on again.
ClaimPending(h) ==
    LET j == job[h] IN
    /\ At(h, "claiming")
    /\ \/ ClaimChatRequest(j.user, j.key, j.fp, Task(h)) \/ ClaimRefused(j.user, j.key, j.fp, Task(h))
    /\ \E r \in Fresh : job' = [job EXCEPT ![h].pc = "reserving", ![h].res = r]
    /\ UNCHANGED cancels

\* claimChatRequest and assertClientConnected, which stand before the inner
\* try: whatever is thrown here leaves the row as it is.
Claim(h) ==
    LET j == job[h] IN
    /\ At(h, "claiming")
    /\ \/ /\ ClaimChatRequest(j.user, j.key, j.fp, Task(h))
          /\ \/ /\ ~j.aborted
                /\ \E r \in Fresh : job' = [job EXCEPT ![h].pc = "reserving", ![h].res = r]
             \/ (j.aborted \/ "lost" \in Faults) /\ Goto(h, "idle")
       \/ /\ ClaimRefused(j.user, j.key, j.fp, Task(h))
          /\ Goto(h, IF chat'[j.user][j.key].status = "complete" /\ ~j.aborted
                     THEN "answered" ELSE "idle")
       \/ UNCHANGED vars /\ Goto(h, "idle")
    /\ UNCHANGED cancels

\* reserveUsage; it is refused for want of funds or of a live task lease.
Reserve(h) ==
    LET j == job[h] IN
    /\ At(h, "reserving")
    /\ \/ /\ \E a \in ReserveAmounts : ReserveUsage(j.user, j.res, a, Task(h))
          /\ \/ Goto(h, IF j.aborted THEN "failing" ELSE "calling")
             \/ "lost" \in Faults /\ Goto(h, "failing")
       \/ UNCHANGED vars /\ Goto(h, "failing")
    /\ UNCHANGED cancels

\* startUsageReservationKeepalive and leaseKeepalive: a renewal that fails
\* aborts the request.  (One that succeeds keeps the leases as they are.)
RenewalFails(h) ==
    LET j == job[h] IN
    /\ At(h, "calling") /\ ~j.aborted
    /\ \/ ~(Holding(j.res, j.user) /\ reservations[j.res].leased)
       \/ Task(h) # NoTask /\ Task(h) \notin live
       \/ "throw" \in Faults
    /\ job' = [job EXCEPT ![h].aborted = TRUE]
    /\ UNCHANGED <<vars, cancels>>

\* Mutation of Provider: a provider's error is passed on at once.
ProviderPassedOn(h) ==
    /\ At(h, "calling")
    /\ \/ ~job[h].aborted /\ \E c \in Costs :
             job' = [job EXCEPT ![h].pc = "settling", ![h].cost = c, ![h].settling = TRUE]
       \/ ~job[h].aborted /\ Goto(h, "unclaiming")
       \/ Goto(h, "failing")
    /\ UNCHANGED <<vars, cancels>>

\* The provider answers (with the fallback model or without), answers with an
\* error, or does not answer in time or usefully.  The signal is looked at once
\* more before the request is settled or refunded.
Provider(h) ==
    /\ At(h, "calling")
    /\ \/ ~job[h].aborted /\ \E c \in Costs :
             job' = [job EXCEPT ![h].pc = "settling", ![h].cost = c, ![h].settling = TRUE]
       \/ ~job[h].aborted /\ Goto(h, "rejected")
       \/ Goto(h, "failing")
    /\ UNCHANGED <<vars, cancels>>

\* Mutation of Settle: the answer goes out whatever becomes of the settlement.
SettleAfterAnswer(h) ==
    LET j == job[h] IN
    /\ At(h, "settling")
    /\ \/ SettleUsage(j.user, j.res, j.key, j.fp, Task(h), j.cost)
       \/ UNCHANGED vars
    /\ Goto(h, "answered")
    /\ UNCHANGED cancels

\* settleUsage and the answer to the client.
Settle(h) ==
    LET j == job[h] IN
    /\ At(h, "settling")
    /\ \/ /\ SettleUsage(j.user, j.res, j.key, j.fp, Task(h), j.cost)
          /\ Goto(h, "answered") \/ ("lost" \in Faults /\ Goto(h, "failing"))
       \/ UNCHANGED vars /\ Goto(h, "failing")
    /\ UNCHANGED cancels

\* What FailChatRequest asks of the row.
Failable(j, e) ==
    /\ chat[j.user][j.key].status = "pending"
    /\ chat[j.user][j.key].fp = j.fp /\ chat[j.user][j.key].exec = e
    /\ Posted(j.user, ChatId(j.key, j.fp)) = {}

\* Mutation of FailClaim: the row is marked failed without a look at it.
FailClaimAlways(h) ==
    /\ job[h].pc \in {"failing", "unclaiming"}
    /\ chat' = [chat EXCEPT ![job[h].user][job[h].key] = Marked(@, "failed")]
    /\ Goto(h, IF At(h, "failing") THEN "releasing" ELSE "idle")
    /\ UNCHANGED <<balance, grants, reservations, ledger, live, cancels>>

\* Mutation of FailClaim: a claim that cannot be failed is waited for.
FailClaimOnly(h) ==
    LET j == job[h] IN
    /\ job[h].pc \in {"failing", "unclaiming"}
    /\ FailChatRequest(j.user, j.key, j.fp, Task(h))
    /\ Goto(h, IF At(h, "failing") THEN "releasing" ELSE "idle")
    /\ UNCHANGED cancels

\* failChatClaim, which swallows its own errors: first in the catch block, or
\* last after a refunded provider error.
FailClaim(h) ==
    LET j == job[h] IN
    /\ job[h].pc \in {"failing", "unclaiming"}
    /\ \/ FailChatRequest(j.user, j.key, j.fp, Task(h))
       \/ (~Failable(j, Task(h)) \/ "throw" \in Faults) /\ UNCHANGED vars
    /\ Goto(h, IF At(h, "failing") THEN "releasing" ELSE "idle")
    /\ UNCHANGED cancels

\* Mutation of Refund: a provider's error is refunded, its claim forgotten.
RefundOnly(h) ==
    LET j == job[h] IN
    /\ j.pc \in {"releasing", "rejected"}
    /\ ReleaseUsage(j.user, j.res) \/ (~Holding(j.res, j.user) /\ UNCHANGED vars)
    /\ Goto(h, "idle")
    /\ UNCHANGED cancels

\* releaseUsage: last in the catch block, or first after a provider's error,
\* where a failure leads into the catch block.
Refund(h) ==
    LET j == job[h] IN
    /\ j.pc \in {"releasing", "rejected"}
    /\ \/ /\ ReleaseUsage(j.user, j.res) \/ (~Holding(j.res, j.user) /\ UNCHANGED vars)
          /\ Goto(h, IF At(h, "releasing") THEN "idle" ELSE "unclaiming")
       \/ /\ "throw" \in Faults /\ UNCHANGED vars
          /\ Goto(h, IF At(h, "releasing") THEN "idle" ELSE "failing")
    /\ UNCHANGED cancels

\* The response is complete.
Leave(h) ==
    /\ At(h, "answered")
    /\ Goto(h, "idle")
    /\ UNCHANGED <<vars, cancels>>

HandlerStep(h) ==
    \/ Claim(h) \/ Reserve(h) \/ Provider(h) \/ Settle(h) \/ FailClaim(h) \/ Refund(h) \/ Leave(h)

-----------------------------------------------------------------------------
(* The cancel route. *)

\* Entries of activeChats that are still 'active'.
Active(h) ==
    /\ job[h].pc \in {"reserving", "calling", "rejected", "unclaiming", "failing", "releasing"}
    /\ ~job[h].settling

\* updateTask commits the cancellation.
CancelTask(e) ==
    /\ cancels[e].stage = "no"
    /\ EndExecution(e)
    /\ cancels' = [cancels EXCEPT ![e].stage = "stopping"]
    /\ UNCHANGED job

\* Mutation of StopChats: the funds are released, the calls go on.
StopNoCalls(e) ==
    /\ cancels[e].stage = "stopping"
    /\ cancels' = [cancels EXCEPT ![e] = [stage |-> "waiting",
          targets |-> {job[h].res : h \in {g \in Handlers : Active(g) /\ Task(g) = e}}]]
    /\ UNCHANGED <<vars, job>>

\* cancelActiveChats aborts the active requests of the task.
StopChats(e) ==
    LET hs == {h \in Handlers : Active(h) /\ Task(h) = e} IN
    /\ cancels[e].stage = "stopping"
    /\ job' = [h \in Handlers |-> IF h \in hs THEN [job[h] EXCEPT !.aborted = TRUE] ELSE job[h]]
    /\ cancels' = [cancels EXCEPT ![e] =
          [stage |-> "waiting", targets |-> {job[h].res : h \in hs}]]
    /\ UNCHANGED vars

\* It waits until a reservation was made or refused (reservationReady) and
\* releases it.  One that fails turns the answer of the route into an error.
ReleaseStopped(e) ==
    /\ \E r \in cancels[e].targets :
          /\ \A h \in Handlers : job[h].res = r => ~At(h, "reserving")
          /\ \/ /\ \/ \E u \in Users : ReleaseUsage(u, r)
                   \/ (\A u \in Users : ~Holding(r, u)) /\ UNCHANGED vars
                /\ cancels' = [cancels EXCEPT ![e].targets = @ \ {r}]
             \/ /\ "throw" \in Faults /\ UNCHANGED vars
                /\ cancels' = [cancels EXCEPT ![e] =
                      [stage |-> "failed", targets |-> @.targets \ {r}]]
    /\ UNCHANGED job

\* The route answers with the cancelled task.
Cancelled(e) == cancels[e] = [stage |-> "waiting", targets |-> {}]

CancelStep(e) == StopChats(e) \/ ReleaseStopped(e)

-----------------------------------------------------------------------------
(* Everything else. *)

\* The process ends and is started again: the tables survive, the requests in
\* flight and activeChats do not.
Crash ==
    /\ "crash" \in Faults
    /\ job' = [h \in Handlers |-> NoJob]
    /\ cancels' = [e \in Executions |-> NoCancel]
    /\ UNCHANGED vars

\* The time and the background work of Billing.  A claim lasts an hour, more
\* than the two attempts of 120 s at each of two models that a handler makes.
Background ==
    /\ \/ ReapExpired
       \/ \E r \in ReservationIds : LapseReservation(r)
       \/ \E u \in Users, i \in Slots : LapseGrant(u, i)
       \/ \E u \in Users : MarkExpired(u)
       \/ \E e \in Executions : EndExecution(e)
       \/ \E u \in Users, k \in RequestKeys :
             /\ \A h \in Handlers : job[h].user # u \/ job[h].key # k
             /\ LapseChat(u, k)
    /\ UNCHANGED <<job, cancels>>

GatewayNext ==
    \/ \E h \in Handlers, u \in Users, k \in RequestKeys, f \in Fingerprints : Arrive(h, u, k, f)
    \/ \E h \in Handlers : HandlerStep(h) \/ Disconnect(h) \/ RenewalFails(h)
    \/ \E e \in Executions : CancelTask(e) \/ CancelStep(e)
    \/ Crash
    \/ Background

GatewaySpec == GatewayInit /\ [][GatewayNext]_gatewayVars

\* An awaited call returns: the provider has timeouts, the database its own.
\* The reaper runs every minute, and a reservation that no handler renews
\* lapses.
GatewayFairness ==
    /\ \A h \in Handlers : WF_gatewayVars(HandlerStep(h))
    /\ \A e \in Executions : WF_gatewayVars(CancelStep(e))
    /\ WF_gatewayVars(ReapExpired /\ UNCHANGED <<job, cancels>>)
    /\ \A r \in ReservationIds :
          WF_gatewayVars(/\ \A h \in Handlers : job[h].res # r
                         /\ LapseReservation(r)
                         /\ UNCHANGED <<job, cancels>>)

FairGateway == GatewaySpec /\ GatewayFairness

-----------------------------------------------------------------------------
(* What must hold. *)

Working(h) == job[h].pc \in {"reserving", "calling", "settling"}

\* A concurrent duplicate is rejected before a second upstream call: no two
\* handlers work on the same request key of a user.
SingleFlight ==
    \A g, h \in Handlers :
        Working(g) /\ Working(h) /\ job[g].user = job[h].user /\ job[g].key = job[h].key => g = h

\* Every answer that leaves the server, fresh or from the cache, has exactly
\* one billing record.
AnsweredIsBilled ==
    \A h \in Handlers :
        At(h, "answered") =>
            \E e \in ledger : Posted(job[h].user, ChatId(job[h].key, job[h].fp)) = {e}

\* As long as the process runs and its error paths work, a reservation holds
\* funds only for a handler that will settle or release it, or for a
\* cancellation that will release it: no failure of a request leaves funds to
\* the reaper.
HeldHasOwner ==
    \A r \in ReservationIds :
        reservations[r].status = "reserved" =>
            \E h \in Handlers :
                job[h].res = r /\ job[h].pc \in {"calling", "settling", "rejected",
                                                 "failing", "releasing"}

\* Once the cancel route has answered, no request of the task waits for the
\* provider unaborted, whichever step it was at when the route looked, and
\* what such requests still hold is on its way back.
CancelStopsTask ==
    \A e \in Executions, h \in Handlers :
        Cancelled(e) /\ At(h, "calling") /\ Task(h) = e =>
            job[h].aborted /\ ~Holding(job[h].res, job[h].user)

\* An answer that was paid for stays available to a repetition of the request
\* until its 24 hours are over: no error path, cancellation or duplicate turns
\* the completed row into anything else.
PaidAnswerKept ==
    [][\A u \in Users, k \in RequestKeys :
          chat[u][k].status = "complete" /\ ~chat[u][k].stale =>
              chat'[u][k].status = "complete" /\ chat'[u][k].fp = chat[u][k].fp]_gatewayVars

\* A request that is charged is completed in the same step, so that a lost
\* reply never makes its repetition pay again.
ChargeCompletes ==
    [][\A u \in Users, k \in RequestKeys, f \in Fingerprints :
          Posted(u, ChatId(k, f)) = {} /\ Posted(u, ChatId(k, f))' # {} =>
              chat'[u][k].status = "complete" /\ chat'[u][k].fp = f]_gatewayVars

\* The claim of the handler is still to be completed or failed.
Claimed(h) ==
    job[h].pc \in {"reserving", "calling", "settling", "rejected", "unclaiming", "failing"}

\* A failed request can be sent again: whichever way a handler takes out of its
\* claim, it leaves no pending row behind, unless the request was paid before.
FailureFreesRetry ==
    [][\A h \in Handlers :
          Claimed(h) /\ ~Claimed(h)' =>
              \/ chat'[job[h].user][job[h].key].status # "pending"
              \/ Posted(job[h].user, ChatId(job[h].key, job[h].fp)) # {}]_gatewayVars

\* The same of every request, paid for before or not.
FailedRequestsRetry ==
    [][\A h \in Handlers :
          Claimed(h) /\ ~Claimed(h)' =>
              chat'[job[h].user][job[h].key].status # "pending"]_gatewayVars

\* Every request ends, whatever fails, and so does the cancel route: it never waits for
\* ever for a handler that is itself stuck.
RequestsEnd ==
    /\ \A h \in Handlers : ~At(h, "idle") ~> At(h, "idle")
    /\ \A e \in Executions :
          cancels[e].stage = "stopping" ~>
              cancels[e].stage # "stopping" /\ cancels[e].targets = {}

\* "An identical chat request is still in progress" is only answered while a
\* handler works on that request.
PendingHasHandler ==
    \A u \in Users, k \in RequestKeys :
        chat[u][k].status = "pending" =>
            \E h \in Handlers : job[h].user = u /\ job[h].key = k /\ ~At(h, "idle")

=============================================================================
