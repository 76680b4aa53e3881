------------------------------ MODULE AgentRun ------------------------------
(***************************************************************************)
(* What the workspace does between a prompt and its answer: a code run of  *)
(* the desktop's agent, with its tools and the permissions that the user   *)
(* gives them, or a chat with a model.  Runs are cancelled, fail, lose the *)
(* agent, and outlive the session they were sent in.                       *)
(* Sources: handleSend, its cancellations and the permission dialog of     *)
(* apps/web/src/App.tsx, and apps/web/src/goose.ts.                        *)
(*                                                                         *)
(* Each run has a task of its own, of which only the outcome is modelled;  *)
(* claims and leases are TaskClients.  Model choice, comparisons, prices   *)
(* and notices are left out.  The agent asks for one permission at a time. *)
(***************************************************************************)
EXTENDS Naturals

CONSTANTS
    Prompts,        \* prompts sent, numbered from 1
    CodePrompts,    \* those of them that may be sent to the agent instead of a model
    Tools,          \* calls of tools in a run
    MaxSessions     \* sign-ins

VARIABLES
    session,        \* sessionTokenRef: the session of the user, or 0
    begun,          \* history: sessions begun
    runs,           \* the runs of handleSend
    active,         \* activeRunRef, and sendingRef with it: a run, or 0
    link,           \* the WebSocket of each run to its agent
    tool,           \* each run's calls of tools
    asks,           \* permissions that agents wait for
    resolver,       \* permissionResolver: the permission that an answer will give
    dialog,         \* pendingPermission: the question on the screen
    shell,          \* the outcome of a chat that is reported on the side, once its task is claimed
    taskRecord,     \* the server's record of each run's task: open, complete or ended otherwise
    messages,       \* messagesByTask: the conversation
    cancelling,     \* cancellingTaskId: a run, or 0
    cancels,        \* cancellations on their way
    consents        \* history: permissions that the user has given

runVars == <<session, begun, runs, active, link, tool, asks, resolver, dialog, shell,
             taskRecord, messages, cancelling, cancels, consents>>

ASSUME PromptsAssumption == 0 \notin Prompts

NoAsk == [run |-> 0, tool |-> 0]

Unsent == [stage |-> "idle", mode |-> "none", wants |-> "look", session |-> 0,
           cancelled |-> "no", gitRead |-> TRUE]
NoTool == [kind |-> "none", status |-> "none"]

RunInit ==
    /\ session = 1 /\ begun = 1
    /\ runs = [r \in Prompts |-> Unsent] /\ active = 0
    /\ link = [r \in Prompts |-> "none"]
    /\ tool = [r \in Prompts |-> [t \in Tools |-> NoTool]]
    /\ asks = {} /\ resolver = NoAsk /\ dialog = NoAsk
    /\ shell = [r \in Prompts |-> "none"]
    /\ taskRecord = [r \in Prompts |-> "open"]
    /\ messages = {} /\ cancelling = 0 /\ cancels = {} /\ consents = {}

-----------------------------------------------------------------------------
(* A run.  Its stages are the awaits of handleSend; once the answer is there, `refresh'. *)

\* assertActive.
Going(r) == runs[r].cancelled = "no" /\ session = runs[r].session

Underway(r) == runs[r].stage \notin {"idle", "done"}
Reaches(r, stage) == runs' = [runs EXCEPT ![r].stage = stage]
Says(r, what) == messages' = messages \cup {<<r, what>>}
Said(r, what) == <<r, what>> \in messages

\* What a run has of its own besides its record, and what no run's own step touches.
ownVars == <<active, link, tool, asks, consents>>
sideVars == <<session, begun, resolver, dialog, cancelling, cancels>>

\* finally: another run may have become the active one.
Vacated(r) == IF active = r THEN 0 ELSE active

\* Of a run that is over nothing is remembered but that it was, and whether it was
\* cancelled; its socket is closed.
End(r) ==
    /\ runs' = [runs EXCEPT ![r] = [Unsent EXCEPT !.stage = "done", !.mode = runs[r].mode,
                                 !.session = runs[r].session, !.cancelled = runs[r].cancelled]]
    /\ active' = Vacated(r)
    /\ link' = [link EXCEPT ![r] = "none"]
    /\ tool' = [tool EXCEPT ![r] = [t \in Tools |-> NoTool]]
    /\ asks' = {a \in asks : a.run # r}
    /\ consents' = {c \in consents : c[1] # r}

SendPrompt(r, mode) ==
    /\ session # 0 /\ active = 0 /\ (mode = "code" => r \in CodePrompts)
    /\ runs[r].stage = "idle"
    /\ runs' = [runs EXCEPT ![r] = [Unsent EXCEPT !.stage = "claim", !.mode = mode,
                                              !.session = session]]
    /\ active' = r
    /\ UNCHANGED <<sideVars, link, tool, asks, consents, shell, taskRecord, messages>>

\* The catch block: a run that was cancelled ends in silence.  The failure is
\* reported to the server, of a chat by its shell.
Fails(r) ==
    IF ~Going(r) THEN End(r) /\ UNCHANGED <<messages, shell>>
    ELSE /\ IF Said(r, "prompt") /\ ~Said(r, "reply") THEN Says(r, "failure") ELSE UNCHANGED messages
         /\ IF runs[r].mode = "code"
            THEN Reaches(r, "fail") /\ UNCHANGED <<ownVars, shell>>
            ELSE End(r) /\ shell' = [shell EXCEPT ![r] = "ended"]

\* The heartbeat of the device, and the claim of a code task; that of a chat is
\* made while the model is asked.
Claimed(r, ok) ==
    /\ runs[r].stage = "claim"
    /\ IF ok /\ Going(r)
       THEN /\ Says(r, "prompt")
            /\ Reaches(r, IF runs[r].mode = "code" THEN "before" ELSE "chat")
            /\ UNCHANGED <<ownVars, shell>>
       ELSE Fails(r)
    /\ UNCHANGED <<sideVars, taskRecord>>

\* loadProject before the agent starts, where git may fail to show its changes;
\* getGooseAcpUrl, and the socket that runGooseTask opens.
Prepared(r, ok, git) ==
    /\ runs[r].stage = "before"
    /\ IF ok /\ Going(r)
       THEN /\ runs' = [runs EXCEPT ![r].stage = "connect", ![r].gitRead = git]
            /\ link' = [link EXCEPT ![r] = "open"]
            /\ UNCHANGED <<active, tool, asks, consents, messages, shell>>
       ELSE Fails(r)
    /\ UNCHANGED <<sideVars, taskRecord>>

\* initialize and newSession, then the prompt.
ConnectAgent(r) ==
    /\ runs[r].stage = "connect" /\ link[r] = "open"
    /\ Reaches(r, "agent")
    /\ UNCHANGED <<sideVars, ownVars, shell, taskRecord, messages>>

\* What waits for a socket that has closed fails, after what it had brought.
LinkLost(r) ==
    /\ runs[r].stage \in {"connect", "agent"} /\ link[r] = "closed"
    /\ ~ \E a \in asks : a.run = r /\ ~a.seen
    /\ Fails(r)
    /\ UNCHANGED <<sideVars, taskRecord>>

AgentDies(r) ==
    /\ link[r] = "open"
    /\ link' = [link EXCEPT ![r] = "closed"]
    /\ UNCHANGED <<sideVars, runs, active, tool, asks, consents, shell, taskRecord, messages>>

\* The prompt is answered, and the socket closed; what the tools did is counted.
TurnEnds(r) ==
    /\ runs[r].stage = "agent" /\ link[r] = "open" /\ ~ \E a \in asks : a.run = r
    /\ Reaches(r, "after")
    /\ link' = [link EXCEPT ![r] = "closed"]
    /\ UNCHANGED <<sideVars, active, tool, asks, consents, shell, taskRecord, messages>>

CallsOf(r) == {t \in Tools : tool[r][t].kind # "none"}
With(r, status) == {t \in Tools : tool[r][t].status = status}

\* validateCodeRun: work without a tool that did it is not taken for done.
Worked(r, wants, differs) ==
    /\ CallsOf(r) # {}
    /\ With(r, "failed") = {} \/ With(r, "completed") # {}
    /\ wants = "change" =>
          differs \/ \E t \in CallsOf(r) \ With(r, "failed") : tool[r][t].kind = "edit"

Touched(r) == \E t \in Tools : tool[r][t] = [kind |-> "edit", status |-> "completed"]

\* The texts of the two diffs differ: a failure of git is a text of its own.
MayDiffer(r, git) ==
    IF runs[r].gitRead /\ git THEN {Touched(r)}
    ELSE IF runs[r].gitRead # git THEN {TRUE} ELSE BOOLEAN

\* loadProject after the agent has ended its turn, and what the prompt had asked for.
Reviewed(r, wants, ok, git) ==
    /\ runs[r].stage = "after"
    /\ \E differs \in MayDiffer(r, git) :
          IF ok /\ Going(r) /\ Worked(r, wants, differs)
          THEN /\ Says(r, "reply")
               /\ runs' = [runs EXCEPT ![r].stage = "report", ![r].wants = wants, ![r].gitRead = @ /\ git]
               /\ UNCHANGED <<ownVars, shell>>
          ELSE Fails(r)
    /\ UNCHANGED <<sideVars, taskRecord>>

\* sendChat.  The report is left to the shell, which may still wait for its claim.
Chatted(r, ok) ==
    /\ runs[r].stage = "chat"
    /\ IF ok /\ Going(r)
       THEN /\ Says(r, "reply") /\ Reaches(r, "refresh")
            /\ shell' = [shell EXCEPT ![r] = "complete"]
            /\ UNCHANGED ownVars
       ELSE Fails(r)
    /\ UNCHANGED <<sideVars, taskRecord>>

\* The server records an outcome of a task that has none.
Recorded(r, outcome) == IF taskRecord[r] = "open" THEN [taskRecord EXCEPT ![r] = outcome] ELSE taskRecord

\* changeTaskStatus complete: refused, or its answer is lost.
ReportDone(r, accepted, answered) ==
    /\ runs[r].stage = "report"
    /\ accepted => taskRecord[r] = "open"
    /\ taskRecord' = IF accepted THEN Recorded(r, "complete") ELSE taskRecord
    /\ IF accepted /\ answered /\ Going(r)
       THEN Reaches(r, "refresh") /\ UNCHANGED <<ownVars, messages, shell>>
       ELSE Fails(r)
    /\ UNCHANGED sideVars

\* Until the balance has been read again, and after a chat the project, the run is the
\* active one and can be cancelled; neither reading can fail it.
Refreshed(r) ==
    /\ runs[r].stage = "refresh"
    /\ End(r)
    /\ UNCHANGED <<sideVars, shell, taskRecord, messages>>

\* changeTaskStatus failed, whatever becomes of it.
ReportFailure(r) ==
    /\ runs[r].stage = "fail"
    /\ taskRecord' \in {taskRecord, Recorded(r, "ended")}
    /\ End(r)
    /\ UNCHANGED <<sideVars, shell, messages>>

\* chatShellStatus: once the task is claimed it is told the outcome, unless either fails.
\* Nobody asks then whether the run was cancelled or the session has ended.
ShellReports(r) ==
    /\ shell[r] # "none"
    /\ shell' = [shell EXCEPT ![r] = "none"]
    /\ taskRecord' \in {taskRecord, Recorded(r, shell[r])}
    /\ UNCHANGED <<sideVars, ownVars, runs, messages>>

-----------------------------------------------------------------------------
(* The agent and its tools. *)

agentVars == <<session, begun, active, link, resolver, dialog, shell, taskRecord, messages,
               cancelling, cancels, consents>>

BeginTool(r, t, kind) ==
    /\ runs[r].stage = "agent" /\ link[r] = "open" /\ tool[r][t] = NoTool
    /\ tool' = [tool EXCEPT ![r][t] = [kind |-> kind, status |-> "pending"]]
    /\ UNCHANGED <<agentVars, runs, asks>>

\* Editing needs a permission.
AskPermission(r, t) ==
    /\ link[r] = "open" /\ tool[r][t] = [kind |-> "edit", status |-> "pending"]
    /\ ~ \E a \in asks : a.run = r
    /\ asks' = asks \cup {[run |-> r, tool |-> t, seen |-> FALSE]}
    /\ tool' = [tool EXCEPT ![r][t].status = "asked"]
    /\ UNCHANGED <<agentVars, runs>>

\* A tool does its work, and one that was denied gives up.
ToolEnds(r, t, status) ==
    /\ runs[r].stage = "agent"
    /\ \/ tool[r][t] = [kind |-> "look", status |-> "pending"]
       \/ tool[r][t].status = "granted"
       \/ tool[r][t].status = "denied" /\ status = "failed"
    /\ tool' = [tool EXCEPT ![r][t].status = status]
    /\ UNCHANGED <<agentVars, runs, asks>>

Asking(a) == [run |-> a.run, tool |-> a.tool]

\* The agent hears of it if it still waits and its socket is open.
AgentHears(a, yes) ==
    /\ asks' = {b \in asks : Asking(b) # a}
    /\ tool' = IF asks' = asks \/ link[a.run] # "open" THEN tool
               ELSE [tool EXCEPT ![a.run][a.tool].status = IF yes THEN "granted" ELSE "denied"]

\* requestPermission: of a run that is over it is denied, else the user is asked.
PermissionArrives(a) ==
    /\ ~a.seen
    /\ IF Going(a.run)
       THEN /\ asks' = (asks \ {a}) \cup {[a EXCEPT !.seen = TRUE]}
            /\ resolver' = Asking(a) /\ dialog' = Asking(a)
            /\ UNCHANGED tool
       ELSE AgentHears(Asking(a), FALSE) /\ UNCHANGED <<resolver, dialog>>
    /\ UNCHANGED <<session, begun, runs, active, link, shell, taskRecord, messages,
                   cancelling, cancels, consents>>

\* resolvePermission: the answer goes to whoever asked last.
ClickPermission(yes) ==
    /\ dialog # NoAsk
    /\ IF resolver = NoAsk THEN UNCHANGED <<asks, tool>> ELSE AgentHears(resolver, yes)
    /\ consents' = IF yes /\ Going(dialog.run) /\ Underway(dialog.run) THEN consents \cup {<<dialog.run, dialog.tool>>} ELSE consents
    /\ resolver' = NoAsk /\ dialog' = NoAsk
    /\ UNCHANGED <<session, begun, runs, active, link, shell, taskRecord, messages, cancelling, cancels>>

-----------------------------------------------------------------------------
(* Cancellation and the end of a session. *)

\* Whatever is asked for is denied.
Withdrawn ==
    /\ IF resolver = NoAsk THEN UNCHANGED <<asks, tool>> ELSE AgentHears(resolver, FALSE)
    /\ resolver' = NoAsk /\ dialog' = NoAsk

\* cancelled, and the abort that closes the socket; early if the answer, or the failure,
\* was not there yet.
StopRun(r) ==
    /\ runs' = [runs EXCEPT ![r].cancelled = IF @ # "no" THEN @
                                               ELSE IF runs[r].stage \in {"report", "fail", "refresh"} THEN "late" ELSE "early"]
    /\ link' = [link EXCEPT ![r] = IF @ = "open" THEN "closed" ELSE @]

Halt == IF active = 0 THEN UNCHANGED <<runs, link>> ELSE StopRun(active)

\* cancelSynchronizedTask and, of a chat, stopActiveChat, which says so at once.
Cancel(r) ==
    /\ session # 0 /\ session = runs[r].session /\ cancelling = 0
    /\ Underway(r) \/ taskRecord[r] = "open"
    /\ runs[r].mode = "chat" => active = r
    /\ cancelling' = r /\ cancels' = cancels \cup {r}
    /\ IF active = r THEN StopRun(r) /\ Withdrawn ELSE UNCHANGED <<runs, link, asks, tool, resolver, dialog>>
    /\ IF runs[r].mode = "chat" THEN Says(r, "cancelled") ELSE UNCHANGED messages
    /\ UNCHANGED <<session, begun, active, shell, taskRecord, consents>>

\* The answer, or its loss; one for another session is dropped.
Cancelled(r, accepted, answered) ==
    /\ r \in cancels
    /\ accepted => taskRecord[r] = "open"
    /\ taskRecord' = IF accepted THEN Recorded(r, "ended") ELSE taskRecord
    /\ cancels' = cancels \ {r}
    /\ IF session = runs[r].session
       THEN /\ cancelling' = 0
            /\ IF accepted /\ answered /\ runs[r].mode = "code" THEN Says(r, "cancelled") ELSE UNCHANGED messages
       ELSE UNCHANGED <<cancelling, messages>>
    /\ UNCHANGED <<session, begun, runs, active, link, tool, asks, resolver, dialog, shell, consents>>

\* Another device cancels the task, or its lease lapses.
EndedElsewhere(r) ==
    /\ Underway(r) /\ taskRecord[r] = "open"
    /\ taskRecord' = Recorded(r, "ended")
    /\ UNCHANGED <<sideVars, ownVars, runs, shell, messages>>

\* The list of tasks shows that the active one has ended.
Synchronized ==
    /\ active # 0 /\ taskRecord[active] = "ended" /\ runs[active].cancelled = "no"
    /\ StopRun(active) /\ Withdrawn
    /\ UNCHANGED <<session, begun, active, shell, taskRecord, messages, cancelling, cancels, consents>>

\* A heartbeat of the device is refused for its lease, which may have lapsed or been
\* forgotten: the run is stopped and its question stays on the screen.
LeaseRefused ==
    /\ active # 0 /\ runs[active].mode = "code" /\ runs[active].cancelled = "no"
    /\ runs[active].stage \in {"before", "connect", "agent", "after"}
    /\ StopRun(active)
    /\ UNCHANGED <<session, begun, active, tool, asks, resolver, dialog, shell, taskRecord, messages,
                   cancelling, cancels, consents>>

\* clearAuthenticatedUi.
LeaveSession ==
    /\ session # 0
    /\ session' = 0 /\ active' = 0 /\ messages' = {}
    /\ Halt /\ Withdrawn
    /\ UNCHANGED <<begun, shell, taskRecord, cancelling, cancels, consents>>

BeginSession ==
    /\ session = 0 /\ begun < MaxSessions
    /\ session' = begun + 1 /\ begun' = begun + 1
    /\ UNCHANGED <<runs, active, link, tool, asks, resolver, dialog, shell, taskRecord, messages,
                   cancelling, cancels, consents>>

RunNext ==
    \/ \E r \in Prompts : \/ \E mode \in {"code", "chat"} : SendPrompt(r, mode)
                       \/ ConnectAgent(r) \/ LinkLost(r) \/ AgentDies(r) \/ TurnEnds(r)
                       \/ Refreshed(r) \/ ReportFailure(r) \/ ShellReports(r) \/ Cancel(r) \/ EndedElsewhere(r)
    \/ \E r \in Prompts, ok \in BOOLEAN : Claimed(r, ok) \/ Chatted(r, ok)
    \/ \E r \in Prompts, ok, git \in BOOLEAN :
          \/ Prepared(r, ok, git)
          \/ \E wants \in {"change", "look"} : Reviewed(r, wants, ok, git)
          \/ ReportDone(r, ok, git) \/ Cancelled(r, ok, git)
    \/ \E r \in Prompts, t \in Tools :
          \/ \E kind \in {"edit", "look"} : BeginTool(r, t, kind)
          \/ AskPermission(r, t)
          \/ \E status \in {"completed", "failed"} : ToolEnds(r, t, status)
    \/ \E a \in asks : PermissionArrives(a)
    \/ \E yes \in BOOLEAN : ClickPermission(yes)
    \/ Synchronized \/ LeaseRefused \/ LeaveSession \/ BeginSession

RunSpec == RunInit /\ [][RunNext]_runVars

-----------------------------------------------------------------------------
\* Nothing is edited but what the user has allowed while its run was live, and the
\* question an agent waits with is the one that an answer will go to.
EditsHaveConsent ==
    /\ \A r \in Prompts, t \in Tools :
          tool[r][t].kind = "edit" /\ tool[r][t].status \in {"granted", "completed"} => <<r, t>> \in consents
    /\ \A a \in asks : a.seen /\ Going(a.run) /\ link[a.run] = "open" => resolver = Asking(a) /\ dialog = resolver

\* A code run reports its task complete only if a tool did work in it, and one that
\* was to change the project not without a sign of a change; and a task whose run was
\* cancelled, or its session left, before the answer had come is never complete, however
\* late its claim, its report or the cancellation reach the server.
CompleteIsEarned ==
    \A r \in Prompts :
        /\ runs[r].stage = "report" =>
              /\ \E t \in Tools : tool[r][t].status \notin {"none", "failed"}
              /\ runs[r].wants = "change" => \/ Touched(r) \/ ~runs[r].gitRead
                                            \/ \E t \in Tools : /\ tool[r][t].kind = "edit"
                                                                /\ tool[r][t].status # "failed"
        /\ taskRecord[r] = "complete" => runs[r].cancelled # "early"

\* The conversation is that of the account that is signed in; an answer or a failure
\* follows a prompt, and no prompt has both.
ConversationIsOwn ==
    \A m \in messages :
        /\ runs[m[1]].session = session
        /\ m[2] \in {"reply", "failure"} => Said(m[1], "prompt")
        /\ m[2] = "failure" => ~Said(m[1], "reply")

\* While a run goes on in the session it was sent in, no other can be sent.
OneRunAtATime == \A r \in Prompts : Underway(r) /\ Going(r) => active = r

\* All of them.
RunSafe == EditsHaveConsent /\ CompleteIsEarned /\ ConversationIsOwn /\ OneRunAtATime

=============================================================================
