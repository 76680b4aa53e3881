------------------------------- MODULE Hosting -------------------------------
(***************************************************************************)
(* Hosting applications of the compute market (version 2) and the devices  *)
(* that enter service when an application is deployed.  Sources: services/ *)
(* control-plane/src/compute-market-v2/{hosting,devices,validation,router, *)
(* admin}.ts.                                                              *)
(*                                                                         *)
(* A request of an operator names the revision its sender saw and may      *)
(* arrive after others have changed the application.  One that is sent     *)
(* again with its key is answered as before and changes nothing.  What an  *)
(* application says is a draft, a member of a set.                         *)
(***************************************************************************)
EXTENDS Naturals, FiniteSets

CONSTANTS
    Applications,   \* ids of applications
    Operators,
    Drafts,         \* what an application may say
    Complete,       \* the drafts that say all a submission needs
    NoDraft,
    Machines,       \* devices an application lists
    MaxRevision     \* bound on revisions

ASSUME DraftsAssumption == Complete \subseteq Drafts /\ NoDraft \notin Drafts

VARIABLES
    application,    \* application -> its row
    machine,        \* application and listed device -> the hosted device
    sent,           \* operator -> the request on its way
    approved        \* history: application -> drafts operators saw when they moved it

hostingVars == <<application, machine, sent, approved>>

-----------------------------------------------------------------------------
hostingTransitions == [
    none |-> {}, draft |-> {"submitted", "cancelled"}, submitted |-> {"reviewing", "cancelled"},
    reviewing        |-> {"site_survey", "rejected", "cancelled"},
    site_survey      |-> {"quoted", "rejected", "cancelled"},
    quoted           |-> {"contract_pending", "rejected", "cancelled"},
    contract_pending |-> {"inbound_pending", "cancelled"},
    inbound_pending  |-> {"deploying", "cancelled"},
    deploying        |-> {"running", "action_required"},
    running          |-> {"action_required", "offboarding"},
    action_required  |-> {"running", "offboarding"},
    offboarding      |-> {"completed"},
    completed |-> {}, rejected |-> {}, cancelled |-> {}]

deviceTransitions == [
    none |-> {}, pending_review |-> {"deploying", "retired"},
    deploying       |-> {"running", "action_required", "maintenance"},
    running         |-> {"action_required", "maintenance", "offline", "retired"},
    action_required |-> {"running", "maintenance", "offline", "retired"},
    maintenance     |-> {"running", "offline", "retired"},
    offline         |-> {"running", "maintenance", "retired"},
    retired         |-> {}]

NoApplication == [status |-> "none", draft |-> NoDraft, revision |-> 0, started |-> 0]
NoMachine == [status |-> "none", created |-> 0]
NoRequest == [status |-> "none"]

HostingInit ==
    /\ application = [a \in Applications |-> NoApplication]
    /\ machine \in [Applications \X Machines -> {NoMachine}]
    /\ sent = [p \in Operators |-> NoRequest]
    /\ approved = [a \in Applications |-> {}]

-----------------------------------------------------------------------------
(* The owner *)

\* validateHostingDraft: a draft may be saved as far as it goes, but is submitted
\* only when it is complete.
Valid(draft, submit) == submit => draft \in Complete

\* create, as a draft or submitted at once.
Apply(a, draft, submit) ==
    /\ application[a].status = "none" /\ Valid(draft, submit)
    /\ application' = [application EXCEPT ![a] =
          [NoApplication EXCEPT !.status = IF submit THEN "submitted" ELSE "draft",
                                !.draft = draft, !.revision = 1]]
    /\ UNCHANGED <<machine, sent, approved>>

Editable(a) == application[a].status = "draft"

\* updateDraft.
UpdateDraft(a, draft, submit) ==
    /\ Editable(a) /\ Valid(draft, submit) /\ application[a].revision < MaxRevision
    /\ application' = [application EXCEPT ![a] =
          [application[a] EXCEPT !.status = IF submit THEN "submitted" ELSE @, !.draft = draft,
                                 !.revision = @ + 1]]
    /\ UNCHANGED <<machine, sent, approved>>

-----------------------------------------------------------------------------
(* Operators *)

\* An operator looks at an application and asks for a transition.
AskMove(p, a, status) ==
    /\ sent[p] = NoRequest
    /\ status \in hostingTransitions[application[a].status]
    /\ sent' = [sent EXCEPT ![p] = [a |-> a, status |-> status, draft |-> application[a].draft,
                                    revision |-> application[a].revision]]
    /\ UNCHANGED <<application, machine, approved>>

Fresh(r) == application[r.a].revision = r.revision

\* hostingStartedAt: the term runs from the first time the service runs.
Started(row, status) ==
    IF status = "running" /\ row.started = 0 THEN row.revision + 1 ELSE row.started

\* createFromAcceptedApplication: the devices of the application, unless it has any.
Deployed(a) ==
    IF \E m \in Machines : machine[a, m] # NoMachine THEN machine
    ELSE [d \in DOMAIN machine |-> IF d[1] = a
             THEN [status |-> "deploying", created |-> application[a].revision]
             ELSE machine[d]]

\* adminTransition and the devices in one step; or a refusal.
MoveApplication(p) ==
    LET r == sent[p]
        row == application[r.a]
    IN /\ sent[p] # NoRequest
       /\ sent' = [sent EXCEPT ![p] = NoRequest]
       /\ \/ /\ Fresh(r) /\ r.status \in hostingTransitions[row.status] /\ row.revision < MaxRevision
             /\ application' = [application EXCEPT ![r.a] =
                   [row EXCEPT !.status = r.status, !.revision = @ + 1, !.started = Started(row, r.status)]]
             /\ machine' = IF r.status = "deploying" THEN Deployed(r.a) ELSE machine
             /\ approved' = [approved EXCEPT ![r.a] = @ \cup {r.draft}]
          \/ /\ ~Fresh(r) \/ r.status \notin hostingTransitions[row.status]
             /\ UNCHANGED <<application, machine, approved>>

\* adminTransition of a device.
MoveMachine(a, m, status) ==
    /\ status \in deviceTransitions[machine[a, m].status]
    /\ machine' = [machine EXCEPT ![<<a, m>>].status = status]
    /\ UNCHANGED <<application, sent, approved>>

OwnerOf(a) == \E d \in Drafts, submit \in BOOLEAN : Apply(a, d, submit) \/ UpdateDraft(a, d, submit)

OperatorRoutes ==
    \/ \E p \in Operators : MoveApplication(p)
    \/ \E a \in Applications, m \in Machines, s \in DOMAIN deviceTransitions : MoveMachine(a, m, s)

HostingNext ==
    \/ \E a \in Applications : OwnerOf(a)
    \/ \E p \in Operators, a \in Applications, s \in DOMAIN hostingTransitions : AskMove(p, a, s)
    \/ OperatorRoutes

HostingSpec == HostingInit /\ [][HostingNext]_hostingVars

-----------------------------------------------------------------------------
InService == {"deploying", "running", "action_required", "offboarding", "completed"}

\* An application is deployed with what every operator who moved it had seen, and its
\* devices exist exactly from then on.
DeployedAsReviewed ==
    \A a \in Applications :
        /\ application[a].status \in InService => approved[a] \subseteq {application[a].draft}
        /\ \A m \in Machines : machine[a, m] # NoMachine <=> application[a].status \in InService

\* A device is created once, and the term of an application does not begin anew when
\* its service runs again.
TermBeginsOnce ==
    [][\A a \in Applications :
          /\ application[a].started # 0 => application'[a].started = application[a].started
          /\ \A m \in Machines : machine[a, m] # NoMachine =>
                machine'[a, m].created = machine[a, m].created]_hostingVars

=============================================================================
