--------------------------- MODULE WorkspaceSession ---------------------------
(***************************************************************************)
(* Who is signed in, in one window of the web application: the session of  *)
(* the last visit taken up again, the dialog's attempts, signing out,      *)
(* sessions the server ends, and the requests whose answers arrive after   *)
(* all that.  Sources: apps/web/src/App.tsx and apps/web/src/api.ts, with  *)
(* the token store of a browser (that of a phone is in MobileSession).     *)
(*                                                                         *)
(* A token stands for a session; token 1 is the one of the last visit.  An *)
(* authentication generation is modelled by marking what it makes outdated.*)
(* State that is set is rendered, and the effects that depend on it are    *)
(* replaced, by Render; a click is rendered at once.  The effect that polls*)
(* a payment order is left out.                                            *)
(***************************************************************************)
EXTENDS Naturals, FiniteSets

CONSTANTS
    Accounts,
    Sessions,           \* 1, 2, ...
    Views               \* what the window shows of an account

NoSession == 0          \* no token

ASSUME SessionsAssumption == Sessions \subseteq Nat \ {NoSession} /\ 1 \in Sessions

VARIABLES
    owner,              \* token -> its account
    attempt,            \* token -> the bootstrap or the attempt it is issued to
    ref,                \* sessionTokenRef
    rendered,           \* the session that the effects of the last render are for
    stored,             \* the token in localStorage
    queue,              \* tokens whose removal from the store waits
    refused,            \* tokens the server no longer accepts
    view,               \* what is shown -> the token it was read with
    reads               \* requests on their way

sessionVars == <<owner, attempt, ref, rendered, stored, queue, refused, view, reads>>

-----------------------------------------------------------------------------
\* latest: no later generation of authentication has begun.  open: neither the dialog
\* was closed nor another attempt made.
NoAttempt == [at |-> "none", latest |-> FALSE, open |-> FALSE]

SessionInit ==
    /\ owner \in [Sessions -> Accounts]
    /\ stored \in {NoSession, 1}
    /\ attempt = [t \in Sessions |-> IF t = 1 /\ stored = 1
                                   THEN [at |-> "resuming", latest |-> TRUE, open |-> TRUE]
                                   ELSE NoAttempt]
    /\ ref = NoSession /\ rendered = NoSession /\ queue = {} /\ refused = {}
    /\ view = [v \in Views |-> NoSession]
    /\ reads = {}

\* authGenerationRef moves on.
Outdated == [t \in Sessions |-> [attempt[t] EXCEPT !.latest = FALSE]]
OutdatedReads == {[r EXCEPT !.latest = FALSE] : r \in reads}

Step(t, at) == attempt' = [attempt EXCEPT ![t].at = at]

\* Mutation of StillMine: the dialog is not asked.
StillMineGeneration(t) == attempt[t].latest

\* assertCurrentAuth of the attempt that is being established.
StillMine(t) == attempt[t].latest /\ attempt[t].open

Busy(t) == attempt[t].at \in {"asking", "persisting", "loading", "connecting"}

-----------------------------------------------------------------------------
(* Signing in. *)

\* handleLogin, handleRegister: the dialog is there while nobody is signed in.
Ask(t) ==
    /\ ref = NoSession /\ rendered = NoSession
    /\ attempt[t].at = "none" /\ t > 1 /\ \A u \in Sessions : u > 1 /\ u < t => attempt[u].at # "none"
    /\ attempt' = [u \in Sessions |-> IF u = t THEN [at |-> "asking", latest |-> FALSE, open |-> TRUE]
                                    ELSE IF u > 1 THEN [attempt[u] EXCEPT !.open = FALSE] ELSE attempt[u]]
    /\ UNCHANGED <<owner, ref, rendered, stored, queue, refused, view, reads>>

\* cancelAuthentication.
CloseDialog ==
    /\ \E t \in Sessions : t > 1 /\ Busy(t) /\ attempt[t].open
    /\ attempt' = [t \in Sessions |-> IF t > 1 THEN [attempt[t] EXCEPT !.open = FALSE] ELSE attempt[t]]
    /\ UNCHANGED <<owner, ref, rendered, stored, queue, refused, view, reads>>

\* The server's token arrives; establishAuthenticatedSession begins a generation.
Issued(t, ok) ==
    /\ attempt[t].at = "asking"
    /\ IF ok /\ attempt[t].open
       THEN /\ attempt' = [Outdated EXCEPT ![t] = [at |-> "persisting", latest |-> TRUE, open |-> TRUE]]
            /\ reads' = OutdatedReads
       ELSE Step(t, "failed") /\ UNCHANGED reads
    /\ UNCHANGED <<owner, ref, rendered, stored, queue, refused, view>>

\* persistCodSession, in the order of the calls and after the removals before it.
Persist(t) ==
    /\ attempt[t].at = "persisting" /\ queue = {}
    /\ \A u \in Sessions : u < t => attempt[u].at # "persisting"
    /\ stored' = t
    /\ Step(t, IF StillMine(t) THEN "loading" ELSE "undoing")
    /\ UNCHANGED <<owner, ref, rendered, queue, refused, view, reads>>

\* loadWorkspace: the lists, then this device.  Resuming follows the same way, and
\* keeps the token for the next visit if the server cannot be asked.
Load(t, ok) ==
    /\ attempt[t].at \in {"loading", "resuming"}
    /\ IF attempt[t].at = "loading"
       THEN Step(t, IF ok /\ attempt[t].latest THEN "connecting" ELSE "undoing")
       ELSE \E how \in {"refused", "kept"} :
                Step(t, IF ~attempt[t].latest THEN "failed" ELSE IF ok THEN "reconnecting" ELSE how)
    /\ UNCHANGED <<owner, ref, rendered, stored, queue, refused, view, reads>>

\* ensureCurrentDevice shows the devices before anybody is signed in.
Connect(t) ==
    /\ attempt[t].at \in {"connecting", "reconnecting"} /\ attempt[t].latest
    /\ ref \in {NoSession, t}
    /\ view' = [view EXCEPT !["devices"] = t]
    /\ UNCHANGED <<owner, attempt, ref, rendered, stored, queue, refused, reads>>

\* The rest of the workspace is shown, what could not be loaded as empty, and then the
\* session set, unless the dialog was closed meanwhile.
Shown(t) == {[v \in Views |-> IF v = "requests" THEN view[v] ELSE IF v \in got THEN t ELSE NoSession] :
                got \in {{}, Views}}

Establish(t) ==
    /\ attempt[t].at = "connecting"
    /\ IF attempt[t].latest THEN view' \in Shown(t) ELSE UNCHANGED view
    /\ IF StillMine(t) THEN Step(t, "in") /\ ref' = t
                       ELSE Step(t, "undoing") /\ UNCHANGED ref
    /\ UNCHANGED <<owner, rendered, stored, queue, refused, reads>>

\* The dialog goes with it.
ResumeSession(t) ==
    /\ attempt[t].at = "reconnecting"
    /\ IF attempt[t].latest
       THEN /\ attempt' = [u \in Sessions |-> IF u = t THEN [attempt[t] EXCEPT !.at = "in"]
                                             ELSE [attempt[u] EXCEPT !.open = FALSE]]
            /\ ref' = t /\ view' \in Shown(t)
       ELSE Step(t, "failed") /\ UNCHANGED <<ref, view>>
    /\ UNCHANGED <<owner, rendered, stored, queue, refused, reads>>

\* A token that was persisted for nothing is removed, and so is a refused one.
Undo(t) ==
    /\ attempt[t].at \in {"undoing", "refused"}
    /\ queue' = queue \cup {t}
    /\ Step(t, "failed")
    /\ UNCHANGED <<owner, ref, rendered, stored, refused, view, reads>>

-----------------------------------------------------------------------------
(* Signing out. *)

NothingShown == [v \in Views |-> NoSession]

\* clearAuthenticatedUi.
ClearedUi == ref' = NoSession /\ view' = NothingShown

\* handleLogout: a click, or an answer that says the session is over.
EndSession(t) ==
    /\ ClearedUi
    /\ attempt' = [u \in Sessions |-> [Outdated[u] EXCEPT !.open = FALSE]]
    /\ queue' = queue \cup {t}

SignOut ==
    /\ ref # NoSession /\ rendered = ref
    /\ EndSession(ref)
    /\ rendered' = NoSession
    /\ reads' = {r \in OutdatedReads : ~r.effect}
    /\ UNCHANGED <<owner, stored, refused>>

\* logoutCod: the store forgets a token only if that is the one it holds.
RemoveToken(t) ==
    /\ t \in queue
    /\ queue' = queue \ {t}
    /\ stored' = IF stored = t THEN NoSession ELSE stored
    /\ UNCHANGED <<owner, attempt, ref, rendered, refused, view, reads>>

\* Sessions end after seven days, or with the server's secret.
Revoke(t) ==
    /\ ref = t /\ t \notin refused
    /\ refused' = refused \cup {t}
    /\ UNCHANGED <<owner, attempt, ref, rendered, stored, queue, view, reads>>

\* invalidateCodSession: the store first, then who observes it.
Invalidated(t) ==
    /\ t \in refused /\ stored \in {t, NoSession}
    /\ stored' = NoSession
    /\ IF ref = t THEN ClearedUi /\ attempt' = Outdated
                  ELSE UNCHANGED <<ref, view, attempt>>
    /\ UNCHANGED <<owner, rendered, queue, refused>>

\* The effects of another session begin; those of the last one are told to stop.
Render ==
    /\ rendered # ref
    /\ rendered' = ref
    /\ reads' = {r \in reads : ~r.effect} \cup
                {[kind |-> "list", token |-> t, latest |-> FALSE, effect |-> TRUE] : t \in {ref} \ {NoSession}}
    /\ view' = IF ref = NoSession THEN [view EXCEPT !["requests"] = NoSession] ELSE view
    /\ attempt' = [t \in Sessions |-> IF t > 1 /\ ref # NoSession THEN [attempt[t] EXCEPT !.open = FALSE]
                                                             ELSE attempt[t]]
    /\ UNCHANGED <<owner, ref, stored, queue, refused>>

-----------------------------------------------------------------------------
(* Reading.  sync: every 15 seconds; refresh: the button; wallet: refreshWallet,
   knowledge, a new task and a purchase; list: compute requests and referrals. *)

Read(kind) ==
    /\ rendered # NoSession /\ rendered = ref
    /\ ~ \E r \in reads : r.kind = kind
    /\ reads' = reads \cup {[kind |-> kind, token |-> ref, latest |-> TRUE, effect |-> kind = "sync"]}
    /\ UNCHANGED <<owner, attempt, ref, rendered, stored, queue, refused, view>>

\* What each kind asks before it shows its answer.
MayShow(r) ==
    CASE r.kind \in {"sync", "refresh"} -> ref = r.token /\ r.latest
      [] r.kind = "wallet"              -> ref = r.token
      [] r.kind = "list"                -> TRUE

Reach(kind) ==
    CASE kind = "sync"    -> Views \ {"requests"}
      [] kind = "refresh" -> Views
      [] kind = "wallet"  -> {"ledger"}
      [] kind = "list"    -> {"requests"}

\* An answer for a session that is over is dropped.
AnswerArrives(r) ==
    /\ reads' = reads \ {r}
    /\ view' = [v \in Views |-> IF MayShow(r) /\ v \in Reach(r.kind) THEN r.token ELSE view[v]]
    /\ UNCHANGED <<owner, attempt, ref, rendered, stored, queue, refused>>

\* A refusal by the server's authentication ends the session of its token.
Refuse(r) ==
    /\ r.token \in refused
    /\ IF stored \in {r.token, NoSession} THEN Invalidated(r.token)
                                     ELSE UNCHANGED <<owner, attempt, ref, rendered, stored, queue, refused, view>>
    /\ reads' = reads \ {r}

SessionNext ==
    \/ \E t \in Sessions : \/ Ask(t) \/ Persist(t) \/ Connect(t) \/ Establish(t) \/ ResumeSession(t)
                         \/ Undo(t) \/ RemoveToken(t) \/ Revoke(t)
    \/ \E t \in Sessions, ok \in BOOLEAN : Issued(t, ok) \/ Load(t, ok)
    \/ CloseDialog \/ SignOut \/ Render
    \/ \E kind \in {"sync", "refresh", "wallet"} : Read(kind)
    \/ \E r \in reads : AnswerArrives(r) \/ Refuse(r)

SessionSpec == SessionInit /\ [][SessionNext]_sessionVars

-----------------------------------------------------------------------------
\* Whoever is signed in sees nothing of another account.
OwnViews ==
    ref # NoSession => \A v \in Views : view[v] # NoSession => owner[view[v]] = owner[ref]

\* The store holds the token of the session, or of an attempt that is not over, or one
\* that is about to be removed: an attempt that was given up leaves nothing behind.
NothingLeftBehind ==
    stored # NoSession =>
        \/ stored = ref \/ stored \in queue \/ stored \in refused
        \/ attempt[stored].at \notin {"in", "failed"}
        \/ \E t \in Sessions : attempt[t].at = "persisting"

SessionSafe == OwnViews /\ NothingLeftBehind

=============================================================================
