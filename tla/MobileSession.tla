----------------------------- MODULE MobileSession -----------------------------
(***************************************************************************)
(* The session of the mobile application across failing storage, crashes   *)
(* and restarts.  The token lies in the secure store; the web view's       *)
(* localStorage holds a token of an older version, the chat history and a  *)
(* marker that a logout is not finished.  Loading, saving and clearing run *)
(* one at a time; each step is the code between two calls of the native    *)
(* bridge, and any access to either storage may fail.                      *)
(***************************************************************************)
EXTENDS Naturals, Sequences

CONSTANTS
    MobileTokens,  \* session tokens; each names the account it belongs to
    NoToken,
    MaxQueued      \* bound: operations waiting for the storage

ASSUME MobileAssumption == NoToken \notin MobileTokens /\ MaxQueued \in Nat

VARIABLES
    secure,        \* [kind, token]: the record under cod.session.v1
    plaintext,     \* the token in localStorage, or NoToken
    logoutPending, \* the marker in localStorage
    chats,         \* accounts whose messages are in localStorage
    bridge,        \* the native bridge offers the session functions
    page,          \* the token shown, that of the current login, those of logins whose workspace is
                   \* loading, that of the session found at the start, and whether no login began since
    sessionPersistenceQueue, \* operations, the first one running
    issued,        \* tokens that the server has issued
    loggedOut,     \* tokens whose logout was reported as done or as certain to be done
    crossed        \* history: a clearing that left another token alone has removed a marker it had found

mobileVars == <<secure, plaintext, logoutPending, chats, bridge, page, sessionPersistenceQueue,
                issued, loggedOut, crossed>>

Logout == [kind |-> "logout", token |-> NoToken]
Empty == [kind |-> "empty", token |-> NoToken]
Invalid == [kind |-> "invalid", token |-> NoToken]
Stored(t) == [kind |-> "token", token |-> t]

\* How an operation clears: the token it expects, whether history goes, whether the marker goes first.
Operation(kind, t, history, ahead) ==
    [kind |-> kind, token |-> t, at |-> "begin", history |-> history, ahead |-> ahead,
     marked |-> FALSE, found |-> FALSE, gone |-> FALSE, legacy |-> NoToken]

Queue(op) == /\ Len(sessionPersistenceQueue) < MaxQueued
             /\ sessionPersistenceQueue' = Append(sessionPersistenceQueue, op)

op == Head(sessionPersistenceQueue)
Running(step) == sessionPersistenceQueue # <<>> /\ op.at = step
Continue(next) == sessionPersistenceQueue' = <<next>> \o Tail(sessionPersistenceQueue)
Finish == sessionPersistenceQueue' = Tail(sessionPersistenceQueue)

SignedOut == [session |-> NoToken, attempt |-> NoToken, arriving |-> {}, resuming |-> NoToken, fresh |-> TRUE]

MobileInit ==
    /\ secure \in {Empty, Invalid} \cup {[kind |-> k, token |-> t] : k \in {"token", "legacy"}, t \in MobileTokens}
    /\ plaintext \in MobileTokens \cup {NoToken}
    /\ \A t \in MobileTokens : secure.token = t /\ plaintext # NoToken => plaintext = t
    /\ logoutPending = FALSE
    /\ issued = {secure.token, plaintext} \ {NoToken}
    /\ chats = issued
    /\ bridge = TRUE
    /\ page = SignedOut
    /\ sessionPersistenceQueue = <<Operation("load", NoToken, TRUE, TRUE)>>
    /\ loggedOut = {} /\ crossed = FALSE

-----------------------------------------------------------------------------
(* session-store.ts: one call of the native store.  A write may fail, with *)
(* or without having been made.                                            *)

\* Mutation of replaceInvalidSessionWithLogout: the record is deleted.
replaceWithNothing(v) == Empty

replaceInvalidSessionWithLogout(v) == Logout

\* The results of loadSessionCleanupPending: [ok, pending] and the record after it.
CleanupPending ==
    {[ok |-> FALSE, pending |-> FALSE, record |-> secure]} \cup
    IF secure.kind = "invalid"
    THEN {[ok |-> o, pending |-> TRUE, record |-> replaceInvalidSessionWithLogout(secure)] : o \in BOOLEAN}
    ELSE {[ok |-> TRUE, pending |-> secure.kind = "logout", record |-> secure]}

\* The results of loadSessionToken; a record of an older version is migrated.
LoadedToken ==
    {[ok |-> FALSE, token |-> NoToken, record |-> secure]} \cup
    CASE secure.kind \in {"empty", "logout"} -> {[ok |-> TRUE, token |-> NoToken, record |-> secure]}
      [] secure.kind = "invalid" ->
            {[ok |-> FALSE, token |-> NoToken, record |-> replaceInvalidSessionWithLogout(secure)]}
      [] OTHER -> {[ok |-> o, token |-> secure.token, record |-> Stored(secure.token)] : o \in BOOLEAN}

\* The results of saveSessionToken: a save that cannot be verified is replaced by a logout, if that works.
SavedToken(t) ==
    {[ok |-> TRUE, record |-> Stored(t)]} \cup
    {[ok |-> FALSE, record |-> r] : r \in {secure, Stored(t), replaceInvalidSessionWithLogout(secure)}}

\* The results of clearSessionToken; another token than the expected one is left alone.
ClearedToken(expected) ==
    {[ok |-> FALSE, cleared |-> FALSE, record |-> secure]} \cup
    IF expected # NoToken /\ secure.token \notin {NoToken, expected}
    THEN {[ok |-> TRUE, cleared |-> FALSE, record |-> secure]}
    ELSE {[ok |-> o, cleared |-> o, record |-> replaceInvalidSessionWithLogout(secure)] : o \in BOOLEAN}

-----------------------------------------------------------------------------
(* localStorage: w and r say whether a write and a removal work now.       *)

removePlaintext(r) == plaintext' = IF r THEN NoToken ELSE plaintext

clearHistory(r) == chats' = IF r THEN {} ELSE chats

\* clearMobileSession before the bridge is called: the marker is written first; when that fails, the
\* old token is removed, which may make room for it.
Mark(ahead, next) ==
    \E w, r, again \in BOOLEAN :
        LET tried == ahead /\ ~w
            marked == ahead /\ (w \/ again)
        IN  /\ plaintext' = IF tried /\ r THEN NoToken ELSE plaintext
            /\ logoutPending' = (logoutPending \/ marked)
            /\ Continue([next EXCEPT !.at = "clear", !.marked = marked, !.found = logoutPending, !.gone = tried /\ r])

Told(t) == loggedOut' = loggedOut \cup ({t} \ {NoToken})

\* What the operation does once its clear has ended with one of these results.
Ends(result) ==
    LET signedOut == result \in {"cleared", "failedCleared"}
    IN  CASE op.kind = "logout" ->
               /\ Finish /\ UNCHANGED page
               /\ IF result \in {"unrecorded", "other"} THEN UNCHANGED loggedOut ELSE Told(op.token)
          [] op.kind = "invalidate" ->
               /\ Finish
               /\ IF signedOut /\ page.session = op.token
                  THEN Told(op.token) /\ page' = [page EXCEPT !.session = NoToken]
                  ELSE UNCHANGED <<page, loggedOut>>
          [] op.kind = "persist" ->
               /\ IF result = "cleared" THEN Continue([op EXCEPT !.at = "save"]) ELSE Finish
               /\ UNCHANGED <<page, loggedOut>>
          [] OTHER -> Finish /\ UNCHANGED <<page, loggedOut>>

\* The secure store has been cleared: the old token and the history go too, and then the marker.
RemoveRest(r, h, w) ==
    LET plain == op.gone \/ r
        gone == op.history => h
    IN  /\ removePlaintext(plain)
        /\ IF op.history THEN clearHistory(h) ELSE UNCHANGED chats
        /\ logoutPending' = IF plain /\ gone THEN logoutPending /\ ~w ELSE logoutPending \/ w
        /\ UNCHANGED crossed
        /\ Ends(IF plain /\ gone /\ w THEN "cleared" ELSE "failedCleared")

\* It holds another token, which stays; a marker that was written for this one is removed.
LeaveAlone(w) ==
    /\ logoutPending' = (logoutPending /\ ~(op.marked /\ w))
    /\ crossed' = (crossed \/ (op.marked /\ w /\ op.found))
    /\ UNCHANGED <<plaintext, chats>>
    /\ Ends("other")

\* The clearing has failed: a marker that could not be written is tried once more.
MarkAgain(r, w) ==
    LET late == op.ahead /\ ~op.marked
    IN  /\ IF late /\ ~op.gone THEN removePlaintext(r) ELSE UNCHANGED plaintext
        /\ logoutPending' = (logoutPending \/ (late /\ w))
        /\ UNCHANGED <<chats, crossed>>
        /\ Ends(IF late /\ ~w THEN "unrecorded" ELSE IF op.ahead THEN "failed" ELSE "unsaid")

\* clearMobileSession from the call of clearSessionToken on.
Clear ==
    /\ Running("clear")
    /\ \E n \in ClearedToken(IF op.kind \in {"logout", "rollback", "invalidate"} THEN op.token ELSE NoToken),
          r, h, w \in BOOLEAN :
        /\ secure' = n.record
        /\ \/ n.cleared /\ RemoveRest(r, h, w)
           \/ n.ok /\ ~n.cleared /\ LeaveAlone(w)
           \/ ~n.ok /\ MarkAgain(r, w)
    /\ UNCHANGED <<bridge, issued>>

\* markMobileCleanupPendingWithoutBridge: only localStorage can say that the session is over.
WithoutBridge ==
    /\ Running("begin") /\ ~bridge
    /\ \E w, r, again, h \in BOOLEAN :
        LET marked == w \/ again
            history == op.kind \notin {"persist", "rollback"}
        IN  /\ logoutPending' = (logoutPending \/ marked)
            /\ removePlaintext(r)
            /\ IF history /\ marked THEN clearHistory(h) ELSE UNCHANGED chats
            /\ IF op.kind = "logout" /\ marked /\ r /\ h THEN Told(op.token) ELSE UNCHANGED loggedOut
            /\ Finish
    /\ UNCHANGED <<secure, bridge, page, issued, crossed>>

-----------------------------------------------------------------------------
(* loadPersistedSessionToken.                                              *)

\* The marker cannot be read: everything that can be cleared is, and nobody is signed in.
LoadClosed ==
    /\ Running("begin") /\ bridge /\ op.kind = "load"
    /\ \E n \in ClearedToken(NoToken), r, w, h \in BOOLEAN :
        /\ secure' = n.record /\ removePlaintext(r) /\ clearHistory(h)
        /\ logoutPending' = (logoutPending \/ w)
    /\ Finish
    /\ UNCHANGED <<bridge, page, issued, loggedOut, crossed>>

LoadBegins ==
    /\ Running("begin") /\ bridge /\ op.kind = "load"
    /\ \E n \in CleanupPending :
        /\ secure' = n.record
        /\ IF ~n.ok \/ logoutPending \/ n.pending
           THEN Mark(TRUE, op)
           ELSE /\ Continue([op EXCEPT !.at = "token", !.legacy = plaintext])
                /\ UNCHANGED <<plaintext, logoutPending>>
    /\ UNCHANGED <<chats, bridge, page, issued, loggedOut, crossed>>

Resume(t) == page' = [page EXCEPT !.resuming = t]

GiveUp == Mark(TRUE, [op EXCEPT !.history = FALSE]) /\ UNCHANGED page

LoadToken ==
    /\ Running("token")
    /\ \E n \in LoadedToken, r \in BOOLEAN :
        /\ secure' = n.record
        /\ CASE ~n.ok -> GiveUp
             [] n.ok /\ n.token # NoToken /\ r ->
                  /\ plaintext' = NoToken /\ Resume(n.token) /\ Finish /\ UNCHANGED logoutPending
             [] n.ok /\ n.token = NoToken /\ op.legacy # NoToken ->
                  /\ Continue([op EXCEPT !.at = "migrate"])
                  /\ UNCHANGED <<plaintext, logoutPending, page>>
             [] n.ok /\ n.token = NoToken /\ op.legacy = NoToken /\ r ->
                  /\ plaintext' = NoToken /\ Finish /\ UNCHANGED <<logoutPending, page>>
             [] OTHER -> GiveUp
    /\ UNCHANGED <<chats, bridge, issued, loggedOut, crossed>>

\* A token of an older version moves to the secure store.
Migrate ==
    /\ Running("migrate")
    /\ \E n \in SavedToken(op.legacy), r \in BOOLEAN :
        /\ secure' = n.record
        /\ IF n.ok /\ r
           THEN /\ plaintext' = NoToken /\ Resume(op.legacy) /\ Finish /\ UNCHANGED logoutPending
           ELSE GiveUp
    /\ UNCHANGED <<chats, bridge, issued, loggedOut, crossed>>

-----------------------------------------------------------------------------
(* persistCodSession, logoutCod and their callers.                         *)

CleanupFirst(n) == logoutPending \/ n.pending

PersistBegins ==
    /\ Running("begin") /\ bridge /\ op.kind = "persist"
    /\ \E n \in CleanupPending, r \in BOOLEAN :
        /\ secure' = n.record
        /\ CASE ~n.ok -> Finish /\ UNCHANGED <<plaintext, logoutPending>>
             [] n.ok /\ CleanupFirst(n) -> Mark(TRUE, op)
             [] OTHER -> /\ removePlaintext(r) /\ UNCHANGED logoutPending
                         /\ IF r THEN Continue([op EXCEPT !.at = "save"]) ELSE Finish
    /\ UNCHANGED <<chats, bridge, page, issued, loggedOut, crossed>>

\* A save that fails clears what it may have left, and the login fails; one that another attempt or
\* the closing of the dialog has superseded is taken back.
PersistSaves ==
    /\ Running("save")
    /\ \E n \in SavedToken(op.token) :
        /\ secure' = n.record
        /\ IF n.ok
           THEN /\ IF page.attempt = op.token
                   THEN page' = [page EXCEPT !.arriving = @ \cup {op.token}] /\ Finish
                   ELSE /\ sessionPersistenceQueue' = Append(Tail(sessionPersistenceQueue),
                                                      Operation("rollback", op.token, FALSE, TRUE))
                        /\ UNCHANGED page
                /\ UNCHANGED <<plaintext, logoutPending>>
           ELSE /\ Mark(TRUE, [op EXCEPT !.kind = "rollback", !.history = FALSE])
                /\ UNCHANGED page
    /\ UNCHANGED <<chats, bridge, issued, loggedOut, crossed>>

logoutCod ==
    /\ Running("begin") /\ bridge /\ op.kind \in {"logout", "rollback", "invalidate"}
    /\ Mark(op.ahead, op)
    /\ UNCHANGED <<secure, chats, bridge, page, issued, loggedOut, crossed>>

storageVars == <<secure, plaintext, logoutPending, chats>>
keptVars == <<bridge, issued, loggedOut, crossed>>

\* handleLogin: the server issues a token, and it is saved.  Another login may still be under way.
SignIn(t) ==
    /\ t \notin issued /\ page.session = NoToken
    /\ Queue(Operation("persist", t, TRUE, TRUE))
    /\ issued' = issued \cup {t} /\ page' = [page EXCEPT !.attempt = t, !.fresh = FALSE]
    /\ UNCHANGED <<storageVars, bridge, loggedOut, crossed>>

\* cancelAuthentication
CancelSignIn ==
    /\ page.attempt # NoToken /\ page' = [page EXCEPT !.attempt = NoToken]
    /\ UNCHANGED <<storageVars, keptVars, sessionPersistenceQueue>>

\* establishAuthenticatedSession: the workspace has loaded, and nothing has superseded the attempt.
Established ==
    /\ page.attempt \in page.arriving
    /\ page' = [page EXCEPT !.session = page.attempt, !.attempt = NoToken, !.arriving = @ \ {page.attempt}]
    /\ UNCHANGED <<storageVars, keptVars, sessionPersistenceQueue>>

\* The server refuses the token of a login whose workspace is loading.
RefusedWhileLoading(t) ==
    /\ t \in page.arriving
    /\ Queue(Operation("invalidate", t, TRUE, FALSE))
    /\ page' = [page EXCEPT !.attempt = IF @ = t THEN NoToken ELSE @]
    /\ UNCHANGED <<storageVars, keptVars>>

\* A login that was refused, cancelled or superseded is taken back, once its requests have ended.
RollBack(t) ==
    /\ t \in page.arriving /\ t # page.attempt
    /\ Queue(Operation("rollback", t, FALSE, TRUE))
    /\ page' = [page EXCEPT !.arriving = @ \ {t}]
    /\ UNCHANGED <<storageVars, keptVars>>

\* The session that was found at the start is shown, unless a login began since.
Resumed ==
    /\ page.resuming # NoToken
    /\ page' \in {[page EXCEPT !.resuming = NoToken],
                  [page EXCEPT !.resuming = NoToken, !.session = IF page.fresh THEN page.resuming ELSE @]}
    /\ UNCHANGED <<storageVars, keptVars, sessionPersistenceQueue>>

\* Its token is refused; if that was by the workspace, it is cleared again.
RefusedAtStart ==
    /\ page.resuming # NoToken /\ page' = [page EXCEPT !.resuming = NoToken]
    /\ \E again \in BOOLEAN :
        /\ again => page.fresh
        /\ Len(sessionPersistenceQueue) < MaxQueued
        /\ sessionPersistenceQueue' = sessionPersistenceQueue \o
              <<Operation("invalidate", page.resuming, TRUE, FALSE)>> \o
              IF again THEN <<Operation("rollback", page.resuming, TRUE, TRUE)>> ELSE <<>>
    /\ UNCHANGED <<storageVars, keptVars>>

\* handleLogout: the page forgets the session at once.
handleLogout ==
    /\ page.session # NoToken
    /\ Queue(Operation("logout", page.session, TRUE, TRUE))
    /\ page' = [page EXCEPT !.session = NoToken]
    /\ UNCHANGED <<storageVars, keptVars>>

\* invalidateCodSession: the server no longer accepts the token that is shown.
invalidateCodSession ==
    /\ page.session # NoToken
    /\ Queue(Operation("invalidate", page.session, TRUE, FALSE))
    /\ UNCHANGED <<storageVars, keptVars, page>>

appendMessage ==
    /\ page.session # NoToken /\ chats' = chats \cup {page.session}
    /\ UNCHANGED <<secure, plaintext, logoutPending, keptVars, page, sessionPersistenceQueue>>

\* The application is killed between two steps and started again, with or without its bridge.
Restart ==
    /\ bridge' \in BOOLEAN
    /\ page' = SignedOut
    /\ sessionPersistenceQueue' = <<Operation("load", NoToken, TRUE, TRUE)>>
    /\ UNCHANGED <<storageVars, issued, loggedOut, crossed>>

MobileNext ==
    \/ Clear \/ WithoutBridge
    \/ LoadClosed \/ LoadBegins \/ LoadToken \/ Migrate
    \/ PersistBegins \/ PersistSaves \/ logoutCod
    \/ \E t \in MobileTokens : SignIn(t) \/ RefusedWhileLoading(t) \/ RollBack(t)
    \/ CancelSignIn \/ Established \/ Resumed \/ RefusedAtStart
    \/ handleLogout \/ invalidateCodSession
    \/ appendMessage \/ Restart

MobileSpec == MobileInit /\ [][MobileNext]_mobileVars

-----------------------------------------------------------------------------
(* Once the application has told a user that a logout is done, or will be  *)
(* finished by itself, no crash, failing storage or later login brings     *)
(* that session back or shows the next user its messages.                  *)
LogoutIsDurable ==
    /\ page.session \notin loggedOut
    /\ page.session # NoToken => chats \cap loggedOut = {}

(* Only one crossing can undo a logout: a login that was closed while its  *)
(* workspace loaded is taken back late, finds the marker of another logout *)
(* that has failed, and removes it.                                        *)
LogoutHolds == ~crossed => LogoutIsDurable

===============================================================================
