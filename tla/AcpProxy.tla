------------------------------ MODULE AcpProxy ------------------------------
(***************************************************************************)
(* The loopback proxy between the workspace and its agent: one client at a *)
(* time, a connection to the agent of its own for each, frames that wait   *)
(* until that is open, and what a client may ask of the agent.             *)
(* Sources: apps/desktop/src/acp-proxy.ts, acp-cwd-policy.ts.              *)
(*                                                                         *)
(* A frame is a method with what its check looks at: the directory of      *)
(* session/new, the session of a prompt or a cancellation; initialize and  *)
(* answers to the agent's questions are not looked at.  Whatever else is   *)
(* refused (binary, not JSON, a batch, another method, too large) is one   *)
(* frame.  Bytes are counted in frames.                                    *)
(***************************************************************************)
EXTENDS Naturals, Sequences, SequencesExt

CONSTANTS
    Clients,        \* connections of the workspace
    MaxQueuedFrames, \* maximumQueuedFrames
    MaxFrames       \* frames that a connection sends

VARIABLES
    closed,         \* the proxy has been closed
    activeClient,   \* the client that is served, or NoClient
    renderer,       \* the readyState of each renderer's socket
    upstream,       \* and of its connection to the agent
    queuedFrames,   \* frames that wait for that to open
    creation,       \* session/new of each client: "none", "pending" or "over"
    boundSessionId, \* the session that it may use, or 0
    madeFor,        \* history: for whom the agent has made each session
    framesSent,     \* history: frames that each client has sent
    got             \* history: frames that the agent has got from it, both until it is over

proxyVars == <<closed, activeClient, renderer, upstream, queuedFrames, creation,
               boundSessionId, madeFor, framesSent, got>>
acpSessionVars == <<creation, boundSessionId, madeFor>>

NoClient == 0

ASSUME ClientsAssumption == NoClient \notin Clients

ProxyInit ==
    /\ closed = FALSE /\ activeClient = NoClient
    /\ renderer = [c \in Clients |-> "away"] /\ upstream = [c \in Clients |-> "none"]
    /\ queuedFrames = [c \in Clients |-> <<>>]
    /\ creation = [c \in Clients |-> "none"] /\ boundSessionId = [c \in Clients |-> 0]
    /\ madeFor = <<>>
    /\ framesSent = [c \in Clients |-> <<>>] /\ got = [c \in Clients |-> <<>>]

-----------------------------------------------------------------------------
\* A connection with the right token is made.
Accept(c) ==
    /\ renderer[c] = "away"
    /\ IF closed \/ activeClient # NoClient
       THEN renderer' = [renderer EXCEPT ![c] = "closing"] /\ UNCHANGED <<activeClient, upstream>>
       ELSE /\ renderer' = [renderer EXCEPT ![c] = "open"] /\ activeClient' = c
            /\ upstream' = [upstream EXCEPT ![c] = "connecting"]
    /\ UNCHANGED <<closed, queuedFrames, acpSessionVars, framesSent, got>>

\* closePeer, rejectConnection: a socket that is not closing yet begins to.
Closing(sockets, c) ==
    [sockets EXCEPT ![c] = IF @ \in {"connecting", "open"} THEN "closing" ELSE @]

rejectFrame(c) == renderer' = Closing(renderer, c) /\ upstream' = Closing(upstream, c)

\* enforceAcpCwdPolicy.
Permitted(f) ==
    /\ f.method \in {"session/new", "session/prompt", "answer"}
    /\ f.method = "session/new" => f.cwd = "bound"

\* validateRendererSession: one session for each connection, and prompts for no other.
ValidFrame(c, f) ==
    /\ f.method = "session/new" => creation[c] = "none"
    /\ f.method = "session/prompt" => boundSessionId[c] # 0 /\ f.session = boundSessionId[c]

\* A socket that is closing still brings what was sent before.
Receive(c, f) ==
    /\ renderer[c] \in {"open", "closing"} /\ upstream[c] # "none" /\ Len(framesSent[c]) < MaxFrames
    /\ framesSent' = [framesSent EXCEPT ![c] = Append(@, f)]
    /\ IF Permitted(f) /\ ValidFrame(c, f)
       THEN /\ creation' = IF f.method = "session/new" THEN [creation EXCEPT ![c] = "pending"] ELSE creation
            /\ CASE upstream[c] = "open" ->
                      got' = [got EXCEPT ![c] = Append(@, f)] /\ UNCHANGED <<queuedFrames, renderer, upstream>>
                 [] upstream[c] = "connecting" /\ Len(queuedFrames[c]) < MaxQueuedFrames ->
                      queuedFrames' = [queuedFrames EXCEPT ![c] = Append(@, f)] /\ UNCHANGED <<got, renderer, upstream>>
                 [] OTHER -> rejectFrame(c) /\ UNCHANGED <<got, queuedFrames>>
       ELSE rejectFrame(c) /\ UNCHANGED <<creation, got, queuedFrames>>
    /\ UNCHANGED <<closed, activeClient, boundSessionId, madeFor>>

\* upstream open: what has waited goes first.
UpstreamOpens(c) ==
    /\ upstream[c] = "connecting"
    /\ upstream' = [upstream EXCEPT ![c] = "open"]
    /\ got' = [got EXCEPT ![c] = @ \o queuedFrames[c]]
    /\ queuedFrames' = [queuedFrames EXCEPT ![c] = <<>>]
    /\ UNCHANGED <<closed, activeClient, renderer, acpSessionVars, framesSent>>

\* A connection that is over on both sides is forgotten.
Blank(frames) ==
    [c \in Clients |-> IF renderer'[c] = "closed" /\ upstream'[c] \in {"none", "closed"} THEN <<>> ELSE frames[c]]

ForgetsClosed ==
    /\ queuedFrames' = Blank(queuedFrames)
    /\ framesSent' = Blank(framesSent) /\ got' = Blank(got)

\* upstream close, after an error or not.
UpstreamCloses(c) ==
    /\ upstream[c] \in {"connecting", "open", "closing"}
    /\ upstream' = [upstream EXCEPT ![c] = "closed"]
    /\ renderer' = Closing(renderer, c)
    /\ ForgetsClosed
    /\ UNCHANGED <<closed, activeClient, acpSessionVars>>

\* client close.
ClientCloses(c) ==
    /\ renderer[c] \in {"open", "closing"}
    /\ renderer' = [renderer EXCEPT ![c] = "closed"]
    /\ activeClient' = IF activeClient = c THEN NoClient ELSE activeClient
    /\ upstream' = Closing(upstream, c)
    /\ ForgetsClosed
    /\ UNCHANGED <<closed, acpSessionVars>>

\* The agent answers session/new, with a session or an error: captureBoundSession.
AgentAnswers(c, ok) ==
    /\ upstream[c] \in {"open", "closing"} /\ creation[c] = "pending"
    /\ \E i \in DOMAIN got[c] : got[c][i].method = "session/new"
    /\ creation' = [creation EXCEPT ![c] = "over"]
    /\ IF ok THEN /\ madeFor' = Append(madeFor, c)
                  /\ boundSessionId' = [boundSessionId EXCEPT ![c] = Len(madeFor')]
       ELSE UNCHANGED <<madeFor, boundSessionId>>
    /\ UNCHANGED <<closed, activeClient, renderer, upstream, queuedFrames, framesSent, got>>

\* close: every socket is terminated.
CloseAll ==
    /\ ~closed
    /\ closed' = TRUE /\ activeClient' = NoClient
    /\ renderer' = [c \in Clients |-> IF renderer[c] = "away" THEN "away" ELSE "closed"]
    /\ upstream' = [c \in Clients |-> IF upstream[c] = "none" THEN "none" ELSE "closed"]
    /\ ForgetsClosed
    /\ UNCHANGED acpSessionVars

Frame(method, cwd, session) == [method |-> method, cwd |-> cwd, session |-> session]
Frames ==
    {Frame(method, "none", 0) : method \in {"answer", "refused"}}
        \cup {Frame("session/new", cwd, 0) : cwd \in {"bound", "other"}}
        \cup {Frame("session/prompt", "none", s) : s \in 0..Len(madeFor)}

ProxyNext ==
    \/ \E c \in Clients :
          \/ Accept(c) \/ UpstreamOpens(c) \/ UpstreamCloses(c) \/ ClientCloses(c)
          \/ \E f \in Frames : Receive(c, f)
          \/ \E ok \in BOOLEAN : AgentAnswers(c, ok)
    \/ CloseAll

ProxySpec == ProxyInit /\ [][ProxyNext]_proxyVars

-----------------------------------------------------------------------------
\* The agent gets what a client has sent in its order and without a gap: what was
\* sent while the connection opened is neither lost nor overtaken, and after a frame that
\* was refused there comes nothing more.
InOrder ==
    \A c \in Clients :
        /\ IsPrefix(got[c] \o queuedFrames[c], framesSent[c])
        /\ renderer[c] = "open" => got[c] \o queuedFrames[c] = framesSent[c]

\* The agent makes at most one session for a connection, in the directory that was
\* approved, and gets prompts only for the session of the connection they came by.
SessionsAreBound ==
    \A c \in Clients :
        LET taken == got[c] IN
        /\ \A i, j \in DOMAIN taken :
              taken[i].method = "session/new" /\ taken[j].method = "session/new" => i = j /\ taken[i].cwd = "bound"
        /\ \A i \in DOMAIN taken : taken[i].method = "session/prompt" =>
              /\ madeFor[taken[i].session] = c
              /\ \E j \in 1..(i - 1) : taken[j].method = "session/new"

\* Only one client is served, a client that has gone leaves no connection to the agent
\* behind, and a proxy that was closed no connection at all.
OneIsServed ==
    /\ \A c \in Clients : renderer[c] = "open" => activeClient = c
    /\ \A c \in Clients : renderer[c] = "closed" => upstream[c] \notin {"connecting", "open"}
    /\ closed => \A c \in Clients : upstream[c] \in {"none", "closed"}

ProxySafe == InOrder /\ SessionsAreBound /\ OneIsServed

=============================================================================
