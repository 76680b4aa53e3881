----------------------------- MODULE WindowWork -----------------------------
(***************************************************************************)
(* What a window of the desktop does for its user: a run of the agent, the *)
(* project it works in, and the proxy between the two.  They share no      *)
(* variable, so what happens is the conjunction of their specifications.   *)
(***************************************************************************)
EXTENDS AgentRun, ProjectWorkspace, AcpProxy

WindowSpec == RunSpec /\ ProjectSpec /\ ProxySpec

\* What a window promises of its work: nothing is edited without the user's consent and
\* a run that counts as complete has earned it; the files and changes on the screen are
\* those of a root that the user picked; and an agent gets the frames of its own client,
\* in order and bound to that client's root and session.
WorkSafe == RunSafe /\ WorkspaceSafe /\ ProxySafe

=============================================================================
