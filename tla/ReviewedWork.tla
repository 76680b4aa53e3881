---------------------------- MODULE ReviewedWork ----------------------------
(***************************************************************************)
(* The three records of the control plane that say what somebody else has  *)
(* done: a task of the board, a compute request, a hosting application.    *)
(* They share no row, so what happens to them is the conjunction of their  *)
(* specifications.                                                         *)
(***************************************************************************)
EXTENDS ProjectTasks, ComputeRequests, Hosting

ReviewedSpec == BoardSpec /\ RequestsSpec /\ HostingSpec

\* What is done, delivered or deployed is what was read by the one whose approval
\* it needs: a user for a task, the owner for a quote, the operators for a hosting
\* application.
AdvancedAsRead == DoneAsReviewed /\ DeliveredWasAccepted /\ DeployedAsReviewed

=============================================================================
