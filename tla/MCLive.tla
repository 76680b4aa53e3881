------------------------------- MODULE MCLive -------------------------------
(* What must eventually happen to a client's task, and to a payment, checked *)
(* by one run.  They share no variable; `part' says which of them it is that *)
(* moves, and is chosen in the initial state.                                *)
EXTENDS TaskClients, PaymentOrders

VARIABLE part

LiveInit == part \in {"clients", "payments"} /\ ClientsInit /\ PaymentInit

LiveNext ==
    /\ UNCHANGED part
    /\ \/ part = "clients" /\ ClientsNext /\ UNCHANGED paymentVars
       \/ part = "payments" /\ PaymentNext /\ UNCHANGED clientVars

LiveSpec ==
    /\ LiveInit /\ [][LiveNext]_<<part, clientVars, paymentVars>>
    /\ \/ part = "clients" /\ Fairness
       \/ part = "payments" /\ PaymentFairness

=============================================================================
